----------------------------- MODULE AllocLedger -----------------------------
(***************************************************************************)
(* What the analyzer promises about every block, whatever pointers the     *)
(* program passes it: a block is entered in the ledger once after libc     *)
(* handed it out, it leaves the ledger before libc gets it back, and libc  *)
(* gets it back once.  Calls that fail change nothing and are reported     *)
(* (see AllocAnalyze, which implements this specification).                *)
(***************************************************************************)
CONSTANT Blocks

VARIABLES
  block,     \* where every block is in its life
  up         \* the program is running

ledgerVars == <<block, up>>

BlockStates == {"free",     \* with libc
                "handed",   \* from libc, not in the ledger yet
                "live",     \* in the ledger as allocated
                "dying"}    \* struck from the ledger, still allocated in libc

LedgerTypeOK == block \in [Blocks -> BlockStates] /\ up \in BOOLEAN

LedgerInit == block = [b \in Blocks |-> "free"] /\ up = TRUE

Move(b, from, to) ==
  /\ up /\ up' = up
  /\ block[b] = from
  /\ block' = [block EXCEPT ![b] = to]

Obtain(b)   == Move(b, "free", "handed")
Enter(b)    == Move(b, "handed", "live")
Strike(b)   == Move(b, "live", "dying")
GiveBack(b) == Move(b, "dying", "free")

\* realloc frees one block and hands out another at once.
Exchange(b, c) ==
  /\ up /\ up' = up
  /\ block[b] = "live" /\ block[c] = "free"
  /\ block' = [block EXCEPT ![b] = "free", ![c] = "handed"]

\* The program ends, at any time.
End == up /\ up' = FALSE /\ block' = block

LedgerNext ==
  \/ \E b \in Blocks : Obtain(b) \/ Enter(b) \/ Strike(b) \/ GiveBack(b)
  \/ \E b, c \in Blocks : Exchange(b, c)
  \/ End

LedgerSafety == LedgerInit /\ [][LedgerNext]_ledgerVars

\* While the program runs, a struck block is given back.
LedgerSpec == LedgerSafety /\ \A b \in Blocks : WF_ledgerVars(GiveBack(b))
=============================================================================

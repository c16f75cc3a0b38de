----------------------------- MODULE SaleArchive -----------------------------
(***************************************************************************)
(* What the harvest pipeline promises, with no window, no checkpoint and   *)
(* no crash: a landing zone that only grows, and an archive that at every  *)
(* moment holds exactly the sales of one of its prefixes, reconstructed    *)
(* in one reading, where that prefix never recedes.                        *)
(***************************************************************************)
EXTENDS HarvestFold

VARIABLES
  log,      \* the landing zone: the complete lines collected so far
  carried,  \* how many of them the archive describes
  archive   \* (auction, player) -> the sale archived, or NoSale

Init ==
  /\ log = <<>>
  /\ carried = 0
  /\ archive = EmptyArchive

\* The collector lands more lines.
Land ==
  /\ log' \in Seq(Line)
  /\ Len(log') > Len(log)
  /\ SubSeq(log', 1, Len(log)) = log
  /\ UNCHANGED <<carried, archive>>

\* The loader archives a longer prefix.
Carry ==
  \E n \in carried + 1 .. Len(log) :
    /\ carried' = n
    /\ archive' = Reconstruct(SubSeq(log, 1, n))
    /\ UNCHANGED log

Spec == Init /\ [][Land \/ Carry]_<<log, carried, archive>>

=============================================================================

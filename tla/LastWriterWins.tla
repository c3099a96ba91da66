---------------------------- MODULE LastWriterWins ----------------------------
(***************************************************************************)
(* What ADR-008 promises of reading progress: one register per book, and   *)
(* of the writes offered to it the one with the latest updatedAt stays.    *)
(* A write older than the register changes nothing.                        *)
(***************************************************************************)
EXTENDS Naturals

CONSTANTS Books, Rows, Blank  \* Blank: the register before the first write

VARIABLE reg

LWWInit == reg = [b \in Books |-> Blank]

Put(b, r) ==
  /\ r.at >= reg[b].at
  /\ reg' = [reg EXCEPT ![b] = r]

LWWNext == \E b \in Books : reg'[b] \in Rows /\ Put(b, reg'[b])

LWWSpec == LWWInit /\ [][LWWNext]_reg
=============================================================================

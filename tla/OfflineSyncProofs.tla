-------------------------- MODULE OfflineSyncProofs --------------------------
(***************************************************************************)
(* Theorems about OfflineSync, for any devices, books, size of a batch and *)
(* bound of the clock.                                                     *)
(***************************************************************************)
EXTENDS OfflineSync, TLAPS

LEMMA TimesAreNat == ASSUME SyncAssumption PROVE Times \subseteq Nat /\ 0 \in Times
BY DEF SyncAssumption, Times

\* The server's ruling only ever moves a register forward, and up to the write.
LEMMA RuleRaises ==
  ASSUME SyncAssumption, TypeOK, NEW b \in Books, NEW t \in Times, Rule(b, t)
  PROVE  /\ reg' \in [Books -> [at : Times]]
         /\ \A x \in Books : reg'[x].at >= reg[x].at
         /\ reg'[b].at >= t
<1>1. \A x \in Books : reg[x].at \in Nat
  BY TimesAreNat DEF TypeOK
<1>2. t \in Nat
  BY TimesAreNat
<1>3. CASE reg[b].at > t
  BY <1>1, <1>2, <1>3 DEF Rule, TypeOK
<1>4. CASE ~(reg[b].at > t)
  <2>1. reg' = [reg EXCEPT ![b] = [at |-> t]]
    BY <1>4 DEF Rule, Put
  <2>2. \A x \in Books : reg'[x] = IF x = b THEN [at |-> t] ELSE reg[x]
    BY <2>1 DEF TypeOK
  <2>3. QED
    BY <1>1, <1>2, <1>4, <2>1, <2>2 DEF TypeOK
<1>5. QED
  BY <1>3, <1>4

Puts == [book : Books, at : Times, ruled : BOOLEAN]
Flushes == [active : BOOLEAN, sent : [Books -> Times], left : SUBSET Books]
Restores == [stage : {"idle", "flush", "get"}, book : Books \cup {{}}]

LEMMA FlushStartsType ==
  ASSUME SyncAssumption, TypeOK, NEW d \in Devices, FlushStarts(d)
  PROVE  flush' \in [Devices -> Flushes]
<1>1. [active |-> TRUE, sent |-> queue[d], left |-> {b \in Books : queue[d][b] # 0}] \in Flushes
  BY DEF TypeOK, Flushes
<1>2. flush \in [Devices -> Flushes]
  BY DEF TypeOK, Flushes
<1>3. QED
  BY <1>1, <1>2 DEF FlushStarts

LEMMA FlushEndsType ==
  ASSUME SyncAssumption, TypeOK, NEW d \in Devices, FlushEnds(d)
  PROVE  flush' \in [Devices -> Flushes] /\ restore' \in [Devices -> Restores]
<1>1. NoFlush \in Flushes
  BY TimesAreNat DEF NoFlush, None, Flushes
<1>2. flush \in [Devices -> Flushes] /\ restore \in [Devices -> Restores]
  BY DEF TypeOK, Flushes, Restores
<1>3. flush' \in [Devices -> Flushes]
  BY <1>1, <1>2 DEF FlushEnds
<1>4. restore' \in [Devices -> Restores]
  BY <1>2 DEF FlushEnds, Restores
<1>5. QED
  BY <1>3, <1>4

\* The type invariant of the reader's queue, its requests and its restores.
THEOREM TypeCorrect == ASSUME SyncAssumption PROVE Spec => []TypeOK
<1> USE TimesAreNat
<1>0. NoFlush \in Flushes /\ NoRestore \in Restores /\ None \in [Books -> Times]
  BY DEF NoFlush, None, Flushes, NoRestore, Restores
<1>1. Init => TypeOK
  <2> SUFFICES ASSUME Init PROVE TypeOK
    OBVIOUS
  <2>1. reg \in [Books -> [at : Times]]
    BY DEF Init, LWWInit, SyncAssumption
  <2>2. now \in Times \ {0}
    BY DEF Init, Times, SyncAssumption
  <2>3. QED
    BY <2>1, <2>2, <1>0 DEF Init, TypeOK, Flushes, Restores
<1>2. TypeOK /\ [Next]_vars => TypeOK'
  <2> SUFFICES ASSUME TypeOK, [Next]_vars PROVE TypeOK'
    OBVIOUS
  <2>f. flush \in [Devices -> Flushes] /\ restore \in [Devices -> Restores]
    BY DEF TypeOK, Flushes, Restores
  <2>1. CASE Tick
    BY <2>1 DEF Tick, TypeOK, Times, SyncAssumption
  <2>2. CASE Switch
    BY <2>2 DEF Switch, TypeOK
  <2>3. ASSUME NEW w \in late, LateRuled(w) PROVE TypeOK'
    <3>1. w.book \in Books /\ w.at \in Times
      BY DEF TypeOK
    <3>2. reg' \in [Books -> [at : Times]]
      BY <2>3, <3>1, RuleRaises DEF LateRuled
    <3>3. QED
      BY <2>3, <3>2 DEF LateRuled, TypeOK
  <2>4. ASSUME NEW d \in Devices, NEW b \in Books, Save(d, b) PROVE TypeOK'
    <3>1. [book |-> b, at |-> now, ruled |-> FALSE] \in Puts
      BY DEF TypeOK, Puts
    <3>2. puts' \in [Devices -> SUBSET Puts]
      BY <2>4, <3>1 DEF Save, TypeOK, Puts
    <3>3. owed' \in [Devices -> [Books -> Times]]
      BY <2>4 DEF Save, TypeOK
    <3>4. QED
      BY <2>4, <3>2, <3>3 DEF Save, TypeOK, Puts
  <2>5. ASSUME NEW d \in Devices, NEW p \in puts[d], PutRuled(d, p) PROVE TypeOK'
    <3>1. p \in Puts
      BY DEF TypeOK, Puts
    <3>2. p.book \in Books /\ p.at \in Times /\ [p EXCEPT !.ruled = TRUE] \in Puts
      BY <3>1 DEF Puts
    <3>3. reg' \in [Books -> [at : Times]]
      BY <2>5, <3>2, RuleRaises DEF PutRuled
    <3>4. puts' \in [Devices -> SUBSET Puts]
      BY <2>5, <3>2 DEF PutRuled, TypeOK, Puts
    <3>5. QED
      BY <2>5, <3>3, <3>4 DEF PutRuled, TypeOK, Puts
  <2>6. ASSUME NEW d \in Devices, NEW p \in puts[d], PutAnswered(d, p) PROVE TypeOK'
    <3>1. flush' \in [Devices -> Flushes]
      BY <2>6, FlushStartsType DEF PutAnswered
    <3>2. puts' \in [Devices -> SUBSET Puts]
      BY <2>6 DEF PutAnswered, TypeOK, Puts
    <3>3. QED
      BY <2>6, <3>1, <3>2 DEF PutAnswered, TypeOK, Puts, Flushes
  <2>7. ASSUME NEW d \in Devices, NEW p \in puts[d], PutFails(d, p) PROVE TypeOK'
    <3>1. p.book \in Books /\ p.at \in Times
      BY DEF TypeOK
    <3>2. queue' \in [Devices -> [Books -> Times]]
      <4>1. queue \in [Devices -> [Books -> Times]]
        BY DEF TypeOK
      <4>2. queue' = queue \/ queue' = [queue EXCEPT ![d][p.book] = p.at]
        BY <2>7 DEF PutFails, Enqueue
      <4>3. QED
        BY <3>1, <4>1, <4>2
    <3>3. late' \subseteq [book : Books, at : Times]
      BY <2>7, <3>1 DEF PutFails, TypeOK
    <3>4. puts' \in [Devices -> SUBSET Puts]
      BY <2>7 DEF PutFails, TypeOK, Puts
    <3>5. QED
      BY <2>7, <3>2, <3>3, <3>4 DEF PutFails, TypeOK, Puts
  <2>8. ASSUME NEW d \in Devices, NEW b \in Books, ItemRuled(d, b) \/ ItemFails(d, b) PROVE TypeOK'
    <3>1. flush' = [flush EXCEPT ![d].left = @ \ {b}]
      BY <2>8 DEF ItemRuled, ItemFails
    <3>2. flush' \in [Devices -> Flushes]
      BY <3>1, <2>f DEF Flushes
    <3>3. flush[d].sent[b] \in Times
      BY DEF TypeOK
    <3>4. reg' \in [Books -> [at : Times]]
      BY <2>8, <3>3, RuleRaises DEF ItemRuled, ItemFails, TypeOK
    <3>5. failed' \in [Devices -> SUBSET Books]
      <4>1. failed \in [Devices -> SUBSET Books]
        BY DEF TypeOK
      <4>2. failed' = failed \/ failed' = [failed EXCEPT ![d] = failed[d] \cup {b}]
        BY <2>8 DEF ItemRuled, ItemFails
      <4>3. QED
        BY <4>1, <4>2
    <3>6. QED
      BY <2>8, <3>2, <3>4, <3>5 DEF ItemRuled, ItemFails, TypeOK, Flushes
  <2>9. ASSUME NEW d \in Devices, FlushAnswered(d) PROVE TypeOK'
    <3>1. Remaining(d) \in [Books -> Times]
      BY DEF Remaining, TypeOK
    <3>2. queue' \in [Devices -> [Books -> Times]]
      BY <2>9, <3>1 DEF FlushAnswered, TypeOK
    <3>3. QED
      BY <2>9, <3>2, FlushEndsType DEF FlushAnswered, TypeOK, Flushes, Restores
  <2>10. ASSUME NEW d \in Devices, FlushFails(d) PROVE TypeOK'
    <3>1. {[book |-> b, at |-> flush[d].sent[b]] : b \in flush[d].left} \subseteq [book : Books, at : Times]
      BY DEF TypeOK
    <3>2. late' \subseteq [book : Books, at : Times]
      BY <2>10, <3>1 DEF FlushFails, TypeOK
    <3>3. QED
      BY <2>10, <3>2, FlushEndsType DEF FlushFails, TypeOK, Flushes, Restores
  <2>11. ASSUME NEW d \in Devices, NEW b \in Books, Restore(d, b) PROVE TypeOK'
    <3>1. flush' \in [Devices -> Flushes]
      BY <2>11, FlushStartsType DEF Restore
    <3>2. restore' \in [Devices -> Restores]
      BY <2>11, <2>f DEF Restore, Restores
    <3>3. QED
      BY <2>11, <3>1, <3>2 DEF Restore, TypeOK, Flushes, Restores
  <2>12. ASSUME NEW d \in Devices, RestoreStep(d) PROVE TypeOK'
    <3>1. restore' \in [Devices -> Restores]
      BY <2>12, <2>f, <1>0 DEF RestoreStep, PlaceRestored, NoPlace
    <3>2. QED
      BY <2>12, <3>1 DEF RestoreStep, PlaceRestored, NoPlace, TypeOK, Restores
  <2>13. ASSUME NEW d \in Devices, Close(d) PROVE TypeOK'
    <3>1. [b \in Books |-> IF \E p \in puts[d] : p.book = b THEN queue[d][b] ELSE owed[d][b]]
            \in [Books -> Times]
      BY DEF TypeOK
    <3>2. owed' \in [Devices -> [Books -> Times]]
      BY <2>13, <3>1 DEF Close, TypeOK
    <3>3. /\ {[book |-> p.book, at |-> p.at] : p \in {q \in puts[d] : ~q.ruled}}
               \subseteq [book : Books, at : Times]
          /\ {[book |-> b, at |-> flush[d].sent[b]] : b \in flush[d].left}
               \subseteq [book : Books, at : Times]
      BY DEF TypeOK
    <3>4. late' \subseteq [book : Books, at : Times]
      BY <2>13, <3>3 DEF Close, TypeOK
    <3>5. /\ flush' \in [Devices -> Flushes] /\ restore' \in [Devices -> Restores]
          /\ puts' \in [Devices -> SUBSET Puts]
      BY <2>13, <2>f, <1>0 DEF Close, TypeOK, Puts
    <3>6. QED
      BY <2>13, <3>2, <3>4, <3>5 DEF Close, TypeOK, Flushes, Restores, Puts
  <2>14. CASE UNCHANGED vars
    BY <2>14 DEF vars, TypeOK
  <2>15. QED
    BY <2>1, <2>2, <2>3, <2>4, <2>5, <2>6, <2>7, <2>8, <2>9, <2>10, <2>11, <2>12, <2>13, <2>14
    DEF Next, PutStep, FlushStep
<1>3. QED
  BY <1>1, <1>2, PTL DEF Spec

-----------------------------------------------------------------------------
(* No place is lost.                                                       *)

\* A request the server has ruled on, and an item of a batch it has ruled on,
\* left the register at least as new.
Ruled ==
  /\ \A d \in Devices : \A p \in puts[d] : p.ruled => reg[p.book].at >= p.at
  /\ \A d \in Devices, b \in Books :
       b \in flush[d].left \cup failed[d] \/ reg[b].at >= flush[d].sent[b]

PlaceInv == Ruled /\ NoPlaceLost

LEMMA PlaceInvInit == ASSUME SyncAssumption PROVE Init => PlaceInv
BY DEF Init, LWWInit, SyncAssumption, PlaceInv, Ruled, NoPlaceLost, Latest, None, NoFlush

\* What a step must not do: lower a register, or forget a place it owes.
LEMMA PlaceKept ==
  ASSUME SyncAssumption, TypeOK, TypeOK', NoPlaceLost,
         \A b \in Books : reg'[b].at >= reg[b].at,
         NEW d \in Devices, NEW b \in Books, b \notin failed[d], owed'[d][b] = owed[d][b],
         queue'[d][b] >= queue[d][b] \/ reg'[b].at >= queue[d][b],
         \A p \in puts[d] : p.book = b =>
           \/ \E q \in puts'[d] : q.book = b /\ q.at >= p.at
           \/ queue'[d][b] >= p.at
           \/ reg'[b].at >= p.at
  PROVE  Latest(d, b, owed[d][b])'
<1>1. /\ reg[b].at \in Nat /\ reg'[b].at \in Nat /\ queue[d][b] \in Nat
      /\ queue'[d][b] \in Nat /\ owed[d][b] \in Nat
      /\ \A p \in puts[d] : p.at \in Nat
      /\ \A p \in puts'[d] : p.at \in Nat
  BY TimesAreNat DEF TypeOK
<1>2. CASE reg[b].at >= owed[d][b]
  BY <1>1, <1>2 DEF Latest
<1>3. CASE queue[d][b] >= owed[d][b]
  BY <1>1, <1>3 DEF Latest
<1>4. ASSUME NEW p \in puts[d], p.book = b, p.at >= owed[d][b]
      PROVE  Latest(d, b, owed[d][b])'
  BY <1>1, <1>4 DEF Latest
<1>5. QED
  BY <1>2, <1>3, <1>4 DEF NoPlaceLost, Latest

LEMMA RegisterRises ==
  ASSUME SyncAssumption, TypeOK, [Next]_vars
  PROVE  \A b \in Books : reg'[b].at >= reg[b].at
<1>0. \A b \in Books : reg[b].at \in Nat
  BY TimesAreNat DEF TypeOK
<1>1. ASSUME NEW b \in Books, NEW t \in Times, Rule(b, t)
      PROVE  \A x \in Books : reg'[x].at >= reg[x].at
  BY <1>1, RuleRaises
<1>2. CASE UNCHANGED reg
  BY <1>0, <1>2
<1>3. ASSUME NEW w \in late, LateRuled(w) PROVE \A b \in Books : reg'[b].at >= reg[b].at
  BY <1>1, <1>3 DEF LateRuled, TypeOK
<1>4. ASSUME NEW d \in Devices, NEW p \in puts[d], PutRuled(d, p)
      PROVE  \A b \in Books : reg'[b].at >= reg[b].at
  BY <1>1, <1>4 DEF PutRuled, TypeOK
<1>5. ASSUME NEW d \in Devices, NEW x \in Books, ItemRuled(d, x)
      PROVE  \A b \in Books : reg'[b].at >= reg[b].at
  <2>1. flush[d].sent[x] \in Times
    BY DEF TypeOK
  <2>2. QED
    BY <1>1, <1>5, <2>1 DEF ItemRuled
<1>6. QED
  BY <1>2, <1>3, <1>4, <1>5
  DEF Next, vars, Tick, Switch, PutStep, PutAnswered, PutFails, FlushStep, ItemFails,
      FlushAnswered, FlushFails, RestoreStep, PlaceRestored, NoPlace, Close, Save, Restore

LEMMA FailedGrows ==
  ASSUME TypeOK, [Next]_vars
  PROVE  \A d \in Devices : failed[d] \subseteq failed'[d]
<1>1. failed' = failed \/ \E d \in Devices, b \in Books : ItemFails(d, b)
  BY DEF Next, vars, Tick, Switch, LateRuled, PutStep, PutRuled, PutAnswered, PutFails, FlushStep,
       ItemRuled, FlushAnswered, FlushFails, RestoreStep, PlaceRestored, NoPlace, Close, Save, Restore
<1>2. QED
  <2>1. CASE failed' = failed
    BY <2>1
  <2>2. ASSUME NEW d \in Devices, NEW b \in Books, ItemFails(d, b)
        PROVE  \A e \in Devices : failed[e] \subseteq failed'[e]
    <3>1. \A e \in Devices : failed'[e] = IF e = d THEN failed[d] \cup {b} ELSE failed[e]
      BY <2>2 DEF ItemFails, TypeOK
    <3>2. QED
      BY <3>1
  <2>3. QED
    BY <1>1, <2>1, <2>2

LEMMA RuledStep ==
  ASSUME SyncAssumption, TypeOK, TypeOK', Ruled, [Next]_vars
  PROVE  Ruled'
<1>0. /\ \A b \in Books : reg[b].at \in Nat /\ reg'[b].at >= reg[b].at
      /\ \A d \in Devices : \A p \in puts[d] : p.book \in Books /\ p.at \in Nat
      /\ \A d \in Devices, b \in Books : flush[d].sent[b] \in Nat
  BY RegisterRises, TimesAreNat DEF TypeOK
<1>r. \A b \in Books : reg'[b].at \in Nat
  BY TimesAreNat DEF TypeOK
<1>d. \A d \in Devices : failed[d] \subseteq failed'[d]
  BY FailedGrows
<1>p. ASSUME \A d \in Devices : \A p \in puts'[d] : p.ruled => p \in puts[d]
      PROVE  \A d \in Devices : \A p \in puts'[d] : p.ruled => reg'[p.book].at >= p.at
  BY <1>0, <1>r, <1>p DEF Ruled
<1> DEFINE Settled(d, b) ==
      b \in flush[d].left \cup failed[d] \/ reg[b].at >= flush[d].sent[b]
<1>f. ASSUME NEW d \in Devices, NEW b \in Books, flush'[d] = flush[d]
      PROVE  Settled(d, b)'
  BY <1>0, <1>r, <1>d, <1>f DEF Ruled
<1>n. ASSUME NEW d \in Devices, NEW b \in Books, flush'[d] = NoFlush
      PROVE  Settled(d, b)'
  BY <1>r, <1>n DEF NoFlush, None
<1>s. ASSUME NEW d \in Devices, FlushStarts(d)
      PROVE  \A e \in Devices, b \in Books : Settled(e, b)'
  <2>1. CASE flush' = flush
    BY <1>f, <2>1
  <2>2. CASE flush' = [flush EXCEPT ![d] = [active |-> TRUE, sent |-> queue[d],
                                            left |-> {b \in Books : queue[d][b] # 0}]]
    <3>1. /\ flush'[d].sent = queue[d] /\ flush'[d].left = {b \in Books : queue[d][b] # 0}
          /\ \A e \in Devices : e # d => flush'[e] = flush[e]
      BY <2>2 DEF TypeOK
    <3>2. QED
      BY <1>f, <1>r, <3>1
  <2>3. QED
    BY <1>s, <2>1, <2>2 DEF FlushStarts
<1>1. CASE Tick \/ Switch \/ UNCHANGED vars
  BY <1>1, <1>p, <1>f DEF Tick, Switch, vars, Ruled
<1>2. ASSUME NEW w \in late, LateRuled(w) PROVE Ruled'
  BY <1>2, <1>p, <1>f DEF LateRuled, Ruled
<1>3. ASSUME NEW d \in Devices, NEW b \in Books, Save(d, b) PROVE Ruled'
  <2>1. \A e \in Devices : \A p \in puts'[e] : p.ruled => p \in puts[e]
    BY <1>3 DEF Save, TypeOK
  <2>2. QED
    BY <1>3, <2>1, <1>p, <1>f DEF Save, Ruled
<1>4. ASSUME NEW d \in Devices, NEW p \in puts[d], PutRuled(d, p) PROVE Ruled'
  <2>1. reg'[p.book].at >= p.at
    BY <1>4, RuleRaises DEF PutRuled, TypeOK
  <2>2. \A e \in Devices : \A q \in puts'[e] :
          q \in puts[e] \/ q = [p EXCEPT !.ruled = TRUE]
    BY <1>4 DEF PutRuled, TypeOK
  <2>3. [p EXCEPT !.ruled = TRUE].book = p.book /\ [p EXCEPT !.ruled = TRUE].at = p.at
    BY DEF TypeOK
  <2>4. \A e \in Devices : \A q \in puts'[e] : q.ruled => reg'[q.book].at >= q.at
    <3> SUFFICES ASSUME NEW e \in Devices, NEW q \in puts'[e], q.ruled
                 PROVE  reg'[q.book].at >= q.at
      OBVIOUS
    <3>1. CASE q \in puts[e]
      <4>1. reg[q.book].at >= q.at
        BY <3>1 DEF Ruled
      <4>2. QED
        BY <3>1, <4>1, <1>0, <1>r
    <3>2. CASE q = [p EXCEPT !.ruled = TRUE]
      BY <3>2, <2>1, <2>3
    <3>3. QED
      BY <2>2, <3>1, <3>2
  <2>5. QED
    BY <1>4, <2>4, <1>f DEF PutRuled, Ruled
<1>5. ASSUME NEW d \in Devices, NEW p \in puts[d], PutAnswered(d, p) PROVE Ruled'
  <2>1. \A e \in Devices : \A q \in puts'[e] : q \in puts[e]
    BY <1>5 DEF PutAnswered, TypeOK
  <2>2. QED
    BY <1>5, <2>1, <1>p, <1>s DEF PutAnswered, Ruled
<1>6. ASSUME NEW d \in Devices, NEW p \in puts[d], PutFails(d, p) PROVE Ruled'
  <2>1. \A e \in Devices : \A q \in puts'[e] : q \in puts[e]
    BY <1>6 DEF PutFails, TypeOK
  <2>2. QED
    BY <1>6, <2>1, <1>p, <1>f DEF PutFails, Ruled
<1>7. ASSUME NEW d \in Devices, NEW b \in Books, ItemRuled(d, b) PROVE Ruled'
  <2>1. flush[d].sent[b] \in Times
    BY DEF TypeOK
  <2>2. reg'[b].at >= flush[d].sent[b]
    BY <1>7, <2>1, RuleRaises DEF ItemRuled
  <2>3. /\ flush'[d].sent = flush[d].sent /\ flush'[d].left = flush[d].left \ {b}
        /\ \A e \in Devices : e # d => flush'[e] = flush[e]
    BY <1>7 DEF ItemRuled, TypeOK
  <2>4. \A e \in Devices, x \in Books :
          Settled(e, x)'
    <3> SUFFICES ASSUME NEW e \in Devices, NEW x \in Books
                 PROVE  Settled(e, x)'
      OBVIOUS
    <3>1. CASE e # d
      BY <3>1, <2>3, <1>f
    <3>2. CASE e = d /\ x = b
      BY <3>2, <2>2, <2>3
    <3>3. CASE e = d /\ x # b
      <4>1. Settled(d, x)
        BY DEF Ruled
      <4>2. QED
        BY <3>3, <4>1, <2>3, <1>0, <1>r, <1>d
    <3>4. QED
      BY <3>1, <3>2, <3>3
  <2>5. QED
    BY <1>7, <2>4, <1>p DEF ItemRuled, Ruled
<1>8. ASSUME NEW d \in Devices, FlushAnswered(d) \/ FlushFails(d) PROVE Ruled'
  <2>1. \A e \in Devices : flush'[e] = flush[e] \/ flush'[e] = NoFlush
    BY <1>8 DEF FlushAnswered, FlushFails, FlushEnds, TypeOK
  <2>2. QED
    BY <1>8, <2>1, <1>p, <1>f, <1>n DEF FlushAnswered, FlushFails, Ruled
<1>9. ASSUME NEW d \in Devices, NEW b \in Books, Restore(d, b) PROVE Ruled'
  BY <1>9, <1>p, <1>s DEF Restore, Ruled
<1>10. ASSUME NEW d \in Devices, RestoreStep(d) PROVE Ruled'
  BY <1>10, <1>p, <1>f DEF RestoreStep, PlaceRestored, NoPlace, Ruled
<1>11. ASSUME NEW d \in Devices, Close(d) PROVE Ruled'
  <2>1. \A e \in Devices : flush'[e] = flush[e] \/ flush'[e] = NoFlush
    BY <1>11 DEF Close, TypeOK
  <2>2. \A e \in Devices : \A q \in puts'[e] : q \in puts[e]
    BY <1>11 DEF Close, TypeOK
  <2>3. QED
    BY <2>1, <2>2, <1>p, <1>f, <1>n DEF Ruled
<1>12. ASSUME NEW d \in Devices, NEW b \in Books, ItemFails(d, b) PROVE Ruled'
  <2>1. /\ flush'[d].sent = flush[d].sent /\ flush'[d].left = flush[d].left \ {b}
        /\ \A e \in Devices : e # d => flush'[e] = flush[e]
        /\ b \in failed'[d]
        /\ UNCHANGED <<reg, puts>>
    BY <1>12 DEF ItemFails, TypeOK
  <2>2. \A e \in Devices, x \in Books : Settled(e, x)'
    <3> SUFFICES ASSUME NEW e \in Devices, NEW x \in Books
                 PROVE  Settled(e, x)'
      OBVIOUS
    <3>1. CASE e # d
      BY <3>1, <2>1, <1>f
    <3>2. CASE e = d /\ x = b
      BY <3>2, <2>1
    <3>3. CASE e = d /\ x # b
      <4>1. Settled(d, x)
        BY DEF Ruled
      <4>2. QED
        BY <3>3, <4>1, <2>1, <1>d
    <3>4. QED
      BY <3>1, <3>2, <3>3
  <2>3. QED
    BY <2>1, <2>2, <1>p DEF Ruled
<1>13. QED
  BY <1>1, <1>2, <1>3, <1>4, <1>5, <1>6, <1>7, <1>8, <1>9, <1>10, <1>11, <1>12
  DEF Next, PutStep, FlushStep

LEMMA NoPlaceLostStep ==
  ASSUME SyncAssumption, TypeOK, TypeOK', Ruled, NoPlaceLost, [Next]_vars
  PROVE  NoPlaceLost'
<1>0. \A b \in Books : reg'[b].at >= reg[b].at
  BY RegisterRises
<1>t. /\ \A d \in Devices, b \in Books : queue[d][b] \in Nat /\ queue'[d][b] \in Nat
      /\ \A b \in Books : reg[b].at \in Nat /\ reg'[b].at \in Nat
      /\ \A d \in Devices : \A p \in puts[d] : p.at \in Nat /\ p.book \in Books
      /\ \A d \in Devices : \A p \in puts'[d] : p.at \in Nat
      /\ now \in Nat
  BY TimesAreNat DEF TypeOK
<1>d. \A d \in Devices : failed[d] \subseteq failed'[d]
  BY FailedGrows
<1> DEFINE Kept(d, b) ==
      /\ owed'[d][b] = owed[d][b]
      /\ queue'[d][b] >= queue[d][b] \/ reg'[b].at >= queue[d][b]
      /\ \A p \in puts[d] : p.book = b =>
           \/ \E q \in puts'[d] : q.book = b /\ q.at >= p.at
           \/ queue'[d][b] >= p.at
           \/ reg'[b].at >= p.at
<1>k. ASSUME NEW d \in Devices, NEW b \in Books, b \in failed[d] \/ Kept(d, b)
      PROVE  (b \in failed[d] \/ Latest(d, b, owed[d][b]))'
  BY <1>k, <1>0, <1>d, PlaceKept
<1>a. ASSUME \A d \in Devices, b \in Books : b \in failed[d] \/ Kept(d, b) PROVE NoPlaceLost'
  BY <1>a, <1>k DEF NoPlaceLost
<1> HIDE DEF Kept
<1>1. CASE UNCHANGED <<owed, queue, puts>>
  <2>1. \A d \in Devices, b \in Books : Kept(d, b)
    BY <1>1, <1>t DEF Kept
  <2>2. QED
    BY <2>1, <1>a
<1>2. ASSUME NEW d \in Devices, NEW b \in Books, Save(d, b) PROVE NoPlaceLost'
  <2>1. \A e \in Devices, x \in Books : e # d \/ x # b => Kept(e, x)
    BY <1>2, <1>t DEF Save, TypeOK, Kept
  <2>2. [book |-> b, at |-> now, ruled |-> FALSE] \in puts'[d] /\ owed'[d][b] = now
    BY <1>2 DEF Save, TypeOK
  <2>3. Latest(d, b, owed[d][b])'
    BY <2>2, <1>t DEF Latest
  <2>4. QED
    BY <2>1, <2>3, <1>k DEF NoPlaceLost
<1>3. ASSUME NEW d \in Devices, NEW p \in puts[d], PutRuled(d, p) PROVE NoPlaceLost'
  <2>1. [p EXCEPT !.ruled = TRUE].book = p.book /\ [p EXCEPT !.ruled = TRUE].at = p.at
    BY DEF TypeOK
  <2>2. /\ puts'[d] = (puts[d] \ {p}) \cup {[p EXCEPT !.ruled = TRUE]}
        /\ \A e \in Devices : e # d => puts'[e] = puts[e]
        /\ UNCHANGED <<queue, owed>>
    BY <1>3 DEF PutRuled, TypeOK
  <2>3. ASSUME NEW e \in Devices, NEW x \in Books PROVE Kept(e, x)
    <3>1. ASSUME NEW q \in puts[e], q.book = x
          PROVE  \E r \in puts'[e] : r.book = x /\ r.at >= q.at
      <4>1. CASE e = d /\ q = p
        <5> DEFINE r == [p EXCEPT !.ruled = TRUE]
        <5>1. r \in puts'[e] /\ r.book = x /\ r.at = q.at
          BY <2>1, <2>2, <3>1, <4>1
        <5>2. r.at >= q.at
          BY <5>1, <1>t, <4>1
        <5> HIDE DEF r
        <5>3. QED
          BY <5>1, <5>2
      <4>2. CASE ~(e = d /\ q = p)
        <5>1. q \in puts'[e]
          BY <2>2, <4>2
        <5>2. QED
          BY <5>1, <3>1, <1>t
      <4>3. QED
        BY <4>1, <4>2
    <3>2. QED
      BY <2>2, <3>1, <1>t DEF Kept
  <2>4. QED
    BY <2>3, <1>a
<1>4. ASSUME NEW d \in Devices, NEW p \in puts[d], PutAnswered(d, p) PROVE NoPlaceLost'
  <2>1. reg'[p.book].at >= p.at
    BY <1>4 DEF PutAnswered, Ruled
  <2>2. /\ puts'[d] = puts[d] \ {p}
        /\ \A e \in Devices : e # d => puts'[e] = puts[e]
        /\ UNCHANGED <<queue, owed>>
    BY <1>4 DEF PutAnswered, TypeOK
  <2>3. \A e \in Devices, x \in Books : Kept(e, x)
    BY <2>1, <2>2, <1>t DEF Kept
  <2>4. QED
    BY <2>3, <1>a
<1>5. ASSUME NEW d \in Devices, NEW p \in puts[d], PutFails(d, p) PROVE NoPlaceLost'
  <2>1. /\ queue'[d][p.book] >= p.at
        /\ \A e \in Devices, x \in Books : queue'[e][x] >= queue[e][x]
    <3>1. CASE queue[d][p.book] > p.at
      BY <1>5, <3>1, <1>t DEF PutFails, Enqueue
    <3>2. \A e \in Devices, x \in Books :
            queue' = [queue EXCEPT ![d][p.book] = p.at] =>
              queue'[e][x] = IF e = d /\ x = p.book THEN p.at ELSE queue[e][x]
      BY DEF TypeOK
    <3>3. CASE ~(queue[d][p.book] > p.at)
      <4>1. queue' = [queue EXCEPT ![d][p.book] = p.at]
        BY <1>5, <3>3 DEF PutFails, Enqueue
      <4>2. QED
        BY <4>1, <3>2, <3>3, <1>t
    <3>4. QED
      BY <3>1, <3>3
  <2>2. /\ puts'[d] = puts[d] \ {p}
        /\ \A e \in Devices : e # d => puts'[e] = puts[e]
        /\ UNCHANGED owed
    BY <1>5 DEF PutFails, TypeOK
  <2>3. \A e \in Devices, x \in Books : Kept(e, x)
    BY <2>1, <2>2, <1>t DEF Kept
  <2>4. QED
    BY <2>3, <1>a
<1>6. ASSUME NEW d \in Devices, FlushAnswered(d) PROVE NoPlaceLost'
  <2>1. \A x \in Books : /\ x \in failed[d] \/ reg[x].at >= flush[d].sent[x]
                        /\ flush[d].sent[x] \in Nat
    BY <1>6, TimesAreNat DEF FlushAnswered, Ruled, TypeOK
  <2>2. \A x \in Books : queue'[d][x] = queue[d][x] \/ queue[d][x] <= flush[d].sent[x]
    BY <1>6 DEF FlushAnswered, Remaining, TypeOK
  <2>3. \A e \in Devices : e # d => queue'[e] = queue[e]
    BY <1>6 DEF FlushAnswered, TypeOK
  <2>4. \A e \in Devices, x \in Books :
          x \in failed[e] \/ queue'[e][x] >= queue[e][x] \/ reg'[x].at >= queue[e][x]
    BY <2>1, <2>2, <2>3, <1>0, <1>t
  <2>5. \A e \in Devices, x \in Books : x \in failed[e] \/ Kept(e, x)
    BY <2>4, <1>6, <1>t DEF FlushAnswered, Kept
  <2>6. QED
    BY <2>5, <1>a
<1>7. ASSUME NEW d \in Devices, Close(d) PROVE NoPlaceLost'
  <2>1. /\ \A e \in Devices : e # d => puts'[e] = puts[e] /\ owed'[e] = owed[e]
        /\ \A x \in Books : owed'[d][x] = IF \E p \in puts[d] : p.book = x
                                         THEN queue[d][x] ELSE owed[d][x]
        /\ queue' = queue
    BY <1>7 DEF Close, TypeOK
  <2>2. ASSUME NEW e \in Devices, NEW x \in Books, e # d \/ ~\E p \in puts[d] : p.book = x
        PROVE  (x \in failed[e] \/ Latest(e, x, owed[e][x]))'
    <3>1. Kept(e, x)
      BY <2>1, <2>2, <1>t DEF Kept
    <3>2. QED
      BY <3>1, <1>k
  <2>3. ASSUME NEW x \in Books, \E p \in puts[d] : p.book = x
        PROVE  Latest(d, x, owed[d][x])'
    BY <2>1, <2>3, <1>t DEF Latest
  <2>4. QED
    BY <2>2, <2>3 DEF NoPlaceLost
<1>8. QED
  BY <1>1, <1>2, <1>3, <1>4, <1>5, <1>6, <1>7
  DEF Next, vars, Tick, Switch, LateRuled, PutStep, FlushStep, ItemRuled, ItemFails,
      FlushFails, RestoreStep, PlaceRestored, NoPlace, Restore

\* The server's register of a book never goes back, whatever arrives late.
THEOREM RegistersRise == ASSUME SyncAssumption PROVE Spec => ServerNeverRegresses
<1> DEFINE Rises == \A b \in Books : reg'[b].at >= reg[b].at
<1>1. TypeOK /\ [Next]_vars => [Rises]_vars
  BY RegisterRises
<1>2. QED
  BY <1>1, TypeCorrect, PTL DEF Spec, ServerNeverRegresses

\* No place is lost but to an item of a batch that the server failed to store.
THEOREM PlacesAreKept == ASSUME SyncAssumption PROVE Spec => []NoPlaceLost
<1>1. TypeOK /\ TypeOK' /\ PlaceInv /\ [Next]_vars => PlaceInv'
  BY RuledStep, NoPlaceLostStep DEF PlaceInv
<1>2. QED
  BY <1>1, PlaceInvInit, TypeCorrect, PTL DEF Spec, PlaceInv

\* To the devices the server is the register of ADR-008, whichever of their writes are
\* lost, late, sent twice or fail as an item of a batch.
THEOREM ServerIsRegister == ASSUME SyncAssumption PROVE Spec => LWWSpec
<1>1. ASSUME TypeOK, NEW b \in Books, NEW t \in Times, Rule(b, t)
      PROVE  [LWWNext]_reg
  <2>1. reg[b] = [at |-> reg[b].at] /\ reg[b].at \in Nat /\ t \in Nat
    BY <1>1, TimesAreNat DEF TypeOK
  <2>2. CASE UNCHANGED reg
    BY <2>2
  <2>3. CASE reg[b].at <= t /\ Put(b, [at |-> t])
    <3>1. reg' = [reg EXCEPT ![b] = [at |-> t]] /\ reg'[b] = [at |-> t]
      BY <1>1, <2>3 DEF Put, TypeOK
    <3>2. CASE t = 0
      <4>1. reg[b] = [at |-> t]
        BY <2>1, <2>3, <3>2
      <4> QED BY <1>1, <3>1, <4>1 DEF TypeOK
    <3>3. CASE t # 0
      <4>1. reg'[b] \in Rows
        BY <2>1, <3>1, <3>3 DEF SyncAssumption, Times
      <4> QED BY <2>3, <3>1, <4>1 DEF LWWNext, Put
    <3> QED BY <3>2, <3>3
  <2> QED BY <1>1, <2>1, <2>2, <2>3 DEF Rule, Put
<1>2. ASSUME TypeOK, [Next]_vars PROVE [LWWNext]_reg
  <2>1. ASSUME NEW w \in late, LateRuled(w) PROVE [LWWNext]_reg
    BY <1>1, <1>2, <2>1 DEF LateRuled, TypeOK
  <2>2. ASSUME NEW d \in Devices, NEW p \in puts[d], PutRuled(d, p) PROVE [LWWNext]_reg
    BY <1>1, <1>2, <2>2 DEF PutRuled, TypeOK
  <2>3. ASSUME NEW d \in Devices, NEW b \in Books, ItemRuled(d, b) PROVE [LWWNext]_reg
    <3>1. flush[d].sent[b] \in Times
      BY <1>2 DEF TypeOK
    <3> QED BY <1>1, <1>2, <2>3, <3>1 DEF ItemRuled
  <2> QED BY <1>2, <2>1, <2>2, <2>3 DEF Next, vars, Tick, Switch, PutStep, PutAnswered, PutFails,
        FlushStep, ItemFails, FlushAnswered, FlushFails, RestoreStep, PlaceRestored, NoPlace, Close,
        Save, Restore
<1>3. Init => LWWInit
  BY DEF Init
<1> QED BY <1>2, <1>3, TypeCorrect, PTL DEF Spec, LWWSpec
=============================================================================

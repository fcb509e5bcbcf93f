-------------------------- MODULE CoinLedger_proofs --------------------------
(***************************************************************************)
(* Proofs about the ledger and its journal (CoinLedger): a claim or spend  *)
(* moves the ledger exactly once if it lands and never otherwise, the      *)
(* keeper's SOL is explained by the ledger to the lamport, and a bucket    *)
(* keeps what a spend under way planned to take, for every number of       *)
(* transactions, crashes and lost answers, for all the journal's times and *)
(* for all amounts.                                                        *)
(*                                                                         *)
(* The argument for the journal.  An entry leaves the journal booked, failed or expired.   *)
(* A booked one is never looked at again.  An expired one could undo the   *)
(* count in two ways: by landing later, which its age forbids (CanLand),   *)
(* or by having landed unseen, which the margin forbids: what landed did   *)
(* so within its life, and every node shows it before the margin after     *)
(* that is over (Shown).  The margin must be no shorter than the nodes'    *)
(* lag for this, which is what LedgerAssumption asks of it.                *)
(*                                                                         *)
(* The argument for the amounts (AmountInv).  Every step changes the total *)
(* of the ledger, what is in transit, the round's costs on record and the  *)
(* drift by what it takes from the wallet.  Two facts about the operations *)
(* bucket and the spends make that so: an open round's reserve is still in *)
(* it when the round ends, and a spend never brings SOL.  A spend stays    *)
(* covered since at most one journaled transaction of a label was ever     *)
(* sent (OneSent): a label with an entry is not started again, and another *)
(* try is only signed for a transaction that was not sent.  The fee of its *)
(* burn is the one debit that can precede the spend's own (Spared).        *)
(***************************************************************************)
EXTENDS CoinLedger, Sums

States == {"none", "unsent", "flying", "landed", "failed"}

(* A transaction has its six fields; what it is worth does not matter here. *)
IsTx(t) ==
    /\ t = [label |-> t.label, state |-> t.state, effect |-> t.effect, planned |-> t.planned,
            age |-> t.age, since |-> t.since]
    /\ t.state \in States /\ t.age \in Nat /\ t.since \in Nat

Typed ==
    /\ tx = [n \in Numbers |-> tx[n]] /\ \A n \in Numbers : IsTx(tx[n])
    /\ booked \in [Numbers -> Nat]
    /\ pending \subseteq 1 .. Signed

(* Transactions are numbered as they are signed. *)
Numbered ==
    /\ Signed \in 0 .. MaxSends
    /\ \A n \in Numbers : tx[n].state # "none" <=> n <= Signed

(* SettledOnce, also of the numbers not yet given. *)
BookedOnce == \A n \in Numbers : booked[n] = IF tx[n].state = "landed" /\ n \notin pending THEN 1 ELSE 0

(* What can still land is in the journal. *)
CanLand == \A n \in Numbers : tx[n].state \in {"unsent", "flying"} /\ tx[n].age <= Life => n \in pending

(* What landed unseen did so within its life. *)
Shown ==
    \A n \in pending : tx[n].state \in {"landed", "failed"} /\ tx[n].since <= Lag => tx[n].age <= Life + tx[n].since

(* A transaction about to be sent has not been. *)
SignedIsUnsent == busy = "signed" => Signed \in Numbers /\ tx[Signed].state = "unsent"

IInv ==
    /\ Typed
    /\ Numbered
    /\ BookedOnce
    /\ CanLand
    /\ Shown
    /\ SignedIsUnsent

----------------------------------------------------------------------------
(* Helpers. *)

(* The assumption on the journal's times. *)
LEMMA Times ==
    /\ Life \in Nat /\ Lag \in Nat /\ Margin \in Nat /\ MaxSends \in Nat
    /\ Margin >= Lag
BY LedgerAssumption DEF LedgerAssumption

(* The journal holds numbers. *)
LEMMA JournalInNumbers ==
    ASSUME IInv
    PROVE  pending \subseteq Numbers
<1>1. pending \subseteq 1 .. Signed /\ Signed \in 0 .. MaxSends
  BY DEF IInv, Typed, Numbered
<1>2. QED
  BY <1>1, Times DEF Numbers

(* The smaller of two numbers. *)
LEMMA MinOfTwo ==
    ASSUME NEW a \in Int, NEW b \in Int
    PROVE  Min({a, b}) = IF a <= b THEN a ELSE b
<1> DEFINE m == IF a <= b THEN a ELSE b
<1>1. m \in {a, b} /\ \A y \in {a, b} : m <= y
  OBVIOUS
<1>2. Min({a, b}) \in {a, b} /\ \A y \in {a, b} : Min({a, b}) <= y
  BY <1>1 DEF Min
<1>3. QED
  BY <1>1, <1>2

(* As many transactions are signed as the last number given. *)
LEMMA CountOfNumbered ==
    ASSUME NEW f, NEW k \in 0 .. MaxSends,
           \A n \in Numbers : f[n].state # "none" <=> n <= k
    PROVE  Cardinality({n \in Numbers : f[n].state # "none"}) = k
<1>1. {n \in Numbers : f[n].state # "none"} = 1 .. k
  BY Times DEF Numbers
<1>2. Cardinality(1 .. k) = k
  <2>1. CASE k = 0
    <3>1. 1 .. k = {}
      BY <2>1
    <3>2. QED
      BY <2>1, <3>1, FS_EmptySet
  <2>2. CASE k > 0
    BY <2>2, Times, FS_Interval
  <2>3. QED
    BY <2>1, <2>2, Times
<1>3. QED
  BY <1>1, <1>2

(* A transaction grows older, and otherwise stays what it is. *)
LEMMA OlderIs ==
    ASSUME NEW t, IsTx(t)
    PROVE  /\ IsTx(Older(t)) /\ Older(t).state = t.state
           /\ t.age <= Life => Older(t).age >= t.age
           /\ Older(t).age <= t.age + 1 
           /\ Older(t).age <= MaxAge
           /\ t.state \in {"landed", "failed"} /\ Older(t).since <= Lag => Older(t).since = t.since + 1
           /\ t.age > Life => Older(t).age > Life
<1>1. Min({t.age + 1, MaxAge}) = IF t.age + 1 <= MaxAge THEN t.age + 1 ELSE MaxAge
  BY MinOfTwo, Times DEF IsTx, MaxAge
<1>2. Min({t.since + 1, Lag + 1}) = IF t.since + 1 <= Lag + 1 THEN t.since + 1 ELSE Lag + 1
  BY MinOfTwo, Times DEF IsTx
<1>3. Older(t) = [t EXCEPT !.age = Min({t.age + 1, MaxAge}),
                           !.since = IF t.state \in {"landed", "failed"} THEN Min({t.since + 1, Lag + 1}) ELSE t.since]
  <2>1. t.age \in Nat /\ "age" \in DOMAIN t /\ "since" \in DOMAIN t
    BY DEF IsTx
  <2>2. QED
    BY <2>1 DEF Older
<1>4. Older(t) = [label |-> t.label, state |-> t.state, effect |-> t.effect, planned |-> t.planned,
                  age |-> IF t.age + 1 <= MaxAge THEN t.age + 1 ELSE MaxAge,
                  since |-> IF t.state \in {"landed", "failed"}
                            THEN IF t.since + 1 <= Lag + 1 THEN t.since + 1 ELSE Lag + 1
                            ELSE t.since]
  BY <1>1, <1>2, <1>3 DEF IsTx
<1>5. QED
  BY <1>4, Times DEF IsTx, MaxAge

----------------------------------------------------------------------------
(* The initial states and the steps. *)

(* Nothing is signed yet. *)
LEMMA InitIInv ==
    ASSUME Init
    PROVE  IInv
<1>1. /\ tx = [n \in Numbers |-> Unsigned] /\ pending = {} /\ booked = [n \in Numbers |-> 0] /\ busy = "no"
  BY DEF Init
<1>2. \A n \in Numbers : tx[n].state = "none" /\ IsTx(tx[n])
  BY <1>1 DEF Unsigned, IsTx, States
<1>3. Signed = 0
  <2>1. \A n \in Numbers : tx[n].state # "none" <=> n <= 0
    BY <1>2 DEF Numbers
  <2>2. QED
    BY <2>1, CountOfNumbered, Times DEF Signed
<1>4. Typed
  BY <1>1, <1>2 DEF Typed
<1>5. Numbered
  BY <1>2, <1>3, Times DEF Numbered, Numbers
<1>6. QED
  BY <1>1, <1>2, <1>4, <1>5 DEF IInv, BookedOnce, CanLand, Shown, SignedIsUnsent

(* What leaves the transactions and the journal alone. *)
LEMMA Quiet ==
    ASSUME IInv, UNCHANGED <<tx, pending, booked>>, busy' # "signed" \/ busy' = busy
    PROVE  IInv'
<1>1. Signed' = Signed
  BY DEF Signed
<1>2. QED
  BY <1>1 DEF IInv, Typed, Numbered, BookedOnce, CanLand, Shown, SignedIsUnsent

(* The count of signed transactions, once their states are known to be. *)
LEMMA SameCount ==
    ASSUME IInv, \A n \in Numbers : tx'[n].state # "none" <=> tx[n].state # "none"
    PROVE  Signed' = Signed
BY DEF Signed

(* The network decides. *)
LEMMA ArriveKeeps ==
    ASSUME IInv, NEW n \in Numbers, Arrive(n)
    PROVE  IInv'
<1>1. PICK s \in {"landed", "failed"} : tx' = [tx EXCEPT ![n].state = s]
  BY DEF Arrive
<1>2. tx[n].state = "flying" /\ tx[n].age <= Life /\ n \in pending
  BY DEF Arrive, IInv, CanLand
<1>3. UNCHANGED <<pending, booked, busy>>
  BY DEF Arrive, disk
<1>4. /\ tx'[n] = [tx[n] EXCEPT !.state = s]
      /\ \A m \in Numbers \ {n} : tx'[m] = tx[m]
      /\ tx' = [m \in Numbers |-> tx'[m]]
  BY <1>1 DEF IInv, Typed
<1>5. tx'[n].state = s /\ tx'[n].age = tx[n].age /\ tx'[n].since = tx[n].since /\ IsTx(tx'[n])
  BY <1>4 DEF IInv, Typed, IsTx, States
<1>6. Signed' = Signed
  BY <1>2, <1>4, <1>5, SameCount
<1>7. Typed' /\ Numbered'
  BY <1>2, <1>3, <1>4, <1>5, <1>6 DEF IInv, Typed, Numbered
<1>8. BookedOnce' /\ CanLand'
  BY <1>2, <1>3, <1>4, <1>5 DEF IInv, BookedOnce, CanLand
<1>9. Shown'
  <2> SUFFICES ASSUME NEW m \in pending, tx'[m].state \in {"landed", "failed"}, tx'[m].since <= Lag
               PROVE  tx'[m].age <= Life + tx'[m].since
    BY <1>3 DEF Shown
  <2>1. m \in Numbers
    BY JournalInNumbers
  <2>2. CASE m = n
    BY <2>2, <1>2, <1>5, Times DEF IInv, Typed, IsTx
  <2>3. CASE m # n
    BY <2>1, <2>3, <1>4 DEF IInv, Shown
  <2>4. QED
    BY <2>2, <2>3
<1>10. SignedIsUnsent'
  BY <1>2, <1>3, <1>4, <1>6 DEF IInv, SignedIsUnsent
<1>11. QED
  BY <1>7, <1>8, <1>9, <1>10 DEF IInv

(* Time passes for what is in the journal. *)
LEMMA TimePassesKeeps ==
    ASSUME IInv, TimePasses
    PROVE  IInv'
<1>1. tx' = [n \in Numbers |-> IF n \in pending THEN Older(tx[n]) ELSE tx[n]]
  BY DEF TimePasses
<1>2. UNCHANGED <<pending, booked, busy>> /\ busy # "signed"
  BY DEF TimePasses, disk
<1>3. \A n \in Numbers : IsTx(tx[n]) /\ IsTx(tx'[n]) /\ tx'[n].state = tx[n].state
  BY <1>1, OlderIs DEF IInv, Typed
<1>4. Signed' = Signed
  BY <1>3, SameCount
<1>5. Typed' /\ Numbered'
  BY <1>1, <1>2, <1>3, <1>4 DEF IInv, Typed, Numbered
<1>6. BookedOnce' /\ SignedIsUnsent'
  BY <1>2, <1>3 DEF IInv, BookedOnce, SignedIsUnsent
<1>7. CanLand'
  <2> SUFFICES ASSUME NEW n \in Numbers, tx'[n].state \in {"unsent", "flying"}, tx'[n].age <= Life, n \notin pending
               PROVE  FALSE
    BY <1>2 DEF CanLand
  <2>1. tx'[n] = tx[n]
    BY <1>1
  <2>2. QED
    BY <2>1 DEF IInv, CanLand
<1>8. Shown'
  <2> SUFFICES ASSUME NEW n \in pending, tx'[n].state \in {"landed", "failed"}, tx'[n].since <= Lag
               PROVE  tx'[n].age <= Life + tx'[n].since
    BY <1>2 DEF Shown
  <2>1. n \in Numbers
    BY JournalInNumbers
  <2>2. tx'[n] = Older(tx[n]) /\ IsTx(tx[n])
    BY <2>1, <1>1, <1>3
  <2>3. tx'[n].since = tx[n].since + 1 /\ tx'[n].age <= tx[n].age + 1
    BY <2>1, <2>2, <1>3, OlderIs
  <2>4. tx[n].age \in Nat /\ tx[n].since \in Nat /\ tx'[n].age \in Nat
    BY <2>1, <1>3 DEF IsTx
  <2>5. tx[n].state \in {"landed", "failed"}
    BY <2>1, <1>3
  <2>6. tx[n].since <= Lag
    BY <2>3, <2>4, Times
  <2>7. tx[n].age <= Life + tx[n].since
    BY <2>5, <2>6 DEF IInv, Shown
  <2>8. QED
    BY <2>3, <2>4, <2>7, Times
<1>9. QED
  BY <1>5, <1>6, <1>7, <1>8 DEF IInv

(***************************************************************************)
(* What settlePending takes out of the journal has landed, failed, or is   *)
(* past landing and did not land.                                          *)
(***************************************************************************)
LEMMA OutcomeIsRight ==
    ASSUME IInv, NEW n \in pending, NEW o \in Outcomes(n)
    PROVE  /\ o = "landed" => tx[n].state = "landed"
           /\ o # "landed" /\ o # "pending" => tx[n].state # "landed"
<1>1. n \in Numbers /\ IsTx(tx[n])
  BY JournalInNumbers DEF IInv, Typed
<1>2. Unseen(n) \in {"expired", "pending"} /\ (Unseen(n) = "expired" => tx[n].age > Life + Margin)
  BY DEF Unseen
<1>3. CASE tx[n].state \in {"landed", "failed"} /\ tx[n].since <= Lag
  <2>1. tx[n].age <= Life + Margin
    BY <1>1, <1>3, Times DEF IInv, Shown, IsTx
  <2>2. Unseen(n) = "pending"
    BY <2>1, <1>1, <1>2, Times DEF IsTx
  <2>3. QED
    BY <2>2, <1>3 DEF Outcomes
<1>4. CASE tx[n].state \in {"landed", "failed"} /\ ~(tx[n].since <= Lag)
  BY <1>4 DEF Outcomes
<1>5. CASE tx[n].state \notin {"landed", "failed"}
  BY <1>2, <1>5 DEF Outcomes
<1>6. QED
  BY <1>3, <1>4, <1>5

(* The journal settles: what leaves it is booked or can no longer land. *)
LEMMA SettlePendingKeeps ==
    ASSUME IInv, SettlePending, busy' # "signed"
    PROVE  IInv'
<1>1. PICK outcome \in [pending -> {"landed", "failed", "expired", "pending"}] :
         /\ \A n \in pending : outcome[n] \in Outcomes(n)
         /\ pending' = {n \in pending : outcome[n] = "pending"}
         /\ booked' = [n \in Numbers |-> booked[n] + (IF n \in {m \in pending : outcome[m] = "landed"} THEN 1 ELSE 0)]
         /\ tx' = [n \in Numbers |->
                      IF n \in pending /\ outcome[n] # "pending" THEN [tx[n] EXCEPT !.age = MaxAge, !.since = Lag + 1]
                      ELSE tx[n]]
  BY DEF SettlePending
<1> DEFINE Gone == {n \in pending : outcome[n] # "pending"}
<1>2. \A n \in Numbers : IsTx(tx[n])
  BY DEF IInv, Typed
<1>3. pending \subseteq Numbers
  BY JournalInNumbers
<1>4. \A n \in Numbers : tx'[n] = IF n \in Gone THEN [tx[n] EXCEPT !.age = MaxAge, !.since = Lag + 1] ELSE tx[n]
  BY <1>1
<1>5. \A n \in Numbers : /\ IsTx(tx'[n]) /\ tx'[n].state = tx[n].state
                         /\ n \in Gone => tx'[n].age = MaxAge
  <2> SUFFICES ASSUME NEW n \in Numbers
               PROVE  IsTx(tx'[n]) /\ tx'[n].state = tx[n].state /\ (n \in Gone => tx'[n].age = MaxAge)
    OBVIOUS
  <2> HIDE DEF Gone
  <2>1. CASE n \in Gone
    <3>1. tx'[n] = [tx[n] EXCEPT !.age = MaxAge, !.since = Lag + 1] /\ IsTx(tx[n])
      BY <2>1, <1>2, <1>4
    <3>2. MaxAge \in Nat /\ Lag + 1 \in Nat
      BY Times DEF MaxAge
    <3>3. QED
      BY <3>1, <3>2 DEF IsTx
  <2>2. CASE n \notin Gone
    BY <2>2, <1>2, <1>4
  <2>3. QED
    BY <2>1, <2>2
<1>6. Signed' = Signed
  BY <1>5, SameCount
<1>7. Typed' /\ Numbered'
  <2>1. tx' = [n \in Numbers |-> tx'[n]]
    BY <1>1
  <2>2. booked' \in [Numbers -> Nat]
    <3>1. \A n \in Numbers : booked[n] \in Nat
      BY DEF IInv, Typed
    <3>2. \A n \in Numbers : booked'[n] \in {booked[n], booked[n] + 1}
      <4> SUFFICES ASSUME NEW n \in Numbers
                   PROVE  booked'[n] \in {booked[n], booked[n] + 1}
        OBVIOUS
      <4>1. booked'[n] = booked[n] + (IF n \in {m \in pending : outcome[m] = "landed"} THEN 1 ELSE 0)
        BY <1>1
      <4>2. QED
        BY <4>1, <3>1
    <3>3. booked' = [n \in Numbers |-> booked'[n]]
      BY <1>1
    <3>4. QED
      BY <3>1, <3>2, <3>3
  <2>3. pending' \subseteq 1 .. Signed'
    BY <1>1, <1>6 DEF IInv, Typed
  <2>4. QED
    BY <2>1, <2>2, <2>3, <1>5, <1>6 DEF IInv, Typed, Numbered
<1>8. BookedOnce'
  <2> SUFFICES ASSUME NEW n \in Numbers
               PROVE  booked'[n] = IF tx'[n].state = "landed" /\ n \notin pending' THEN 1 ELSE 0
    BY DEF BookedOnce
  <2>1. booked[n] = IF tx[n].state = "landed" /\ n \notin pending THEN 1 ELSE 0
    BY DEF IInv, BookedOnce
  <2>2. booked'[n] = booked[n] + (IF n \in pending /\ outcome[n] = "landed" THEN 1 ELSE 0)
    BY <1>1
  <2>3. tx'[n].state = tx[n].state
    BY <1>5
  <2>4. CASE n \in pending
    <3>1. /\ outcome[n] = "landed" => tx[n].state = "landed"
          /\ outcome[n] # "landed" /\ outcome[n] # "pending" => tx[n].state # "landed"
      BY <2>4, <1>1, OutcomeIsRight
    <3>2. n \in pending' <=> outcome[n] = "pending"
      BY <2>4, <1>1
    <3>3. QED
      BY <2>1, <2>2, <2>3, <2>4, <3>1, <3>2
  <2>5. CASE n \notin pending
    <3>1. booked'[n] = booked[n]
      BY <2>1, <2>2, <2>5
    <3>2. n \notin pending'
      BY <2>5, <1>1
    <3>3. QED
      BY <3>1, <3>2, <2>1, <2>3, <2>5
  <2>6. QED
    BY <2>4, <2>5
<1>9. CanLand'
  <2> SUFFICES ASSUME NEW n \in Numbers, tx'[n].state \in {"unsent", "flying"}, tx'[n].age <= Life
               PROVE  n \in pending'
    BY DEF CanLand
  <2>1. n \notin Gone
    BY <1>5, Times DEF MaxAge
  <2>2. n \in pending
    BY <2>1, <1>4 DEF IInv, CanLand
  <2>3. QED
    BY <2>1, <2>2, <1>1
<1>10. Shown'
  <2> SUFFICES ASSUME NEW n \in pending', tx'[n].state \in {"landed", "failed"}, tx'[n].since <= Lag
               PROVE  tx'[n].age <= Life + tx'[n].since
    BY DEF Shown
  <2>1. n \in pending /\ n \notin Gone /\ n \in Numbers
    BY <1>1, <1>3
  <2>2. QED
    BY <2>1, <1>4 DEF IInv, Shown
<1>11. SignedIsUnsent'
  BY DEF SignedIsUnsent
<1>12. QED
  BY <1>7, <1>8, <1>9, <1>10, <1>11 DEF IInv

(* A new entry is written before its transaction can be sent. *)
LEMMA JournalKeeps ==
    ASSUME IInv, NEW label, NEW plan, Signed < MaxSends, Journal(label, plan)
    PROVE  IInv'
<1> DEFINE new == Signed + 1
<1>1. new \in Numbers /\ Signed \in Nat
  BY Times DEF IInv, Numbered, Numbers
<1>2. /\ tx' = [tx EXCEPT ![new] = [Unsigned EXCEPT !.label = label, !.state = "unsent",
                                                    !.effect = plan.effect, !.planned = plan.planned]]
      /\ pending' = pending \cup {new} /\ busy' = "signed" /\ booked' = booked
  BY DEF Journal
<1>3. /\ tx'[new] = [label |-> label, state |-> "unsent", effect |-> plan.effect, planned |-> plan.planned,
                     age |-> 0, since |-> 0]
      /\ \A n \in Numbers \ {new} : tx'[n] = tx[n]
      /\ tx' = [n \in Numbers |-> tx'[n]]
  BY <1>1, <1>2 DEF IInv, Typed, Unsigned
<1>4. tx'[new].state = "unsent" /\ IsTx(tx'[new])
  BY <1>3 DEF IsTx, States
<1>5. tx[new].state = "none" /\ new \notin pending
  BY <1>1 DEF IInv, Typed, Numbered
<1>6. Signed' = new
  <2>1. \A n \in Numbers : tx'[n].state # "none" <=> n <= new
    BY <1>1, <1>3, <1>4 DEF IInv, Numbered, Numbers
  <2>2. new \in 0 .. MaxSends
    BY <1>1 DEF Numbers
  <2>3. Cardinality({n \in Numbers : tx'[n].state # "none"}) = new
    BY <2>1, <2>2, CountOfNumbered
  <2>4. QED
    BY <2>3 DEF Signed
<1>7. Typed'
  <2>1. \A n \in Numbers : IsTx(tx'[n])
    BY <1>3, <1>4 DEF IInv, Typed
  <2>2. pending' \subseteq 1 .. Signed'
    BY <1>1, <1>2, <1>6 DEF IInv, Typed
  <2>3. QED
    BY <2>1, <2>2, <1>2, <1>3 DEF IInv, Typed
<1>8. Numbered'
  BY <1>1, <1>3, <1>4, <1>6 DEF IInv, Numbered, Numbers
<1>9. BookedOnce'
  <2> SUFFICES ASSUME NEW n \in Numbers
               PROVE  booked'[n] = IF tx'[n].state = "landed" /\ n \notin pending' THEN 1 ELSE 0
    BY DEF BookedOnce
  <2>1. booked[n] = IF tx[n].state = "landed" /\ n \notin pending THEN 1 ELSE 0
    BY DEF IInv, BookedOnce
  <2>2. CASE n = new
    BY <2>1, <2>2, <1>2, <1>4, <1>5
  <2>3. CASE n # new
    BY <2>1, <2>3, <1>2, <1>3
  <2>4. QED
    BY <2>2, <2>3
<1>10. CanLand'
  BY <1>2, <1>3 DEF IInv, CanLand
<1>11. Shown'
  <2> SUFFICES ASSUME NEW n \in pending', tx'[n].state \in {"landed", "failed"}, tx'[n].since <= Lag
               PROVE  tx'[n].age <= Life + tx'[n].since
    BY DEF Shown
  <2>1. n \in pending /\ n # new /\ n \in Numbers
    BY <1>2, <1>4, JournalInNumbers
  <2>2. QED
    BY <2>1, <1>3 DEF IInv, Shown
<1>12. SignedIsUnsent'
  BY <1>1, <1>4, <1>6 DEF SignedIsUnsent
<1>13. QED
  BY <1>7, <1>8, <1>9, <1>10, <1>11, <1>12 DEF IInv

(* A signed transaction is sent. *)
LEMMA SendKeeps ==
    ASSUME IInv, Send
    PROVE  IInv'
<1> DEFINE n == Signed
<1>1. /\ n \in Numbers /\ tx[n].state = "unsent"
      /\ tx' = [tx EXCEPT ![n].state = "flying"] /\ busy' = "sent" /\ UNCHANGED <<pending, booked>>
  BY DEF Send, disk, IInv, SignedIsUnsent
<1>2. /\ tx'[n] = [tx[n] EXCEPT !.state = "flying"]
      /\ \A m \in Numbers \ {n} : tx'[m] = tx[m]
      /\ tx' = [m \in Numbers |-> tx'[m]]
  BY <1>1 DEF IInv, Typed
<1>3. tx'[n].state = "flying" /\ tx'[n].age = tx[n].age /\ IsTx(tx'[n])
  BY <1>1, <1>2 DEF IInv, Typed, IsTx, States
<1>4. Signed' = Signed
  BY <1>1, <1>2, <1>3, SameCount
<1>5. Typed' /\ Numbered'
  BY <1>1, <1>2, <1>3, <1>4 DEF IInv, Typed, Numbered
<1>6. BookedOnce' /\ CanLand'
  BY <1>1, <1>2, <1>3 DEF IInv, BookedOnce, CanLand
<1>7. Shown'
  <2> SUFFICES ASSUME NEW m \in pending, tx'[m].state \in {"landed", "failed"}, tx'[m].since <= Lag
               PROVE  tx'[m].age <= Life + tx'[m].since
    BY <1>1 DEF Shown
  <2>1. m # n /\ m \in Numbers
    BY <1>3, JournalInNumbers
  <2>2. QED
    BY <2>1, <1>2 DEF IInv, Shown
<1>8. SignedIsUnsent'
  BY <1>1 DEF SignedIsUnsent
<1>9. QED
  BY <1>5, <1>6, <1>7, <1>8 DEF IInv

(* The sub-steps of a tick. *)
LEMMA TickKeeps ==
    ASSUME IInv, Tick
    PROVE  IInv'
<1>1. CASE StartTick
  BY <1>1, Quiet DEF StartTick, disk
<1>2. CASE SettleStep
  BY <1>2, SettlePendingKeeps DEF SettleStep, Next1
<1>3. CASE Migrate
  BY <1>3, Quiet DEF Migrate, Next1, disk
<1>4. CASE Skip
  BY <1>4, Quiet DEF Skip, Next1
<1>5. CASE Sign
  BY <1>5, JournalKeeps DEF Sign, Sends
<1>6. CASE Send
  BY <1>6, SendKeeps
<1>7. CASE Refused
  BY <1>7, Quiet DEF Refused, Next1
<1>8. CASE Answer
  BY <1>8, Quiet DEF Answer, disk
<1>9. CASE Unanswered
  BY <1>9, Quiet DEF Unanswered, Next1, disk
<1>10. CASE Answered
  BY <1>10, SettlePendingKeeps DEF Answered, Next1
<1>11. CASE Burn
  BY <1>11, Quiet DEF Burn, Next1
<1>12. QED
  BY <1>1, <1>2, <1>3, <1>4, <1>5, <1>6, <1>7, <1>8, <1>9, <1>10, <1>11 DEF Tick

(* Every step. *)
LEMMA NextKeeps ==
    ASSUME IInv, [Next]_vars
    PROVE  IInv'
<1>1. CASE Tick
  BY <1>1, TickKeeps
<1>2. CASE SignAgain
  BY <1>2, JournalKeeps DEF SignAgain
<1>3. CASE Throw
  BY <1>3, Quiet DEF Throw, Next1, disk
<1>4. CASE Crash
  BY <1>4, Quiet DEF Crash, disk
<1>5. CASE Rounds
  BY <1>5, Quiet DEF Rounds, Reserve, Purchase, ChargeTx, FinishRound, AroundRound
<1>6. CASE Chain
  <2>1. CASE FillCurve
    BY <2>1, Quiet DEF FillCurve, disk
  <2>2. CASE MigratedByOthers
    BY <2>2, Quiet DEF MigratedByOthers, disk
  <2>3. CASE \E n \in Numbers : Arrive(n)
    BY <2>3, ArriveKeeps
  <2>4. QED
    BY <1>6, <2>1, <2>2, <2>3 DEF Chain
<1>7. CASE TimePasses
  BY <1>7, TimePassesKeeps
<1>8. CASE UNCHANGED vars
  BY <1>8, Quiet DEF vars, disk
<1>9. QED
  BY <1>1, <1>2, <1>3, <1>4, <1>5, <1>6, <1>7, <1>8 DEF Next

----------------------------------------------------------------------------
(* The arithmetic of the ledger. *)

SpendBuckets == {"revenue", "buyback", "flywheel"}
Ledgers == [Buckets -> Nat]

(* The larger of two numbers. *)
LEMMA MaxOfTwo ==
    ASSUME NEW a \in Int, NEW b \in Int
    PROVE  Max({a, b}) = IF a >= b THEN a ELSE b
<1> DEFINE m == IF a >= b THEN a ELSE b
<1>1. m \in {a, b} /\ \A y \in {a, b} : m >= y
  OBVIOUS
<1>2. Max({a, b}) \in {a, b} /\ \A y \in {a, b} : Max({a, b}) >= y
  BY <1>1 DEF Max
<1>3. QED
  BY <1>1, <1>2

(* The buckets can be added up. *)
LEMMA BucketsFinite == IsFiniteSet(Buckets)
<1>1. Buckets = {"basket", "flywheel", "buyback", "revenue"} \cup {"operations"}
  BY DEF Buckets
<1>2. IsFiniteSet({"basket"}) 
  BY FS_Singleton
<1>3. IsFiniteSet({"basket"} \cup {"flywheel"})
  BY <1>2, FS_AddElement
<1>4. IsFiniteSet(({"basket"} \cup {"flywheel"}) \cup {"buyback"})
  BY <1>3, FS_AddElement
<1>5. IsFiniteSet((({"basket"} \cup {"flywheel"}) \cup {"buyback"}) \cup {"revenue"})
  BY <1>4, FS_AddElement
<1>6. (({"basket"} \cup {"flywheel"}) \cup {"buyback"}) \cup {"revenue"} = {"basket", "flywheel", "buyback", "revenue"}
  OBVIOUS
<1>7. QED
  BY <1>1, <1>5, <1>6, FS_AddElement

(* What a ledger adds up to. *)
LEMMA TotalIs ==
    ASSUME NEW l \in [Buckets -> Int]
    PROVE  Total(l) = SumFunctionOnSet(l, Buckets) /\ Total(l) \in Int
<1>1. DOMAIN l = Buckets /\ \A b \in Buckets : l[b] \in Int
  OBVIOUS
<1>2. SumFunctionOnSet(l, Buckets) \in Int
  BY <1>1, BucketsFinite, SumInt
<1>3. QED
  BY <1>1, <1>2 DEF Total, SumFunction

(* One bucket changes. *)
LEMMA TotalChange ==
    ASSUME NEW l \in [Buckets -> Int], NEW b \in Buckets, NEW x \in Int
    PROVE  Total([l EXCEPT ![b] = x]) = Total(l) + (x - l[b])
<1> DEFINE m == [l EXCEPT ![b] = x]
<1>1. m \in [Buckets -> Int] /\ m[b] = x /\ \A c \in Buckets \ {b} : m[c] = l[c]
  OBVIOUS
<1>2. \A c \in Buckets : l[c] \in Int /\ m[c] \in Int
  OBVIOUS
<1> HIDE DEF m
<1>3. SumFunctionOnSet(m, Buckets) = SumFunctionOnSet(l, Buckets) + (m[b] - l[b])
  BY <1>1, <1>2, BucketsFinite, SumChange
<1>4. Total(m) = Total(l) + (x - l[b])
  BY <1>1, <1>3, TotalIs
<1>5. QED
  BY <1>4 DEF m

(* A debit takes at most what is there. *)
LEMMA DebitIs ==
    ASSUME NEW l \in Ledgers, NEW b \in Buckets, NEW amount \in Nat
    PROVE  /\ Taken(l, b, amount) = IF amount <= l[b] THEN amount ELSE l[b]
           /\ Taken(l, b, amount) \in Nat
           /\ Debit(l, b, amount) \in Ledgers
           /\ Debit(l, b, amount)[b] = l[b] - Taken(l, b, amount)
           /\ \A c \in Buckets \ {b} : Debit(l, b, amount)[c] = l[c]
           /\ Total(Debit(l, b, amount)) = Total(l) - Taken(l, b, amount)
<1>1. l[b] \in Nat /\ l \in [Buckets -> Int] /\ l \in [Buckets -> Nat]
  BY DEF Ledgers
<1>2. Taken(l, b, amount) = IF amount <= l[b] THEN amount ELSE l[b]
  BY <1>1, MinOfTwo DEF Taken
<1>3. Taken(l, b, amount) \in Nat /\ l[b] - Taken(l, b, amount) \in Nat
  BY <1>1, <1>2
<1>4. Debit(l, b, amount) = [l EXCEPT ![b] = l[b] - Taken(l, b, amount)]
  BY DEF Debit
<1> DEFINE x == l[b] - Taken(l, b, amount)
<1>5. x \in Nat /\ x \in Int
  BY <1>3
<1>6. Debit(l, b, amount) = [l EXCEPT ![b] = x]
  BY <1>4
<1> HIDE DEF x
<1>7. Total(Debit(l, b, amount)) = Total(l) + (x - l[b])
  BY <1>1, <1>5, <1>6, TotalChange
<1>8. Debit(l, b, amount) \in [Buckets -> Nat] /\ Debit(l, b, amount)[b] = x
      /\ \A c \in Buckets \ {b} : Debit(l, b, amount)[c] = l[c]
  BY <1>1, <1>5, <1>6
<1>9. Total(l) \in Int
  BY <1>1, TotalIs
<1>10. Total(Debit(l, b, amount)) = Total(l) - Taken(l, b, amount)
  BY <1>1, <1>3, <1>7, <1>9 DEF x
<1>11. QED
  BY <1>2, <1>3, <1>8, <1>10 DEF x, Ledgers

(* A charge moves the total by its cost, but for what nothing bears. *)
LEMMA ChargeIs ==
    ASSUME NEW l \in Ledgers, NEW b \in SpendBuckets, NEW cost \in Nat
    PROVE  /\ ChargeLedger(l, b, cost) \in Ledgers
           /\ Unborne(l, b, cost) \in Nat
           /\ Total(ChargeLedger(l, b, cost)) = Total(l) - cost + Unborne(l, b, cost)
           /\ ChargeLedger(l, b, cost)["operations"] = l["operations"]
           /\ \A c \in SpendBuckets \ {b} : ChargeLedger(l, b, cost)[c] = l[c]
           /\ ChargeLedger(l, b, cost)[b] >= l[b] - cost
<1> DEFINE t == Taken(l, b, cost)
           d == Debit(l, b, cost)
           rest == cost - t
           u == Taken(d, "basket", rest)
           c2 == Debit(d, "basket", rest)
<1>1. b \in Buckets /\ b # "basket" /\ b # "operations" /\ "basket" \in Buckets
  BY DEF SpendBuckets, Buckets
<1>2. /\ t = IF cost <= l[b] THEN cost ELSE l[b]
      /\ t \in Nat /\ d \in Ledgers
      /\ d[b] = l[b] - t /\ \A c \in Buckets \ {b} : d[c] = l[c]
      /\ Total(d) = Total(l) - t
  BY <1>1, DebitIs
<1>3. l[b] \in Nat /\ l \in [Buckets -> Int]
  BY <1>1 DEF Ledgers
<1>4. Total(l) \in Int
  BY <1>3, TotalIs
<1>5. ChargeLedger(l, b, cost) = c2
  BY DEF ChargeLedger
<1>6. Unborne(l, b, cost) = rest - u
  BY DEF Unborne
<1> HIDE DEF t, d
<1>7. rest \in Nat
  BY <1>2, <1>3
<1> HIDE DEF rest
<1>8. /\ u = IF rest <= d["basket"] THEN rest ELSE d["basket"]
      /\ u \in Nat /\ c2 \in Ledgers
      /\ c2["basket"] = d["basket"] - u /\ \A c \in Buckets \ {"basket"} : c2[c] = d[c]
      /\ Total(c2) = Total(d) - u
  BY <1>1, <1>2, <1>7, DebitIs
<1> HIDE DEF u, c2
<1>9. d["basket"] \in Nat
  BY <1>1, <1>2 DEF Ledgers
<1>10. rest - u \in Nat
  BY <1>7, <1>8, <1>9
<1>11. Total(c2) = Total(l) - cost + (rest - u)
  BY <1>2, <1>4, <1>8 DEF rest
<1>12. c2["operations"] = l["operations"] /\ \A c \in SpendBuckets \ {b} : c2[c] = l[c]
  BY <1>1, <1>2, <1>8 DEF SpendBuckets, Buckets
<1>13. c2[b] >= l[b] - cost
  BY <1>1, <1>2, <1>3, <1>8
<1>14. QED
  BY <1>5, <1>6, <1>8, <1>10, <1>11, <1>12, <1>13

(* Over the four buckets with a share. *)
LEMMA SumOfShares ==
    ASSUME NEW f, f["basket"] \in Int, f["flywheel"] \in Int, f["buyback"] \in Int, f["revenue"] \in Int
    PROVE  SumFunctionOnSet(f, {"basket", "flywheel", "buyback", "revenue"})
             = f["basket"] + f["flywheel"] + f["buyback"] + f["revenue"]
<1> DEFINE w == "basket"
           x == "flywheel"
           y == "buyback"
           z == "revenue"
<1>1. w # x /\ w # y /\ w # z /\ x # y /\ x # z /\ y # z
  OBVIOUS
<1>2. f[w] \in Int /\ f[x] \in Int /\ f[y] \in Int /\ f[z] \in Int
  OBVIOUS
<1> HIDE DEF w, x, y, z
<1>3. SumFunctionOnSet(f, {w, x, y, z}) = f[w] + f[x] + f[y] + f[z]
  BY <1>1, <1>2, SumOfFour
<1>4. QED
  BY <1>3 DEF w, x, y, z

(* Over the four buckets that are rounded down. *)
LEMMA SumOfRounded ==
    ASSUME NEW f, f["flywheel"] \in Int, f["buyback"] \in Int, f["revenue"] \in Int, f["operations"] \in Int
    PROVE  SumFunctionOnSet(f, {"flywheel", "buyback", "revenue", "operations"})
             = f["flywheel"] + f["buyback"] + f["revenue"] + f["operations"]
<1> DEFINE w == "flywheel"
           x == "buyback"
           y == "revenue"
           z == "operations"
<1>1. w # x /\ w # y /\ w # z /\ x # y /\ x # z /\ y # z
  OBVIOUS
<1>2. f[w] \in Int /\ f[x] \in Int /\ f[y] \in Int /\ f[z] \in Int
  OBVIOUS
<1> HIDE DEF w, x, y, z
<1>3. SumFunctionOnSet(f, {w, x, y, z}) = f[w] + f[x] + f[y] + f[z]
  BY <1>1, <1>2, SumOfFour
<1>4. QED
  BY <1>3 DEF w, x, y, z

(* The shares. *)
LEMMA SharesAre ==
    /\ \A b \in {"basket", "flywheel", "buyback", "revenue"} : Shares[b] \in Nat
    /\ Shares["basket"] + Shares["flywheel"] + Shares["buyback"] + Shares["revenue"] = 10
<1>1. Buckets \ {"operations"} = {"basket", "flywheel", "buyback", "revenue"}
  BY DEF Buckets
<1>2. \A b \in {"basket", "flywheel", "buyback", "revenue"} : Shares[b] \in Nat
  BY <1>1, LedgerAssumption DEF LedgerAssumption
<1>3. SumFunctionOnSet(Shares, {"basket", "flywheel", "buyback", "revenue"}) = 10
  BY <1>1, LedgerAssumption DEF LedgerAssumption, SumFunction
<1>4. SumFunctionOnSet(Shares, {"basket", "flywheel", "buyback", "revenue"})
        = Shares["basket"] + Shares["flywheel"] + Shares["buyback"] + Shares["revenue"]
  <2>1. /\ Shares["basket"] \in Int /\ Shares["flywheel"] \in Int
        /\ Shares["buyback"] \in Int /\ Shares["revenue"] \in Int
    BY <1>2
  <2>2. QED
    BY <2>1, SumOfShares
<1>5. QED
  BY <1>2, <1>3, <1>4

(* A tenth, rounded down. *)
LEMMA Tenths ==
    ASSUME NEW x \in Nat
    PROVE  x \div 10 \in Nat /\ 10 * (x \div 10) <= x
OBVIOUS

(* Three of four shares that add up to 10 leave the last one something. *)
LEMMA RoundingIsPositive ==
    ASSUME NEW x \in Nat, NEW p \in Nat, NEW q \in Nat, NEW r \in Nat, NEW s \in Nat, p + q + r + s = 10
    PROVE  /\ (x * q) \div 10 \in Nat /\ (x * r) \div 10 \in Nat /\ (x * s) \div 10 \in Nat
           /\ (x * q) \div 10 + (x * r) \div 10 + (x * s) \div 10 <= x
<1>1. x * p \in Nat /\ x * q \in Nat /\ x * r \in Nat /\ x * s \in Nat
  OBVIOUS
<1>2. x * p + x * q + x * r + x * s = 10 * x
  <2>1. x * p + x * q + x * r + x * s = x * (p + q + r + s)
    OBVIOUS
  <2>2. QED
    BY <2>1
<1> DEFINE P == x * p
           Q == x * q
           R == x * r
           S == x * s
<1>3. P \in Nat /\ Q \in Nat /\ R \in Nat /\ S \in Nat /\ P + Q + R + S = 10 * x
  BY <1>1, <1>2
<1> HIDE DEF P, Q, R, S
<1>4. /\ Q \div 10 \in Nat /\ 10 * (Q \div 10) <= Q
      /\ R \div 10 \in Nat /\ 10 * (R \div 10) <= R
      /\ S \div 10 \in Nat /\ 10 * (S \div 10) <= S
  BY <1>3, Tenths
<1>5. Q \div 10 + R \div 10 + S \div 10 <= x
  BY <1>3, <1>4
<1>6. QED
  BY <1>4, <1>5 DEF Q, R, S

(* Revenue is split without remainder: the basket takes the rounding. *)
LEMMA SplitIs ==
    ASSUME NEW x \in Nat
    PROVE  /\ SplitRevenue(x) \in Ledgers
           /\ Total(SplitRevenue(x)) = x
           /\ SplitRevenue(x)["operations"] = 0
<1> DEFINE f == Floored(x)
           others == Buckets \ {"basket"}
           rounded == SumFunctionOnSet(f, others)
<1>1. f = [b \in Buckets |-> IF b = "operations" THEN 0 ELSE (x * Shares[b]) \div 10]
  BY DEF Floored
<1>2. /\ f["operations"] = 0
      /\ f["flywheel"] = (x * Shares["flywheel"]) \div 10
      /\ f["buyback"] = (x * Shares["buyback"]) \div 10
      /\ f["revenue"] = (x * Shares["revenue"]) \div 10
      /\ f["basket"] = (x * Shares["basket"]) \div 10
  BY <1>1 DEF Buckets
<1>3. /\ f["flywheel"] \in Nat /\ f["buyback"] \in Nat /\ f["revenue"] \in Nat
      /\ f["flywheel"] + f["buyback"] + f["revenue"] <= x
  <2> DEFINE p == Shares["basket"]
             q == Shares["flywheel"]
             r == Shares["buyback"]
             s == Shares["revenue"]
  <2>1. p \in Nat /\ q \in Nat /\ r \in Nat /\ s \in Nat /\ p + q + r + s = 10
    BY SharesAre
  <2> HIDE DEF p, q, r, s
  <2>2. /\ (x * q) \div 10 \in Nat /\ (x * r) \div 10 \in Nat /\ (x * s) \div 10 \in Nat
        /\ (x * q) \div 10 + (x * r) \div 10 + (x * s) \div 10 <= x
    BY <2>1, RoundingIsPositive
  <2>3. f["flywheel"] = (x * q) \div 10 /\ f["buyback"] = (x * r) \div 10 /\ f["revenue"] = (x * s) \div 10
    BY <1>2 DEF q, r, s
  <2> HIDE DEF f
  <2>4. QED
    BY <2>2, <2>3
<1>4. f["basket"] \in Nat
  <2>1. Shares["basket"] \in Nat
    BY SharesAre
  <2>2. x * Shares["basket"] \in Nat
    BY <2>1
  <2> HIDE DEF f
  <2>3. QED
    BY <2>2, <1>2, Tenths
<1>5. f \in Ledgers
  <2>1. \A b \in Buckets : f[b] \in Nat
    BY <1>2, <1>3, <1>4 DEF Buckets
  <2>2. f = [b \in Buckets |-> f[b]]
    BY <1>1
  <2> HIDE DEF f
  <2>3. QED
    BY <2>1, <2>2 DEF Ledgers
<1> HIDE DEF f
<1>6. rounded = f["flywheel"] + f["buyback"] + f["revenue"] + f["operations"]
  <2>1. others = {"flywheel", "buyback", "revenue", "operations"}
    BY DEF Buckets
  <2>2. SumFunctionOnSet(f, {"flywheel", "buyback", "revenue", "operations"})
          = f["flywheel"] + f["buyback"] + f["revenue"] + f["operations"]
    <3>1. /\ f["flywheel"] \in Int /\ f["buyback"] \in Int
          /\ f["revenue"] \in Int /\ f["operations"] \in Int
      BY <1>2, <1>3
    <3>2. QED
      BY <3>1, SumOfRounded
  <2> HIDE DEF others
  <2>3. QED
    BY <2>1, <2>2
<1>7. rounded \in Nat /\ x - rounded \in Nat
  <2> HIDE DEF rounded
  <2>1. QED
    BY <1>2, <1>3, <1>6
<1>8. SplitRevenue(x) = [f EXCEPT !["basket"] = x - rounded]
  BY DEF SplitRevenue, f
<1>9. SplitRevenue(x) \in Ledgers /\ SplitRevenue(x)["operations"] = 0
  <2> HIDE DEF rounded
  <2>1. QED
    BY <1>2, <1>5, <1>7, <1>8 DEF Ledgers, Buckets
<1>10. SumFunctionOnSet(f, Buckets) = f["basket"] + rounded
  <2>1. "basket" \in Buckets /\ \A b \in Buckets : f[b] \in Int
    BY <1>5 DEF Ledgers, Buckets
  <2>2. QED
    BY <2>1, BucketsFinite, SumTake
<1>11. Total(SplitRevenue(x)) = Total(f) + ((x - rounded) - f["basket"])
  <2>1. "basket" \in Buckets /\ f \in [Buckets -> Int] /\ x - rounded \in Int
    BY <1>5, <1>7 DEF Ledgers, Buckets
  <2> HIDE DEF rounded
  <2>2. QED
    BY <2>1, <1>8, TotalChange
<1>12. Total(f) = f["basket"] + rounded
  <2>1. f \in [Buckets -> Int]
    BY <1>5 DEF Ledgers
  <2>2. QED
    BY <2>1, <1>10, TotalIs
<1>13. QED
  <2> HIDE DEF rounded
  <2>1. QED
    BY <1>4, <1>7, <1>9, <1>11, <1>12

(* Revenue adds what it is to the total, and takes from no bucket. *)
LEMMA CreditIs ==
    ASSUME NEW l \in Ledgers, NEW x \in Nat
    PROVE  /\ CreditRevenue(l, x) \in Ledgers
           /\ Total(CreditRevenue(l, x)) = Total(l) + x
           /\ \A b \in Buckets : CreditRevenue(l, x)[b] >= l[b]
<1> DEFINE s == SplitRevenue(x)
           m == CreditRevenue(l, x)
<1>1. s \in Ledgers /\ Total(s) = x
  BY SplitIs
<1>2. m = [b \in Buckets |-> l[b] + s[b]]
  BY DEF CreditRevenue
<1> HIDE DEF s, m
<1>3. \A b \in Buckets : l[b] \in Nat /\ s[b] \in Nat
  BY <1>1 DEF Ledgers
<1>4. \A b \in Buckets : m[b] = l[b] + s[b] /\ m[b] \in Nat /\ m[b] >= l[b]
  BY <1>2, <1>3
<1>5. m \in Ledgers
  BY <1>2, <1>4 DEF Ledgers
<1>6. SumFunctionOnSet(m, Buckets) = SumFunctionOnSet(l, Buckets) + SumFunctionOnSet(s, Buckets)
  <2>1. \A b \in Buckets : l[b] \in Int /\ s[b] \in Int /\ m[b] = l[b] + s[b]
    BY <1>3, <1>4
  <2>2. QED
    BY <2>1, BucketsFinite, SumOfSums
<1>7. Total(m) = Total(l) + x
  <2>1. l \in [Buckets -> Int] /\ s \in [Buckets -> Int] /\ m \in [Buckets -> Int]
    BY <1>1, <1>5 DEF Ledgers
  <2>2. QED
    BY <2>1, <1>1, <1>6, TotalIs
<1>8. QED
  BY <1>4, <1>5, <1>7 DEF m

----------------------------------------------------------------------------
(***************************************************************************)
(* The amounts.  What DriftExplained and SpendStillCovered need beside the *)
(* journal's own invariant: a spend never brings SOL; the operations       *)
(* bucket holds an open round's reserve; of the journaled transactions     *)
(* with one label at most one was ever sent, so a bucket is debited by one *)
(* of them at most; and until the burn of a swap is charged, its bucket    *)
(* covers the swap in full.                                                *)
(***************************************************************************)
AmountTyped ==
    /\ wallet \in Int /\ drift \in Int
    /\ ledger \in Ledgers
    /\ round \in [open : BOOLEAN, reserve : Nat, budget : Nat, spent : Int]
    /\ \A n \in Numbers : /\ tx[n].effect \in Int /\ tx[n].planned \in Int
                          /\ tx[n].label \in Claims \cup Spends \cup {"none"}
                          /\ tx[n].state # "none" => tx[n].label \in Claims \cup Spends
                          /\ tx[n].label \in Spends => tx[n].effect <= 0

Places ==
    /\ phase \in {"CURVE", "AWAITING_MIGRATION", "GRADUATED"} /\ surplus \in {"held", "out", "empty"}
    /\ busy \in {"no", "signed", "sent", "answered", "burn"}
    /\ busy # "no" => /\ todo # << >> /\ todo[1] \in Claims \cup Spends
                      /\ Signed \in Numbers /\ tx[Signed].label = todo[1]
    /\ busy = "burn" => todo[1] \in {"$FOLIO buyback", "Stonkfolio flywheel"}

Withdrawal ==
    /\ surplusWithdrawn \in BOOLEAN
    /\ surplusRefusals \in 0 .. RefusalsBeforeDone
    /\ ~surplusWithdrawn => surplusRefusals < RefusalsBeforeDone
    /\ busy = "signed" /\ todo[1] = "partner surplus" => ~surplusWithdrawn

RoundBacked ==
    /\ ~round.open => round = NoRound
    /\ round.open => ledger["operations"] >= round.reserve

Explained == wallet = Total(ledger) + InTransit - round.spent - drift

OneSent ==
    /\ \A m, n \in pending :
          tx[m].label = tx[n].label /\ tx[m].state # "unsent" /\ tx[n].state # "unsent" => m = n
    /\ busy # "no" => \A m \in pending : tx[m].label = todo[1] /\ m # Signed => tx[m].state = "unsent"

(* What the burn of the swap of a transaction may have cost its bucket. *)
Spared(n) == IF busy # "no" /\ n = Signed THEN 0 ELSE Fee

Covered ==
    /\ busy = "signed" /\ todo[1] \in Spends => tx[Signed].planned <= ledger[BucketOf[todo[1]]]
    /\ \A n \in pending :
          tx[n].label \in Spends /\ tx[n].state \in {"flying", "landed"} =>
             ledger[BucketOf[tx[n].label]] >= tx[n].planned - Spared(n)

AmountInv ==
    /\ AmountTyped
    /\ Places
    /\ Withdrawal
    /\ RoundBacked
    /\ Explained
    /\ OneSent
    /\ Covered

Effects == [n \in Numbers |-> tx[n].effect]
Landed == {n \in pending : tx[n].state = "landed"}

----------------------------------------------------------------------------
(* Helpers. *)

(* The assumption on the amounts. *)
LEMMA Amounts ==
    /\ Fee \in Nat /\ MinFeeClaim \in Nat /\ MinPayout \in Nat /\ MinBuyback \in Nat /\ Claimed \in Nat
    /\ ClaimEffects \subseteq Int /\ RoundCosts \subseteq Int /\ SwapCosts \subseteq Nat
    /\ RefusalsBeforeDone \in Nat /\ RefusalsBeforeDone > 0
    /\ MinPayout > Fee
BY LedgerAssumption DEF LedgerAssumption

(* Each spend has a bucket of its own, which is neither the pot nor the reserve's. *)
LEMMA BucketOfIs ==
    /\ \A s \in Spends : BucketOf[s] \in SpendBuckets
    /\ \A s, t \in Spends : BucketOf[s] = BucketOf[t] => s = t
    /\ SpendBuckets \subseteq Buckets /\ "basket" \in Buckets /\ "operations" \in Buckets
    /\ "basket" \notin SpendBuckets /\ "operations" \notin SpendBuckets
<1>1. /\ BucketOf["platform revenue"] = "revenue" /\ BucketOf["$FOLIO buyback"] = "buyback"
      /\ BucketOf["Stonkfolio flywheel"] = "flywheel"
  BY DEF BucketOf, Spends
<1>2. QED
  BY <1>1 DEF Spends, SpendBuckets, Buckets

(* The transactions can be added up. *)
LEMMA NumbersFinite ==
    /\ IsFiniteSet(Numbers)
    /\ \A S \in SUBSET Numbers : IsFiniteSet(S)
<1>1. 1 \in Int /\ MaxSends \in Int
  BY Times
<1>2. IsFiniteSet(1 .. MaxSends)
  BY <1>1, FS_Interval
<1>3. IsFiniteSet(Numbers)
  BY <1>2 DEF Numbers
<1>4. QED
  BY <1>3, FS_Subset

(* What is in transit is a sum over one function for every set of numbers. *)
LEMMA InTransitIs ==
    ASSUME IInv, AmountTyped
    PROVE  /\ Landed \subseteq Numbers /\ IsFiniteSet(Landed)
           /\ InTransit = SumFunctionOnSet(Effects, Landed) /\ InTransit \in Int
<1>1. Landed \subseteq Numbers /\ IsFiniteSet(Landed)
  BY JournalInNumbers, NumbersFinite DEF Landed
<1> DEFINE f == [n \in Landed |-> tx[n].effect]
<1>2. InTransit = SumFunction(f)
  BY DEF InTransit, Landed
<1>3. SumFunction(f) = SumFunctionOnSet(f, Landed)
  BY DEF SumFunction
<1>4. \A n \in Landed : f[n] = Effects[n] /\ Effects[n] \in Int
  BY <1>1 DEF Effects, AmountTyped
<1> HIDE DEF f
<1>5. SumFunctionOnSet(f, Landed) = SumFunctionOnSet(Effects, Landed)
  BY <1>1, <1>4, SumSame
<1>6. SumFunctionOnSet(Effects, Landed) \in Int
  BY <1>1, <1>4, SumInt
<1>7. QED
  BY <1>1, <1>2, <1>3, <1>5, <1>6

----------------------------------------------------------------------------
(* Settling the journal. *)

(***************************************************************************)
(* One landed transaction moves the total by its effect, but for what is   *)
(* counted as missed, and debits no bucket but its own and the basket.     *)
(***************************************************************************)
LEMMA SettleOne ==
    ASSUME AmountTyped, NEW n \in Numbers, tx[n].label \in Claims \cup Spends, NEW l \in Ledgers
    PROVE  /\ Settle(l, n) \in Ledgers
           /\ Missed(l, n) \in Int
           /\ Total(Settle(l, n)) - Missed(l, n) = Total(l) + tx[n].effect
           /\ Settle(l, n)["operations"] >= l["operations"]
           /\ \A b \in SpendBuckets :
                 ~(tx[n].label \in Spends /\ BucketOf[tx[n].label] = b) => Settle(l, n)[b] >= l[b]
<1> DEFINE e == tx[n].effect
<1>1. e \in Int /\ -e \in Int
  BY DEF AmountTyped
<1>2. l \in [Buckets -> Int] /\ \A b \in Buckets : l[b] \in Nat
  BY DEF Ledgers
<1>3. Total(l) \in Int
  BY <1>2, TotalIs
<1>4. CASE tx[n].label \in Claims
  <2>1. Max({0, e}) = IF 0 >= e THEN 0 ELSE e
    BY <1>1, MaxOfTwo
  <2>2. Max({0, -e}) = IF 0 >= -e THEN 0 ELSE -e
    BY <1>1, MaxOfTwo
  <2> DEFINE x == Max({0, e})
  <2>3. Settle(l, n) = CreditRevenue(l, x) /\ Missed(l, n) = Max({0, -e})
    BY <1>4 DEF Settle, Missed
  <2>4. x \in Nat
    BY <1>1, <2>1
  <2> HIDE DEF x
  <2>5. /\ CreditRevenue(l, x) \in Ledgers /\ Total(CreditRevenue(l, x)) = Total(l) + x
        /\ \A b \in Buckets : CreditRevenue(l, x)[b] >= l[b]
    BY <2>4, CreditIs
  <2>6. Total(Settle(l, n)) - Missed(l, n) = Total(l) + e
    BY <1>1, <1>3, <2>1, <2>2, <2>3, <2>5 DEF x
  <2>7. Missed(l, n) \in Int
    BY <1>1, <2>2, <2>3
  <2>8. QED
    BY <2>3, <2>5, <2>6, <2>7, BucketOfIs
<1>5. CASE tx[n].label \in Spends
  <2>0. tx[n].label \notin Claims /\ e <= 0
    BY <1>5 DEF Claims, Spends, AmountTyped
  <2>1. Max({0, -e}) = -e
    <3>1. Max({0, -e}) = IF 0 >= -e THEN 0 ELSE -e
      BY <1>1, MaxOfTwo
    <3>2. QED
      BY <1>1, <2>0, <3>1
  <2> DEFINE cost == -e
             b == BucketOf[tx[n].label]
  <2>2. Settle(l, n) = ChargeLedger(l, b, cost) /\ Missed(l, n) = Unborne(l, b, cost)
    BY <2>0, <2>1 DEF Settle, Missed
  <2>3. b \in SpendBuckets /\ cost \in Nat
    BY <1>1, <1>5, <2>0, BucketOfIs
  <2> HIDE DEF b, cost
  <2>4. /\ ChargeLedger(l, b, cost) \in Ledgers
        /\ Unborne(l, b, cost) \in Nat
        /\ Total(ChargeLedger(l, b, cost)) = Total(l) - cost + Unborne(l, b, cost)
        /\ ChargeLedger(l, b, cost)["operations"] = l["operations"]
        /\ \A c \in SpendBuckets \ {b} : ChargeLedger(l, b, cost)[c] = l[c]
    BY <2>3, ChargeIs
  <2>5. Total(Settle(l, n)) - Missed(l, n) = Total(l) + e
    BY <1>1, <1>3, <2>2, <2>4 DEF cost
  <2>6. Settle(l, n)["operations"] >= l["operations"]
    BY <1>2, <2>2, <2>4, BucketOfIs
  <2>7. \A c \in SpendBuckets : c # b => Settle(l, n)[c] >= l[c]
    BY <1>2, <2>2, <2>4, BucketOfIs
  <2>8. QED
    BY <1>5, <2>2, <2>4, <2>5, <2>6, <2>7 DEF b
<1>6. QED
  BY <1>4, <1>5

(* The journal's fold, up to entry k. *)
SettleStart == [ledger |-> ledger, missed |-> 0]
SettleEntry(before, landed, n) ==
    IF n \notin landed THEN before
    ELSE [ledger |-> Settle(before.ledger, n), missed |-> before.missed + Missed(before.ledger, n)]

IsSettling(f, landed, k) ==
    f = [n \in 0 .. k |-> IF n = 0 THEN SettleStart ELSE SettleEntry(f[n - 1], landed, n)]

(* The recursion of the journal's fold has a solution. *)
LEMMA SettlingExists ==
    ASSUME NEW landed
    PROVE  \E f : IsSettling(f, landed, MaxSends)
<1> DEFINE F == {k \in Nat : \E f : IsSettling(f, landed, k)}
<1>1. 0 \in F
  <2> DEFINE f == [n \in 0 .. 0 |-> SettleStart]
  <2>1. f = [n \in 0 .. 0 |-> IF n = 0 THEN SettleStart ELSE SettleEntry(f[n - 1], landed, n)]
    OBVIOUS
  <2> HIDE DEF f
  <2>2. IsSettling(f, landed, 0)
    BY <2>1 DEF IsSettling
  <2>3. QED
    BY <2>2
<1>2. ASSUME NEW k \in Nat, k \in F PROVE k + 1 \in F
  <2>1. PICK g : IsSettling(g, landed, k)
    BY <1>2
  <2>2. \A n \in 0 .. k : g[n] = IF n = 0 THEN SettleStart ELSE SettleEntry(g[n - 1], landed, n)
    BY <2>1 DEF IsSettling
  <2> DEFINE h == [n \in 0 .. (k + 1) |-> IF n <= k THEN g[n] ELSE SettleEntry(g[k], landed, n)]
  <2>3. \A n \in 0 .. (k + 1) : h[n] = IF n = 0 THEN SettleStart ELSE SettleEntry(h[n - 1], landed, n)
    <3> SUFFICES ASSUME NEW n \in 0 .. (k + 1)
                 PROVE  h[n] = IF n = 0 THEN SettleStart ELSE SettleEntry(h[n - 1], landed, n)
      OBVIOUS
    <3>1. CASE n = 0
      BY <3>1, <2>2
    <3>2. CASE n # 0
      <4>1. n - 1 \in 0 .. k /\ h[n - 1] = g[n - 1]
        BY <3>2
      <4>2. h[n] = SettleEntry(g[n - 1], landed, n)
        <5>1. CASE n <= k
          BY <5>1, <3>2, <2>2
        <5>2. CASE n = k + 1
          BY <5>2
        <5>3. QED
          BY <5>1, <5>2
      <4>3. QED
        BY <3>2, <4>1, <4>2
    <3>3. QED
      BY <3>1, <3>2
  <2>4. h = [n \in 0 .. (k + 1) |-> h[n]]
    OBVIOUS
  <2> HIDE DEF h
  <2>5. IsSettling(h, landed, k + 1)
    BY <2>3, <2>4 DEF IsSettling
  <2>6. QED
    BY <2>5
<1>3. Nat \subseteq F
  <2> HIDE DEF F
  <2>1. QED
    BY <1>1, <1>2, NaturalInduction
<1>4. QED
  BY <1>3, Times

(* Settling a set of transactions is that fold, to its end. *)
LEMMA SettleAllIs ==
    ASSUME NEW landed
    PROVE  \E f : IsSettling(f, landed, MaxSends) /\ SettleAll(landed) = f[MaxSends]
<1> DEFINE f == CHOOSE g : IsSettling(g, landed, MaxSends)
<1>1. SettleAll(landed) = f[MaxSends]
  BY DEF SettleAll, IsSettling, SettleStart, SettleEntry
<1>2. IsSettling(f, landed, MaxSends)
  BY SettlingExists
<1>3. QED
  BY <1>1, <1>2

(* The whole journal: as for one transaction, with the sum of their effects. *)
LEMMA SettleAllEffect ==
    ASSUME IInv, AmountTyped, NEW landed \in SUBSET Numbers,
           \A n \in landed : tx[n].label \in Claims \cup Spends
    PROVE  /\ SettleAll(landed).ledger \in Ledgers
           /\ SettleAll(landed).missed \in Int
           /\ Total(SettleAll(landed).ledger) - SettleAll(landed).missed
                = Total(ledger) + SumFunctionOnSet(Effects, landed)
           /\ SettleAll(landed).ledger["operations"] >= ledger["operations"]
           /\ \A b \in SpendBuckets :
                 (\A n \in landed : ~(tx[n].label \in Spends /\ BucketOf[tx[n].label] = b))
                    => SettleAll(landed).ledger[b] >= ledger[b]
<1>1. PICK f : IsSettling(f, landed, MaxSends) /\ SettleAll(landed) = f[MaxSends]
  BY SettleAllIs
<1> DEFINE Entries(k) == {n \in landed : n <= k}
           Right(k) ==
             /\ f[k].ledger \in Ledgers
             /\ f[k].missed \in Int
             /\ Total(f[k].ledger) - f[k].missed = Total(ledger) + SumFunctionOnSet(Effects, Entries(k))
             /\ f[k].ledger["operations"] >= ledger["operations"]
             /\ \A b \in SpendBuckets :
                   (\A n \in landed : ~(tx[n].label \in Spends /\ BucketOf[tx[n].label] = b))
                      => f[k].ledger[b] >= ledger[b]
           F == {k \in Nat : k <= MaxSends => Right(k)}
<1>2. \A k \in 0 .. MaxSends : f[k] = IF k = 0 THEN SettleStart ELSE SettleEntry(f[k - 1], landed, k)
  BY <1>1 DEF IsSettling
<1>3. ledger \in Ledgers /\ ledger \in [Buckets -> Int] /\ \A b \in Buckets : ledger[b] \in Nat
  BY DEF AmountTyped, Ledgers
<1>4. Total(ledger) \in Int
  BY <1>3, TotalIs
<1>5. \A n \in Numbers : Effects[n] = tx[n].effect /\ Effects[n] \in Int
  BY DEF Effects, AmountTyped
<1>6. \A k : IsFiniteSet(Entries(k)) /\ Entries(k) \subseteq Numbers
  <2> TAKE k
  <2>1. Entries(k) \in SUBSET Numbers
    OBVIOUS
  <2> HIDE DEF Entries
  <2>2. QED
    BY <2>1, NumbersFinite
<1>7. \A k : SumFunctionOnSet(Effects, Entries(k)) \in Int
  <2> TAKE k
  <2> DEFINE E == Entries(k)
  <2>1. IsFiniteSet(E) /\ \A n \in E : Effects[n] \in Int
    BY <1>5, <1>6
  <2> HIDE DEF E
  <2>2. SumFunctionOnSet(Effects, E) \in Int
    BY <2>1, SumInt
  <2>3. QED
    BY <2>2 DEF E
<1>8. 0 \in F
  <2>1. f[0] = SettleStart
    BY <1>2, Times
  <2>2. f[0].ledger = ledger /\ f[0].missed = 0
    BY <2>1 DEF SettleStart
  <2>3. Entries(0) = {}
    <3>1. \A n \in landed : n \in Nat /\ n > 0
      BY Times DEF Numbers
    <3>2. QED
      BY <3>1
  <2>4. SumFunctionOnSet(Effects, Entries(0)) = 0
    BY <2>3, SumEmpty
  <2> HIDE DEF Entries
  <2>5. Total(f[0].ledger) - f[0].missed = Total(ledger) + SumFunctionOnSet(Effects, Entries(0))
    BY <1>4, <2>2, <2>4
  <2>6. Right(0)
    BY <1>3, <2>2, <2>5, BucketOfIs
  <2>7. QED
    BY <2>6
<1>9. ASSUME NEW k \in Nat, k \in F PROVE k + 1 \in F
  <2> SUFFICES ASSUME k + 1 <= MaxSends PROVE Right(k + 1)
    OBVIOUS
  <2>1. Right(k) /\ k + 1 \in Numbers /\ k + 1 \in 0 .. MaxSends
    BY <1>9, Times DEF Numbers
  <2>2. f[k + 1] = SettleEntry(f[k], landed, k + 1)
    <3>1. (k + 1) - 1 = k /\ k + 1 # 0
      OBVIOUS
    <3>2. f[k + 1] = SettleEntry(f[(k + 1) - 1], landed, k + 1)
      BY <1>2, <2>1, <3>1
    <3>3. QED
      BY <3>1, <3>2
  <2>3. CASE k + 1 \notin landed
    <3>1. f[k + 1] = f[k]
      BY <2>2, <2>3 DEF SettleEntry
    <3>2. Entries(k + 1) = Entries(k)
      <4>1. \A n \in landed : n \in Nat /\ (n <= k + 1 <=> n <= k)
        BY <2>3, Times DEF Numbers
      <4>2. QED
        BY <4>1
    <3> HIDE DEF Entries
    <3>3. QED
      BY <2>1, <3>1, <3>2
  <2>4. CASE k + 1 \in landed
    <3> DEFINE l == f[k].ledger
               n == k + 1
    <3>1. f[n].ledger = Settle(l, n) /\ f[n].missed = f[k].missed + Missed(l, n)
      BY <2>2, <2>4 DEF SettleEntry
    <3>2. l \in Ledgers /\ n \in Numbers /\ tx[n].label \in Claims \cup Spends
      BY <2>1, <2>4
    <3> HIDE DEF l, n
    <3>3. /\ Settle(l, n) \in Ledgers
          /\ Missed(l, n) \in Int
          /\ Total(Settle(l, n)) - Missed(l, n) = Total(l) + tx[n].effect
          /\ Settle(l, n)["operations"] >= l["operations"]
          /\ \A b \in SpendBuckets :
                 ~(tx[n].label \in Spends /\ BucketOf[tx[n].label] = b) => Settle(l, n)[b] >= l[b]
      BY <3>2, SettleOne
    <3>4. SumFunctionOnSet(Effects, Entries(n)) = tx[n].effect + SumFunctionOnSet(Effects, Entries(k))
      <4> DEFINE E == Entries(k)
      <4>1. Entries(n) = E \cup {n} /\ n \notin E
        <5>1. n \in landed /\ \A m \in landed : m \in Nat /\ (m <= n <=> m <= k \/ m = n) /\ ~(n <= k)
          BY <2>4, Times DEF n, Numbers
        <5>2. QED
          BY <5>1
      <4>2. IsFiniteSet(E) /\ \A m \in E \cup {n} : Effects[m] \in Int
        BY <1>5, <1>6, <3>2
      <4> HIDE DEF E
      <4>3. SumFunctionOnSet(Effects, E \cup {n}) = Effects[n] + SumFunctionOnSet(Effects, E)
        BY <4>1, <4>2, SumAdd
      <4>4. Effects[n] = tx[n].effect
        BY <1>5, <3>2
      <4>5. QED
        BY <4>1, <4>3, <4>4 DEF E
    <3>5. /\ l["operations"] \in Nat /\ Settle(l, n)["operations"] \in Nat /\ ledger["operations"] \in Nat
          /\ \A b \in SpendBuckets : l[b] \in Nat /\ Settle(l, n)[b] \in Nat /\ ledger[b] \in Nat
      BY <1>3, <3>2, <3>3, BucketOfIs DEF Ledgers
    <3>6. Total(Settle(l, n)) - (f[k].missed + Missed(l, n)) = Total(ledger) + SumFunctionOnSet(Effects, Entries(n))
      <4>1. Total(l) - f[k].missed = Total(ledger) + SumFunctionOnSet(Effects, Entries(k))
        BY <2>1 DEF l
      <4>2. /\ Total(l) \in Int /\ Total(Settle(l, n)) \in Int /\ f[k].missed \in Int /\ tx[n].effect \in Int
            /\ SumFunctionOnSet(Effects, Entries(k)) \in Int
        <5>1. l \in [Buckets -> Int] /\ Settle(l, n) \in [Buckets -> Int]
          BY <3>2, <3>3 DEF Ledgers
        <5>2. Total(l) \in Int /\ Total(Settle(l, n)) \in Int
          BY <5>1, TotalIs
        <5>3. f[k].missed \in Int /\ tx[n].effect \in Int
          BY <2>1, <3>2, <1>5
        <5> HIDE DEF Entries
        <5>4. SumFunctionOnSet(Effects, Entries(k)) \in Int
          BY <1>7
        <5>5. QED
          BY <5>2, <5>3, <5>4
      <4> HIDE DEF Entries
      <4>3. QED
        BY <1>4, <3>3, <3>4, <4>1, <4>2
    <3>7. Settle(l, n)["operations"] >= ledger["operations"]
      BY <2>1, <3>3, <3>5 DEF l
    <3>8. \A b \in SpendBuckets :
             (\A m \in landed : ~(tx[m].label \in Spends /\ BucketOf[tx[m].label] = b))
                => Settle(l, n)[b] >= ledger[b]
      <4> SUFFICES ASSUME NEW b \in SpendBuckets,
                          \A m \in landed : ~(tx[m].label \in Spends /\ BucketOf[tx[m].label] = b)
                   PROVE  Settle(l, n)[b] >= ledger[b]
        OBVIOUS
      <4>1. l[b] >= ledger[b]
        BY <2>1 DEF l
      <4>2. Settle(l, n)[b] >= l[b]
        BY <2>4, <3>3 DEF n
      <4>3. QED
        BY <3>5, <4>1, <4>2
    <3>9. f[k].missed \in Int
      BY <2>1
    <3>10. Right(n)
      BY <3>1, <3>3, <3>6, <3>7, <3>8, <3>9
    <3>11. QED
      BY <3>10 DEF n
  <2>5. QED
    BY <2>3, <2>4
<1>10. Nat \subseteq F
  <2> HIDE DEF F
  <2>1. QED
    BY <1>8, <1>9, NaturalInduction
<1>11. Right(MaxSends)
  BY <1>10, Times
<1>12. Entries(MaxSends) = landed
  <2>1. \A n \in landed : n <= MaxSends
    BY Times DEF Numbers
  <2>2. QED
    BY <2>1
<1>13. QED
  BY <1>1, <1>11, <1>12

----------------------------------------------------------------------------
(* The steps. *)

RoundType == [open : BOOLEAN, reserve : Nat, budget : Nat, spent : Int]
Phases == {"CURVE", "AWAITING_MIGRATION", "GRADUATED"}
Surpluses == {"held", "out", "empty"}

(* A reserve moves from the pot to the operations bucket. *)
LEMMA ReserveIs ==
    ASSUME NEW l \in Ledgers, NEW x \in Nat, x <= l["basket"], NEW m,
           m = [l EXCEPT !["basket"] = @ - x, !["operations"] = @ + x]
    PROVE  /\ m \in Ledgers /\ Total(m) = Total(l)
           /\ m["operations"] = l["operations"] + x /\ m["basket"] = l["basket"] - x
           /\ \A b \in SpendBuckets : m[b] = l[b]
<1> DEFINE k == [l EXCEPT !["basket"] = l["basket"] - x]
<1>1. \A b \in Buckets : l[b] \in Nat
  BY DEF Ledgers
<1>2. l["basket"] - x \in Nat /\ l["operations"] + x \in Nat /\ l \in [Buckets -> Int]
  BY <1>1, BucketOfIs DEF Ledgers
<1>3. k \in [Buckets -> Int] /\ k["operations"] = l["operations"] /\ k["basket"] = l["basket"] - x
  BY <1>2, BucketOfIs
<1>4. \A b \in Buckets \ {"basket"} : k[b] = l[b]
  BY <1>2
<1>0. \A f \in [Buckets -> Int] : \A b \in Buckets, y \in Int : Total([f EXCEPT ![b] = y]) = Total(f) + (y - f[b])
  BY TotalChange
<1>5. Total(k) = Total(l) + ((l["basket"] - x) - l["basket"])
  <2>1. l["basket"] - x \in Int /\ "basket" \in Buckets
    BY <1>2, BucketOfIs
  <2>2. QED
    BY <1>0, <1>2, <2>1
<1>6. m = [k EXCEPT !["operations"] = l["operations"] + x]
  BY <1>2, BucketOfIs
<1> HIDE DEF k
<1>7. Total(m) = Total(k) + ((l["operations"] + x) - k["operations"])
  <2>1. l["operations"] + x \in Int /\ "operations" \in Buckets
    BY <1>2, BucketOfIs
  <2>2. Total([k EXCEPT !["operations"] = l["operations"] + x]) = Total(k) + ((l["operations"] + x) - k["operations"])
    BY <1>0, <1>3, <2>1
  <2>3. QED
    BY <1>6, <2>2
<1>8. Total(k) \in Int /\ Total(l) \in Int
  BY <1>2, <1>3, TotalIs
<1>9. Total(m) = Total(l)
  BY <1>1, <1>3, <1>5, <1>7, <1>8, BucketOfIs
<1>10. /\ m["operations"] = l["operations"] + x /\ m["basket"] = l["basket"] - x
       /\ \A b \in Buckets \ {"basket", "operations"} : m[b] = l[b]
  BY <1>3, <1>4, <1>6, BucketOfIs
<1>11. m \in Ledgers
  <2>1. m = [b \in Buckets |-> m[b]]
    BY <1>3, <1>6
  <2>2. \A b \in Buckets : m[b] \in Nat
    BY <1>1, <1>2, <1>10
  <2>3. QED
    BY <2>1, <2>2 DEF Ledgers
<1>12. QED
  BY <1>9, <1>10, <1>11, BucketOfIs

(* A coin that has claimed once, with or without an open round. *)
LEMMA InitAmounts ==
    ASSUME Init
    PROVE  AmountInv
<1> DEFINE s == SplitRevenue(Claimed)
           half == s["basket"] \div 2
<1>1. s \in Ledgers /\ Total(s) = Claimed /\ s["operations"] = 0
  BY Amounts, SplitIs
<1>2. s["basket"] \in Nat /\ half \in Nat /\ half <= s["basket"]
  BY <1>1, BucketOfIs DEF Ledgers
<1>3. Reserved = [s EXCEPT !["basket"] = @ - half, !["operations"] = @ + half]
  <2>1. 0 + half = half
    BY <1>2
  <2>2. [s EXCEPT !["basket"] = @ - half, !["operations"] = half]
          = [s EXCEPT !["basket"] = @ - half, !["operations"] = @ + half]
    BY <1>1, <2>1 DEF Ledgers
  <2>3. QED
    BY <2>2 DEF Reserved
<1> HIDE DEF s, half
<1>4. Reserved \in Ledgers /\ Total(Reserved) = Claimed /\ Reserved["operations"] \in Nat /\ Reserved["basket"] \in Nat
  <2>1. Reserved \in Ledgers /\ Total(Reserved) = Total(s)
    BY <1>1, <1>2, <1>3, ReserveIs
  <2>2. QED
    BY <1>1, <2>1, BucketOfIs DEF Ledgers
<1>5. /\ phase = "CURVE" /\ surplus \in {"held", "empty"}
      /\ wallet = Claimed - round.spent
      /\ tx = [n \in Numbers |-> Unsigned]
      /\ pending = {}
      /\ surplusWithdrawn = FALSE /\ surplusRefusals = 0
      /\ busy = "no" /\ drift = 0
  BY DEF Init
<1>6. /\ ledger \in Ledgers /\ Total(ledger) = Claimed
      /\ round \in RoundType /\ RoundBacked
  <2>1. CASE round = NoRound /\ ledger = SplitRevenue(Claimed)
    BY <2>1, <1>1 DEF NoRound, RoundType, RoundBacked, s
  <2>2. CASE /\ ledger = Reserved
             /\ round \in [open : {TRUE}, reserve : {Reserved["operations"]}, budget : {Reserved["basket"]},
                           spent : RoundCosts]
    <3>1. /\ round.open = TRUE /\ round.reserve = Reserved["operations"] /\ round.budget = Reserved["basket"]
          /\ round.spent \in Int
          /\ round = [open |-> round.open, reserve |-> round.reserve, budget |-> round.budget, spent |-> round.spent]
      BY <2>2, Amounts
    <3>2. round \in RoundType
      BY <1>4, <3>1 DEF RoundType
    <3>3. RoundBacked
      BY <1>4, <2>2, <3>1 DEF RoundBacked
    <3>4. QED
      BY <1>4, <2>2, <3>2, <3>3
  <2>3. QED
    BY <2>1, <2>2 DEF Init
<1>7. \A n \in Numbers : tx[n] = Unsigned
  BY <1>5
<1>8. round.spent \in Int /\ wallet \in Int
  BY <1>5, <1>6, Amounts DEF RoundType
<1>9. AmountTyped
  <2>1. \A n \in Numbers : /\ tx[n].effect = 0 /\ tx[n].planned = 0
                            /\ tx[n].label = "none" /\ tx[n].state = "none"
    BY <1>7 DEF Unsigned
  <2>2. "none" \notin Spends /\ drift \in Int
    BY <1>5 DEF Spends
  <2>3. QED
    BY <1>6, <1>8, <2>1, <2>2 DEF AmountTyped, RoundType
<1>10. InTransit = 0
  <2>1. {m \in pending : tx[m].state = "landed"} = {}
    BY <1>5
  <2> DEFINE f == [n \in {m \in pending : tx[m].state = "landed"} |-> tx[n].effect]
  <2>2. DOMAIN f = {}
    BY <2>1
  <2>3. InTransit = SumFunctionOnSet(f, DOMAIN f)
    BY DEF InTransit, SumFunction
  <2> HIDE DEF f
  <2>4. SumFunctionOnSet(f, {}) = 0
    BY SumEmpty
  <2>5. QED
    BY <2>2, <2>3, <2>4
<1>11. Explained
  <2>1. wallet = (Claimed + 0) - round.spent - 0
    BY <1>5, <1>8, Amounts
  <2>2. Total(ledger) + InTransit - round.spent - drift = (Claimed + 0) - round.spent - 0
    <3>1. Total(ledger) = Claimed /\ InTransit = 0 /\ drift = 0
      BY <1>5, <1>6, <1>10
    <3>2. QED
      BY <1>8, <3>1, Amounts
  <2>3. QED
    BY <2>1, <2>2 DEF Explained
<1>12. Withdrawal /\ Places
  <2>1. 0 \in 0 .. RefusalsBeforeDone /\ 0 < RefusalsBeforeDone
    BY Amounts
  <2>2. Withdrawal
    BY <1>5, <2>1 DEF Withdrawal
  <2>3. Places
    <3>1. phase \in {"CURVE", "AWAITING_MIGRATION", "GRADUATED"} /\ surplus \in {"held", "out", "empty"}
      BY <1>5
    <3>2. busy = "no"
      BY <1>5
    <3>3. busy # "burn" /\ busy \in {"no", "signed", "sent", "answered", "burn"}
      BY <3>2
    <3>4. QED
      BY <3>1, <3>2, <3>3 DEF Places
  <2>4. QED
    BY <2>2, <2>3
<1>13. OneSent /\ Covered
  BY <1>5 DEF OneSent, Covered
<1>14. QED
  BY <1>6, <1>9, <1>11, <1>12, <1>13 DEF AmountInv

(***************************************************************************)
(* A step that leaves the journal alone.  It keeps the amounts when what   *)
(* left the wallet is booked, on record for the round or counted as drift, *)
(* and when it takes from no spend's bucket but, with the burn of a swap,  *)
(* the fee from the swap's.                                                *)
(***************************************************************************)
LEMMA Motion ==
    ASSUME IInv, AmountInv, UNCHANGED <<tx, pending>>,
           wallet' \in Int, drift' \in Int, ledger' \in Ledgers, round' \in RoundType,
           phase' \in Phases, surplus' \in Surpluses,
           RoundBacked', Withdrawal',
           wallet' - Total(ledger') + round'.spent + drift' = wallet - Total(ledger) + round.spent + drift,
           \/ busy' = "no"
           \/ busy' = busy /\ todo' = todo
           \/ busy = "sent" /\ busy' = "answered" /\ todo' = todo,
           \A b \in SpendBuckets :
              \/ ledger'[b] >= ledger[b]
              \/ busy = "burn" /\ busy' = "no" /\ b = BucketOf[todo[1]] /\ ledger'[b] >= ledger[b] - Fee
    PROVE  AmountInv'
<1>1. Signed' = Signed
  BY DEF Signed
<1>2. tx' = tx /\ pending' = pending
  OBVIOUS
<1>3. AmountTyped /\ Places /\ OneSent /\ Covered /\ Explained
  BY DEF AmountInv
<1>4. AmountTyped'
  BY <1>2, <1>3 DEF AmountTyped, RoundType
<1>5. Places'
  BY <1>1, <1>2, <1>3 DEF Places, Phases, Surpluses
<1>6. InTransit' = InTransit
  BY <1>2 DEF InTransit
<1>7. Explained'
  <2>1. /\ wallet \in Int /\ drift \in Int /\ round.spent \in Int /\ round'.spent \in Int
        /\ ledger \in [Buckets -> Int] /\ ledger' \in [Buckets -> Int]
    BY <1>3 DEF AmountTyped, RoundType, Ledgers
  <2>2. Total(ledger) \in Int /\ Total(ledger') \in Int
    BY <2>1, TotalIs
  <2>3. InTransit \in Int
    BY <1>3, InTransitIs
  <2>4. wallet = Total(ledger) + InTransit - round.spent - drift
    BY <1>3 DEF Explained
  <2>5. wallet' = Total(ledger') + InTransit - round'.spent - drift'
    BY <2>1, <2>2, <2>3, <2>4
  <2>6. QED
    BY <1>6, <2>5 DEF Explained
<1>8. OneSent'
  BY <1>1, <1>2, <1>3 DEF OneSent
<1>9. Covered'
  <2>1. \A b \in SpendBuckets : ledger[b] \in Nat /\ ledger'[b] \in Nat
    BY <1>3, BucketOfIs DEF AmountTyped, Ledgers
  <2>2. \A n \in Numbers : tx[n].planned \in Int
    BY <1>3 DEF AmountTyped
  <2>3. ASSUME busy' = "signed", todo'[1] \in Spends
        PROVE  tx[Signed].planned <= ledger'[BucketOf[todo'[1]]]
    <3>1. busy = "signed" /\ todo' = todo
      BY <2>3
    <3>2. tx[Signed].planned <= ledger[BucketOf[todo[1]]]
      BY <1>3, <2>3, <3>1 DEF Covered
    <3>3. BucketOf[todo[1]] \in SpendBuckets /\ Signed \in Numbers
      BY <1>3, <2>3, <3>1, BucketOfIs DEF Places
    <3>4. ledger'[BucketOf[todo[1]]] >= ledger[BucketOf[todo[1]]]
      BY <3>1, <3>3
    <3>5. QED
      BY <2>1, <2>2, <3>1, <3>2, <3>3, <3>4
  <2>4. ASSUME NEW n \in pending, tx[n].label \in Spends, tx[n].state \in {"flying", "landed"}
        PROVE  ledger'[BucketOf[tx[n].label]] >= tx[n].planned - (IF busy' # "no" /\ n = Signed THEN 0 ELSE Fee)
    <3> DEFINE b == BucketOf[tx[n].label]
    <3>1. b \in SpendBuckets /\ n \in Numbers /\ tx[n].planned \in Int /\ Fee \in Nat
      BY <2>2, <2>4, BucketOfIs, JournalInNumbers, Amounts
    <3>2. ledger[b] >= tx[n].planned - Spared(n)
      BY <1>3, <2>4 DEF Covered
    <3>3. Spared(n) = IF busy # "no" /\ n = Signed THEN 0 ELSE Fee
      BY DEF Spared
    <3>4. busy' # "no" => busy # "no"
      OBVIOUS
    <3>5. CASE busy = "burn" /\ busy' = "no" /\ b = BucketOf[todo[1]]
      <4>1. tx[n].label = todo[1]
        BY <1>3, <2>4, <3>5, BucketOfIs DEF Places, Spends
      <4>2. n = Signed
        BY <1>3, <2>4, <3>5, <4>1 DEF OneSent
      <4>3. ledger[b] >= tx[n].planned
        BY <2>1, <3>1, <3>2, <3>3, <3>5, <4>2
      <4>4. ledger'[b] >= ledger[b] - Fee
        BY <2>1, <3>1
      <4>5. QED
        BY <2>1, <3>1, <3>5, <4>3, <4>4
    <3>6. CASE ledger'[b] >= ledger[b]
      BY <2>1, <3>1, <3>2, <3>3, <3>4, <3>6
    <3>7. QED
      BY <3>1, <3>5, <3>6
  <2>5. QED
    BY <1>1, <1>2, <2>3, <2>4 DEF Covered, Spared
<1>10. QED
  BY <1>4, <1>5, <1>7, <1>8, <1>9 DEF AmountInv

(* The counted refusals, when nothing is about to be sent or nothing has changed. *)
LEMMA WithdrawalStays ==
    ASSUME AmountInv, UNCHANGED <<surplusWithdrawn, surplusRefusals>>, busy' # "signed" \/ UNCHANGED <<busy, todo>>
    PROVE  Withdrawal'
BY DEF AmountInv, Withdrawal

(* A step that moves no SOL and keeps the ledger. *)
LEMMA StillKeeps ==
    ASSUME IInv, AmountInv, UNCHANGED <<tx, pending, wallet, drift, ledger, round>>,
           phase' \in Phases, surplus' \in Surpluses, Withdrawal',
           \/ busy' = "no"
           \/ busy' = busy /\ todo' = todo
           \/ busy = "sent" /\ busy' = "answered" /\ todo' = todo
    PROVE  AmountInv'
<1>1. AmountTyped /\ RoundBacked
  BY DEF AmountInv
<1>2. /\ wallet' \in Int /\ drift' \in Int /\ ledger' \in Ledgers /\ round' \in RoundType
      /\ wallet' - Total(ledger') + round'.spent + drift' = wallet - Total(ledger) + round.spent + drift
  <2>1. wallet' = wallet /\ ledger' = ledger /\ round' = round /\ drift' = drift
    OBVIOUS
  <2>2. QED
    BY <1>1, <2>1 DEF AmountTyped, RoundType
<1>3. RoundBacked'
  BY <1>1 DEF RoundBacked, NoRound
<1>4. \A b \in SpendBuckets : ledger'[b] >= ledger[b]
  <2>1. \A b \in SpendBuckets : ledger'[b] = ledger[b] /\ ledger[b] \in Nat
    BY <1>1, BucketOfIs DEF AmountTyped, Ledgers
  <2>2. QED
    BY <2>1
<1>5. QED
  BY <1>2, <1>3, <1>4, Motion

(* The tick's bookkeeping. *)
LEMMA QuietAmounts ==
    ASSUME IInv, AmountInv,
           \/ StartTick \/ Throw \/ Crash \/ Skip \/ Answer \/ Unanswered \/ FillCurve \/ MigratedByOthers
           \/ UNCHANGED vars
    PROVE  AmountInv'
<1>1. phase \in Phases /\ surplus \in Surpluses
  BY DEF AmountInv, Places, Phases, Surpluses
<1>2. CASE StartTick
  <2>1. busy = "no"
    BY <1>2 DEF StartTick, AmountInv, Places
  <2>2. /\ UNCHANGED <<tx, pending, wallet, drift, ledger, round, phase, surplus>>
        /\ UNCHANGED <<surplusWithdrawn, surplusRefusals>> /\ busy' = "no"
    BY <1>2, <2>1 DEF StartTick, disk, chain
  <2>3. QED
    BY <1>1, <2>2, WithdrawalStays, StillKeeps
<1>3. CASE Throw
  <2>1. /\ UNCHANGED <<tx, pending, wallet, drift, ledger, round, phase, surplus>>
        /\ UNCHANGED <<surplusWithdrawn, surplusRefusals>> /\ busy' = "no"
    BY <1>3 DEF Throw, Next1, disk, chain
  <2>2. QED
    BY <1>1, <2>1, WithdrawalStays, StillKeeps
<1>4. CASE Crash
  <2>1. /\ UNCHANGED <<tx, pending, wallet, drift, ledger, round, phase, surplus>>
        /\ UNCHANGED <<surplusWithdrawn, surplusRefusals>> /\ busy' = "no"
    BY <1>4 DEF Crash, disk, chain
  <2>2. QED
    BY <1>1, <2>1, WithdrawalStays, StillKeeps
<1>5. CASE Skip
  <2>1. /\ UNCHANGED <<tx, pending, wallet, drift, ledger, round, phase, surplus>>
        /\ surplusRefusals' = surplusRefusals /\ busy' = "no"
    BY <1>5 DEF Skip, Next1, chain
  <2>2. surplusWithdrawn' \in BOOLEAN /\ (~surplusWithdrawn' => ~surplusWithdrawn)
    BY <1>5 DEF Skip
  <2>3. Withdrawal
    BY DEF AmountInv
  <2>4. Withdrawal'
    BY <2>1, <2>2, <2>3 DEF Withdrawal
  <2>5. QED
    BY <1>1, <2>1, <2>4, StillKeeps
<1>6. CASE Answer
  <2>1. /\ UNCHANGED <<tx, pending, wallet, drift, ledger, round, phase, surplus>>
        /\ UNCHANGED <<surplusWithdrawn, surplusRefusals, todo>> /\ busy = "sent" /\ busy' = "answered"
    BY <1>6 DEF Answer, disk, chain
  <2>2. QED
    BY <1>1, <2>1, WithdrawalStays, StillKeeps
<1>7. CASE Unanswered
  <2>1. /\ UNCHANGED <<tx, pending, wallet, drift, ledger, round, phase, surplus>>
        /\ UNCHANGED <<surplusWithdrawn, surplusRefusals>> /\ busy' = "no"
    BY <1>7 DEF Unanswered, Next1, disk, chain
  <2>2. QED
    BY <1>1, <2>1, WithdrawalStays, StillKeeps
<1>8. CASE FillCurve \/ MigratedByOthers
  <2>1. /\ UNCHANGED <<tx, pending, wallet, drift, ledger, round, surplus>>
        /\ UNCHANGED <<surplusWithdrawn, surplusRefusals, busy, todo>> /\ phase' \in Phases
    BY <1>8 DEF FillCurve, MigratedByOthers, disk, Phases
  <2>2. QED
    BY <1>1, <2>1, WithdrawalStays, StillKeeps
<1>9. CASE UNCHANGED vars
  <2>1. /\ UNCHANGED <<tx, pending, wallet, drift, ledger, round, phase, surplus>>
        /\ UNCHANGED <<surplusWithdrawn, surplusRefusals, busy, todo>>
    BY <1>9 DEF vars, disk, chain
  <2>2. QED
    BY <1>1, <2>1, WithdrawalStays, StillKeeps
<1>10. QED
  BY <1>2, <1>3, <1>4, <1>5, <1>6, <1>7, <1>8, <1>9

(* The refusals of a surplus withdrawal are counted while it is not written off. *)
LEMMA RefusedAmounts ==
    ASSUME IInv, AmountInv, Refused
    PROVE  AmountInv'
<1>1. phase \in Phases /\ surplus \in Surpluses /\ Withdrawal
  BY DEF AmountInv, Places, Phases, Surpluses
<1>2. /\ UNCHANGED <<tx, pending, wallet, drift, ledger, round, phase, surplus>>
      /\ busy = "signed" /\ busy' = "no"
  BY DEF Refused, Next1, chain
<1>3. Withdrawal'
  <2>1. CASE ~(At("partner surplus") /\ surplus # "held")
    <3>1. UNCHANGED <<surplusWithdrawn, surplusRefusals>>
      BY <2>1 DEF Refused
    <3>2. QED
      BY <1>2, <3>1, WithdrawalStays
  <2>2. CASE At("partner surplus") /\ surplus # "held"
    <3>1. ~surplusWithdrawn /\ surplusRefusals \in Nat /\ surplusRefusals < RefusalsBeforeDone
      <4>1. todo[1] = "partner surplus"
        BY <2>2 DEF At
      <4>2. ~surplusWithdrawn /\ surplusRefusals < RefusalsBeforeDone /\ surplusRefusals \in 0 .. RefusalsBeforeDone
        BY <1>1, <1>2, <4>1, Zenon DEF Withdrawal
      <4>3. surplusRefusals \in Nat
        BY <4>2, Amounts
      <4>4. QED
        BY <4>2, <4>3
    <3>2. surplusRefusals' = surplusRefusals + (IF surplus = "out" THEN 0 ELSE 1)
      BY <2>2 DEF Refused
    <3>3. surplusRefusals' \in 0 .. RefusalsBeforeDone
      BY <3>1, <3>2, Amounts
    <3>4. surplusWithdrawn' = (surplusWithdrawn \/ surplus = "out" \/ surplusRefusals' >= RefusalsBeforeDone)
      BY <2>2 DEF Refused
    <3>5. surplusWithdrawn' \in BOOLEAN /\ (~surplusWithdrawn' => ~(surplusRefusals' >= RefusalsBeforeDone))
      BY <3>4
    <3>6. ~surplusWithdrawn' => surplusRefusals' < RefusalsBeforeDone
      BY <3>3, <3>5, Amounts
    <3>7. QED
      BY <1>2, <3>3, <3>5, <3>6 DEF Withdrawal
  <2>3. QED
    BY <2>1, <2>2
<1>4. QED
  BY <1>1, <1>2, <1>3, StillKeeps

(* A migration's fee is booked nowhere. *)
LEMMA MigrateAmounts ==
    ASSUME IInv, AmountInv, Migrate
    PROVE  AmountInv'
<1>1. phase \in Phases /\ surplus \in Surpluses /\ AmountTyped /\ RoundBacked
  BY DEF AmountInv, Places, Phases, Surpluses
<1>2. /\ UNCHANGED <<tx, pending, ledger, round, surplus, surplusWithdrawn, surplusRefusals>> /\ busy' = "no"
  BY DEF Migrate, Next1, disk
<1>3. /\ phase' \in Phases
      /\ \/ wallet' = wallet - Fee /\ drift' = drift + Fee
         \/ wallet' = wallet /\ drift' = drift
  BY <1>1 DEF Migrate, MigrateToDammV2, Phases
<1>4. /\ wallet \in Int /\ drift \in Int /\ round.spent \in Int /\ ledger \in Ledgers /\ round \in RoundType
      /\ ledger \in [Buckets -> Int]
  BY <1>1 DEF AmountTyped, RoundType, Ledgers
<1>5. wallet' \in Int /\ drift' \in Int
  BY <1>3, <1>4, Amounts
<1>6. wallet' - Total(ledger') + round'.spent + drift' = wallet - Total(ledger) + round.spent + drift
  <2>1. Total(ledger) \in Int /\ ledger' = ledger /\ round' = round
    BY <1>2, <1>4, TotalIs
  <2> DEFINE t == Total(ledger)
             s == round.spent
  <2>2. wallet' - t + s + drift' = wallet - t + s + drift
    <3>1. t \in Int /\ s \in Int
      BY <1>4, <2>1
    <3> HIDE DEF t, s
    <3>2. QED
      BY <1>3, <1>4, <3>1, Amounts
  <2>3. QED
    BY <2>1, <2>2
<1>7. \A b \in SpendBuckets : ledger'[b] >= ledger[b]
  <2>1. \A b \in SpendBuckets : ledger'[b] = ledger[b] /\ ledger[b] \in Nat
    BY <1>2, <1>4, BucketOfIs DEF Ledgers
  <2>2. QED
    BY <2>1
<1>8. RoundBacked' /\ Withdrawal'
  <2>1. RoundBacked'
    BY <1>1, <1>2 DEF RoundBacked, NoRound
  <2>2. QED
    BY <1>2, <2>1, WithdrawalStays
<1>9. ledger' \in Ledgers /\ round' \in RoundType /\ surplus' \in Surpluses
  BY <1>1, <1>2, <1>4
<1>10. QED
  BY <1>2, <1>3, <1>5, <1>6, <1>7, <1>8, <1>9, Motion

(* A debit of the basket, or of the operations bucket, takes from no spend's bucket. *)
LEMMA OwnDebit ==
    ASSUME NEW l \in Ledgers, NEW amount \in Nat, NEW o \in {"basket", "operations"}
    PROVE  /\ Taken(l, o, amount) = IF amount <= l[o] THEN amount ELSE l[o]
           /\ Taken(l, o, amount) \in Nat /\ l[o] \in Nat
           /\ Debit(l, o, amount) \in Ledgers
           /\ Debit(l, o, amount)[o] = l[o] - Taken(l, o, amount)
           /\ Total(Debit(l, o, amount)) = Total(l) - Taken(l, o, amount)
           /\ \A c \in Buckets \ {o} : Debit(l, o, amount)[c] = l[c]
           /\ \A b \in SpendBuckets : Debit(l, o, amount)[b] = l[b]
<1>1. o \in Buckets /\ o \notin SpendBuckets
  BY BucketOfIs
<1>2. l[o] \in Nat
  BY <1>1 DEF Ledgers
<1>3. \A b \in SpendBuckets : b \in Buckets \ {o}
  BY <1>1, BucketOfIs
<1>4. QED
  BY <1>1, <1>2, <1>3, DebitIs

(* What the amounts are, for the steps that change them. *)
LEMMA AmountsAre ==
    ASSUME AmountInv
    PROVE  /\ wallet \in Int /\ drift \in Int /\ ledger \in Ledgers /\ round \in RoundType
           /\ round.open \in BOOLEAN /\ round.reserve \in Nat /\ round.budget \in Nat /\ round.spent \in Int
           /\ Total(ledger) \in Int
           /\ \A b \in Buckets : ledger[b] \in Nat
           /\ phase \in Phases /\ surplus \in Surpluses
<1>1. /\ wallet \in Int /\ drift \in Int /\ ledger \in Ledgers /\ round \in RoundType
      /\ phase \in Phases /\ surplus \in Surpluses
  BY DEF AmountInv, AmountTyped, Places, RoundType, Phases, Surpluses
<1>2. round.open \in BOOLEAN /\ round.reserve \in Nat /\ round.budget \in Nat /\ round.spent \in Int
  BY <1>1 DEF RoundType
<1>3. ledger \in [Buckets -> Int] /\ \A b \in Buckets : ledger[b] \in Nat
  BY <1>1 DEF Ledgers
<1>4. Total(ledger) \in Int
  BY <1>3, TotalIs
<1>5. QED
  BY <1>1, <1>2, <1>3, <1>4

(* The burn's fee is charged to the swap's bucket, or lost. *)
LEMMA BurnAmounts ==
    ASSUME IInv, AmountInv, Burn
    PROVE  AmountInv'
<1>1. /\ UNCHANGED <<tx, pending, round, surplus, phase, surplusWithdrawn, surplusRefusals>>
      /\ busy = "burn" /\ busy' = "no" /\ wallet' = wallet - Fee
  BY DEF Burn, Next1, chain
<1>2. /\ wallet \in Int /\ drift \in Int /\ ledger \in Ledgers /\ round \in RoundType
      /\ round.spent \in Int /\ Total(ledger) \in Int
      /\ \A b \in Buckets : ledger[b] \in Nat
      /\ phase \in Phases /\ surplus \in Surpluses
  BY AmountsAre
<1> DEFINE b == BucketOf[todo[1]]
<1>3. b \in SpendBuckets /\ Fee \in Nat
  <2>1. todo[1] \in Spends
    BY <1>1 DEF AmountInv, Places, Spends
  <2>2. QED
    BY <2>1, BucketOfIs, Amounts
<1>4. \/ ledger' = ChargeLedger(ledger, b, Fee) /\ drift' = drift + Unborne(ledger, b, Fee)
      \/ ledger' = ledger /\ drift' = drift + Fee
  BY DEF Burn, ChargeTransaction
<1> HIDE DEF b
<1>5. /\ ledger' \in Ledgers /\ drift' \in Int /\ wallet' \in Int /\ Total(ledger') \in Int
      /\ (wallet' - wallet) + (round.spent - round.spent) + (drift' - drift) = Total(ledger') - Total(ledger)
      /\ ledger'["operations"] = ledger["operations"]
      /\ ledger'[b] >= ledger[b] - Fee
      /\ \A c \in SpendBuckets \ {b} : ledger'[c] = ledger[c]
  <2>1. CASE ledger' = ChargeLedger(ledger, b, Fee) /\ drift' = drift + Unborne(ledger, b, Fee)
    <3> DEFINE u == Unborne(ledger, b, Fee)
               l == ChargeLedger(ledger, b, Fee)
    <3>1. /\ l \in Ledgers
          /\ u \in Nat
          /\ Total(l) = Total(ledger) - Fee + u
          /\ l["operations"] = ledger["operations"]
          /\ \A c \in SpendBuckets \ {b} : l[c] = ledger[c]
          /\ l[b] >= ledger[b] - Fee
      BY <1>2, <1>3, ChargeIs
    <3>2. ledger' = l /\ drift' = drift + u
      BY <2>1
    <3> HIDE DEF u, l
    <3>3. /\ ledger' \in Ledgers /\ Total(ledger') = Total(ledger) - Fee + u
          /\ ledger'["operations"] = ledger["operations"]
          /\ \A c \in SpendBuckets \ {b} : ledger'[c] = ledger[c]
          /\ ledger'[b] >= ledger[b] - Fee
      BY <3>1, <3>2
    <3>4. drift' \in Int /\ wallet' \in Int /\ Total(ledger') \in Int
      BY <1>1, <1>2, <1>3, <3>1, <3>2, <3>3
    <3>5. (wallet' - wallet) + (round.spent - round.spent) + (drift' - drift) = Total(ledger') - Total(ledger)
      BY <1>1, <1>2, <1>3, <3>1, <3>2, <3>3
    <3>6. QED
      BY <3>3, <3>4, <3>5
  <2>2. CASE ledger' = ledger /\ drift' = drift + Fee
    <3>1. b \in Buckets /\ ledger[b] \in Nat
      BY <1>2, <1>3, BucketOfIs
    <3>2. drift' \in Int /\ wallet' \in Int /\ Total(ledger') = Total(ledger)
      BY <1>1, <1>2, <1>3, <2>2
    <3>3. (wallet' - wallet) + (round.spent - round.spent) + (drift' - drift) = Total(ledger') - Total(ledger)
      BY <1>1, <1>2, <1>3, <2>2, <3>2
    <3>4. ledger'[b] >= ledger[b] - Fee
      BY <1>3, <2>2, <3>1
    <3>5. QED
      BY <1>2, <2>2, <3>2, <3>3, <3>4
  <2>3. QED
    BY <1>4, <2>1, <2>2
<1>6. wallet' - Total(ledger') + round'.spent + drift' = wallet - Total(ledger) + round.spent + drift
  <2>1. wallet' - Total(ledger') + round.spent + drift' = wallet - Total(ledger) + round.spent + drift
    <3>1. PICK w \in Int, t \in Int, s \in Int, d \in Int :
             w = wallet /\ t = Total(ledger) /\ s = round.spent /\ d = drift
      BY <1>2
    <3>2. PICK w1 \in Int, t1 \in Int, d1 \in Int : w1 = wallet' /\ t1 = Total(ledger') /\ d1 = drift'
      BY <1>5
    <3>3. (w1 - w) + (s - s) + (d1 - d) = t1 - t
      BY <1>5, <3>1, <3>2
    <3>4. w1 - t1 + s + d1 = w - t + s + d
      BY <3>3
    <3>5. QED
      BY <3>1, <3>2, <3>4
  <2>2. QED
    BY <1>1, <2>1
<1>7. RoundBacked'
  <2>1. RoundBacked
    BY DEF AmountInv
  <2>2. QED
    BY <1>1, <1>5, <2>1 DEF RoundBacked, NoRound
<1>8. \A c \in SpendBuckets :
         \/ ledger'[c] >= ledger[c]
         \/ busy = "burn" /\ busy' = "no" /\ c = BucketOf[todo[1]] /\ ledger'[c] >= ledger[c] - Fee
  <2> SUFFICES ASSUME NEW c \in SpendBuckets, c # b
               PROVE  ledger'[c] >= ledger[c]
    BY <1>1, <1>5 DEF b
  <2>1. ledger'[c] = ledger[c] /\ ledger[c] \in Nat
    BY <1>2, <1>5, BucketOfIs
  <2>2. QED
    BY <2>1
<1>9. Withdrawal'
  BY <1>1, WithdrawalStays
<1>10. round' \in RoundType /\ phase' \in Phases /\ surplus' \in Surpluses
  BY <1>1, <1>2
<1>11. QED
  BY <1>1, <1>5, <1>6, <1>7, <1>8, <1>9, <1>10, Motion

(***************************************************************************)
(* A round's step: the journal and the tick stay as they are, no spend's   *)
(* bucket changes, and the parts of the balance agree.                     *)
(***************************************************************************)
LEMMA RoundMotion ==
    ASSUME IInv, AmountInv, AroundRound,
           wallet' \in Int, drift' \in Int, ledger' \in Ledgers, round' \in RoundType, RoundBacked',
           (wallet' - wallet) + (round'.spent - round.spent) + (drift' - drift) = Total(ledger') - Total(ledger),
           \A b \in SpendBuckets : ledger'[b] = ledger[b]
    PROVE  AmountInv'
<1>1. UNCHANGED <<tx, pending, phase, surplus, busy, todo, surplusWithdrawn, surplusRefusals>>
  BY DEF AroundRound, chain
<1>2. /\ wallet \in Int /\ drift \in Int /\ ledger \in Ledgers /\ round.spent \in Int /\ Total(ledger) \in Int
      /\ \A b \in Buckets : ledger[b] \in Nat
      /\ phase \in Phases /\ surplus \in Surpluses
  BY AmountsAre
<1>3. round'.spent \in Int /\ Total(ledger') \in Int
  <2>1. ledger' \in [Buckets -> Int]
    BY DEF Ledgers
  <2>2. QED
    BY <2>1, TotalIs DEF RoundType
<1>4. wallet' - Total(ledger') + round'.spent + drift' = wallet - Total(ledger) + round.spent + drift
  <2>1. PICK w \in Int, t \in Int, s \in Int, d \in Int :
           w = wallet /\ t = Total(ledger) /\ s = round.spent /\ d = drift
    BY <1>2
  <2>2. PICK w1 \in Int, t1 \in Int, s1 \in Int, d1 \in Int :
           w1 = wallet' /\ t1 = Total(ledger') /\ s1 = round'.spent /\ d1 = drift'
    BY <1>3
  <2>3. (w1 - w) + (s1 - s) + (d1 - d) = t1 - t
    BY <2>1, <2>2
  <2>4. w1 - t1 + s1 + d1 = w - t + s + d
    BY <2>3
  <2>5. QED
    BY <2>1, <2>2, <2>4
<1>5. \A b \in SpendBuckets : ledger'[b] >= ledger[b]
  <2>1. \A b \in SpendBuckets : ledger[b] \in Nat
    BY <1>2, BucketOfIs
  <2>2. QED
    BY <2>1
<1>6. Withdrawal'
  BY <1>1, WithdrawalStays
<1>7. phase' \in Phases /\ surplus' \in Surpluses /\ busy' = busy /\ todo' = todo /\ UNCHANGED <<tx, pending>>
  BY <1>1, <1>2
<1>8. QED
  BY <1>4, <1>5, <1>6, <1>7, Motion

(* A round's reserve leaves the pot for the operations bucket. *)
LEMMA ReserveAmounts ==
    ASSUME IInv, AmountInv, Reserve
    PROVE  AmountInv'
<1> DEFINE x == ledger["basket"] \div 2
<1>1. /\ AroundRound /\ ~round.open /\ wallet' = wallet /\ drift' = drift
      /\ ledger' = [ledger EXCEPT !["basket"] = @ - x, !["operations"] = @ + x]
      /\ round' = [open |-> TRUE, reserve |-> x, budget |-> ledger["basket"] - x, spent |-> 0]
  BY DEF Reserve
<1>2. /\ wallet \in Int /\ drift \in Int /\ ledger \in Ledgers
      /\ ledger["basket"] \in Nat /\ ledger["operations"] \in Nat /\ Total(ledger) \in Int
  BY AmountsAre, BucketOfIs
<1>3. x \in Nat /\ x <= ledger["basket"]
  BY <1>2
<1>4. round.spent = 0
  BY <1>1 DEF AmountInv, RoundBacked, NoRound
<1> HIDE DEF x
<1>5. /\ ledger' \in Ledgers /\ Total(ledger') = Total(ledger)
      /\ ledger'["operations"] = ledger["operations"] + x
      /\ \A b \in SpendBuckets : ledger'[b] = ledger[b]
  <2> DEFINE l == [ledger EXCEPT !["basket"] = @ - x, !["operations"] = @ + x]
  <2>1. ledger' = l
    BY <1>1
  <2>2. l = [ledger EXCEPT !["basket"] = @ - x, !["operations"] = @ + x]
    OBVIOUS
  <2> HIDE DEF l
  <2>3. /\ l \in Ledgers /\ Total(l) = Total(ledger)
        /\ l["operations"] = ledger["operations"] + x
        /\ \A b \in SpendBuckets : l[b] = ledger[b]
    <3>1. l \in Ledgers /\ Total(l) = Total(ledger)
      BY <1>2, <1>3, <2>2, ReserveIs
    <3>2. l["operations"] = ledger["operations"] + x
      BY <1>2, <1>3, <2>2, ReserveIs
    <3>3. \A b \in SpendBuckets : l[b] = ledger[b]
      BY <1>2, <2>2, BucketOfIs DEF Ledgers
    <3>4. QED
      BY <3>1, <3>2, <3>3
  <2>4. QED
    BY <2>1, <2>3
<1>6. /\ round' \in RoundType /\ round'.spent = 0 /\ round'.open = TRUE /\ round'.reserve = x
  <2>1. ledger["basket"] - x \in Nat
    BY <1>2, <1>3
  <2>2. QED
    BY <1>1, <1>3, <2>1 DEF RoundType
<1>7. RoundBacked'
  <2>1. ledger'["operations"] >= round'.reserve
    BY <1>2, <1>3, <1>5, <1>6
  <2>2. QED
    BY <1>6, <2>1 DEF RoundBacked
<1>8. (wallet' - wallet) + (round'.spent - round.spent) + (drift' - drift) = Total(ledger') - Total(ledger)
  BY <1>1, <1>2, <1>4, <1>5, <1>6
<1>9. wallet' \in Int /\ drift' \in Int
  BY <1>1, <1>2
<1>10. QED
  BY <1>1, <1>5, <1>6, <1>7, <1>8, <1>9, RoundMotion

(* The basket is bought. *)
LEMMA PurchaseAmounts ==
    ASSUME IInv, AmountInv, Purchase
    PROVE  AmountInv'
<1> DEFINE x == round.budget
           t == Taken(ledger, "basket", x)
           l == Debit(ledger, "basket", x)
<1>1. /\ AroundRound /\ wallet' = wallet - x /\ ledger' = l /\ drift' = drift + x - t
      /\ round' = [round EXCEPT !.budget = 0]
  BY DEF Purchase
<1>2. /\ wallet \in Int /\ drift \in Int /\ ledger \in Ledgers /\ x \in Nat /\ Total(ledger) \in Int
      /\ round \in RoundType /\ round.spent \in Int
      /\ \A b \in Buckets : ledger[b] \in Nat
  BY AmountsAre
<1>3. /\ l \in Ledgers /\ t \in Nat /\ Total(l) = Total(ledger) - t
      /\ l["operations"] = ledger["operations"]
      /\ \A b \in SpendBuckets : l[b] = ledger[b]
  <2>1. /\ l \in Ledgers /\ t \in Nat /\ Total(l) = Total(ledger) - t
        /\ \A c \in Buckets \ {"basket"} : l[c] = ledger[c]
        /\ \A b \in SpendBuckets : l[b] = ledger[b]
    BY <1>2, OwnDebit
  <2>2. l["operations"] = ledger["operations"]
    BY <2>1, BucketOfIs
  <2>3. QED
    BY <2>1, <2>2
<1>4. round' \in RoundType /\ round'.spent = round.spent /\ round'.open = round.open /\ round'.reserve = round.reserve
  BY <1>1, <1>2 DEF RoundType
<1>5. RoundBacked'
  <2>1. round.open => ledger["operations"] >= round.reserve
    BY DEF AmountInv, RoundBacked
  <2>2. round.open
    <3>1. ~round.open => round.budget = 0
      BY DEF AmountInv, RoundBacked, NoRound
    <3>2. round.budget > 0
      BY DEF Purchase
    <3>3. QED
      BY <3>1, <3>2
  <2>3. ledger'["operations"] >= round'.reserve /\ round'.open
    BY <1>1, <1>3, <1>4, <2>1, <2>2
  <2>4. QED
    BY <2>3 DEF RoundBacked
<1> HIDE DEF x, t, l
<1>6. (wallet' - wallet) + (round'.spent - round.spent) + (drift' - drift) = Total(ledger') - Total(ledger)
  <2>1. Total(ledger') = Total(ledger) - t
    BY <1>1, <1>3
  <2>2. QED
    BY <1>1, <1>2, <1>3, <1>4, <2>1
<1>7. wallet' \in Int /\ drift' \in Int
  BY <1>1, <1>2, <1>3
<1>8. ledger' \in Ledgers /\ \A b \in SpendBuckets : ledger'[b] = ledger[b]
  BY <1>1, <1>3
<1>9. QED
  BY <1>1, <1>4, <1>5, <1>6, <1>7, <1>8, RoundMotion

(* A cost of a round goes on the round's record, to the basket, or is lost. *)
LEMMA ChargeTxAmounts ==
    ASSUME IInv, AmountInv, ChargeTx
    PROVE  AmountInv'
<1>1. PICK cost \in RoundCosts :
        /\ wallet' = wallet - cost
        /\ \/ /\ round.open
              /\ round' = [round EXCEPT !.spent = @ + cost]
              /\ ledger' = ledger /\ drift' = drift
           \/ /\ ~round.open
              /\ ledger' = IF cost > 0 THEN Debit(ledger, "basket", cost) ELSE [ledger EXCEPT !["basket"] = @ - cost]
              /\ drift' = IF cost > 0 THEN drift + cost - Taken(ledger, "basket", cost) ELSE drift
              /\ round' = round
           \/ /\ drift' = drift + cost
              /\ ledger' = ledger /\ round' = round
  BY DEF ChargeTx
<1>2. /\ wallet \in Int /\ drift \in Int /\ ledger \in Ledgers /\ Total(ledger) \in Int
      /\ round \in RoundType /\ round.spent \in Int /\ cost \in Int
      /\ \A b \in Buckets : ledger[b] \in Nat
  BY AmountsAre, Amounts
<1>3. AroundRound /\ RoundBacked
  BY DEF ChargeTx, AmountInv
<1>4. CASE round.open /\ round' = [round EXCEPT !.spent = @ + cost] /\ ledger' = ledger /\ drift' = drift
  <2>1. /\ round' \in RoundType /\ round'.spent = round.spent + cost
        /\ round'.open = round.open /\ round'.reserve = round.reserve
    <3>1. round.spent + cost \in Int
      BY <1>2
    <3>2. round' = [round EXCEPT !.spent = round.spent + cost]
      BY <1>4
    <3>3. QED
      BY <1>2, <3>1, <3>2 DEF RoundType
  <2>2. RoundBacked'
    BY <1>3, <1>4, <2>1 DEF RoundBacked
  <2>3. Total(ledger') = Total(ledger)
    BY <1>4
  <2>4. (wallet' - wallet) + (round'.spent - round.spent) + (drift' - drift) = Total(ledger') - Total(ledger)
    BY <1>1, <1>2, <1>4, <2>1, <2>3
  <2>5. /\ wallet' \in Int /\ drift' \in Int /\ ledger' \in Ledgers
        /\ \A b \in SpendBuckets : ledger'[b] = ledger[b]
    BY <1>1, <1>2, <1>4
  <2>6. QED
    BY <1>3, <2>1, <2>2, <2>4, <2>5, RoundMotion
<1>5. CASE drift' = drift + cost /\ ledger' = ledger /\ round' = round
  <2>1. RoundBacked'
    BY <1>3, <1>5 DEF RoundBacked, NoRound
  <2>2. Total(ledger') = Total(ledger) /\ round'.spent = round.spent
    BY <1>5
  <2>3. (wallet' - wallet) + (round'.spent - round.spent) + (drift' - drift) = Total(ledger') - Total(ledger)
    BY <1>1, <1>2, <1>5, <2>2
  <2>4. /\ wallet' \in Int /\ drift' \in Int /\ ledger' \in Ledgers /\ round' \in RoundType
        /\ \A b \in SpendBuckets : ledger'[b] = ledger[b]
    BY <1>1, <1>2, <1>5
  <2>5. QED
    BY <1>3, <2>1, <2>3, <2>4, RoundMotion
<1>6. CASE /\ round' = round /\ ~round.open
           /\ ledger' = IF cost > 0 THEN Debit(ledger, "basket", cost) ELSE [ledger EXCEPT !["basket"] = @ - cost]
           /\ drift' = IF cost > 0 THEN drift + cost - Taken(ledger, "basket", cost) ELSE drift
  <2>1. round'.spent = round.spent /\ round' \in RoundType /\ wallet' \in Int
    BY <1>1, <1>2, <1>6
  <2>2. RoundBacked'
    <3>1. round = NoRound
      BY <1>3, <1>6 DEF RoundBacked
    <3>2. round' = NoRound /\ ~round'.open
      BY <1>6, <3>1
    <3>3. QED
      BY <3>2 DEF RoundBacked, NoRound
  <2>3. /\ ledger' \in Ledgers /\ drift' \in Int
        /\ (wallet' - wallet) + (drift' - drift) = Total(ledger') - Total(ledger)
        /\ \A b \in SpendBuckets : ledger'[b] = ledger[b]
    <3>1. CASE cost > 0
      <4> DEFINE t == Taken(ledger, "basket", cost)
                 l == Debit(ledger, "basket", cost)
      <4>1. cost \in Nat /\ ledger' = l /\ drift' = drift + cost - t
        BY <1>2, <1>6, <3>1
      <4>2. l \in Ledgers /\ t \in Nat /\ Total(l) = Total(ledger) - t /\ \A b \in SpendBuckets : l[b] = ledger[b]
        BY <1>2, <4>1, OwnDebit
      <4> HIDE DEF t, l
      <4>3. Total(ledger') = Total(ledger) - t
        BY <4>1, <4>2
      <4>4. drift' \in Int /\ (wallet' - wallet) + (drift' - drift) = Total(ledger') - Total(ledger)
        BY <1>1, <1>2, <4>1, <4>2, <4>3
      <4>5. QED
        BY <4>1, <4>2, <4>4
    <3>2. CASE ~(cost > 0)
      <4> DEFINE y == ledger["basket"] - cost
                 l == [ledger EXCEPT !["basket"] = y]
      <4>1. ledger' = l /\ drift' = drift
        BY <1>6, <3>2
      <4>2. y \in Nat /\ "basket" \in Buckets /\ ledger["basket"] \in Int /\ y \in Int
        BY <1>2, <3>2, BucketOfIs
      <4>3. \A f \in [Buckets -> Int] : \A b \in Buckets, z \in Int : Total([f EXCEPT ![b] = z]) = Total(f) + (z - f[b])
        BY TotalChange
      <4>4. ledger \in [Buckets -> Int] /\ ledger \in [Buckets -> Nat]
        BY <1>2 DEF Ledgers
      <4>5. Total(l) = Total(ledger) + (y - ledger["basket"])
        <5> HIDE DEF y
        <5>1. QED
          BY <4>2, <4>3, <4>4
      <4>6. l \in Ledgers
        <5> HIDE DEF y
        <5>1. QED
          BY <4>2, <4>4 DEF Ledgers
      <4>7. \A b \in SpendBuckets : l[b] = ledger[b]
        BY <4>4, BucketOfIs
      <4> HIDE DEF l
      <4>8. Total(ledger') = Total(ledger) - cost
        BY <1>2, <4>1, <4>2, <4>5
      <4>9. (wallet' - wallet) + (drift' - drift) = Total(ledger') - Total(ledger)
        BY <1>1, <1>2, <4>1, <4>8
      <4>10. QED
        BY <1>2, <4>1, <4>6, <4>7, <4>9
    <3>3. QED
      BY <3>1, <3>2
  <2>4. (wallet' - wallet) + (round'.spent - round.spent) + (drift' - drift) = Total(ledger') - Total(ledger)
    <3>1. PICK w \in Int, d \in Int, s \in Int :
             w = wallet' - wallet /\ d = drift' - drift /\ s = round.spent
      <4>1. wallet' - wallet \in Int /\ drift' - drift \in Int /\ round.spent \in Int
        BY <1>2, <2>1, <2>3
      <4>2. QED
        BY <4>1
    <3>2. w + (s - s) + d = w + d
      OBVIOUS
    <3>3. QED
      BY <2>1, <2>3, <3>1, <3>2
  <2>5. QED
    BY <1>3, <2>1, <2>2, <2>3, <2>4, RoundMotion
<1>7. QED
  BY <1>1, <1>4, <1>5, <1>6

(* The reserve returns what the round did not cost, and the pot bears what it cost more. *)
LEMMA FinishRoundAmounts ==
    ASSUME IInv, AmountInv, FinishRound
    PROVE  AmountInv'
<1> DEFINE r == round.reserve
           s == round.spent
           k == Debit(ledger, "operations", r)
<1>1. /\ AroundRound /\ round.open /\ wallet' = wallet /\ round' = NoRound
      /\ ledger' = ReconcileReserve(ledger, r, s)
      /\ drift' = drift + Max({0, s - r - ledger["basket"]})
  BY DEF FinishRound
<1>2. /\ wallet \in Int /\ drift \in Int /\ ledger \in Ledgers /\ r \in Nat /\ s \in Int /\ Total(ledger) \in Int
      /\ ledger["basket"] \in Nat /\ ledger["operations"] \in Nat
  BY AmountsAre, BucketOfIs
<1>3. r <= ledger["operations"]
  <2>1. ledger["operations"] >= r
    BY <1>1 DEF AmountInv, RoundBacked
  <2>2. QED
    BY <1>2, <2>1
<1>4. /\ Taken(ledger, "operations", r) = r
      /\ k \in Ledgers /\ k["basket"] = ledger["basket"] /\ Total(k) = Total(ledger) - r
      /\ \A b \in SpendBuckets : k[b] = ledger[b]
  <2>1. /\ Taken(ledger, "operations", r) = IF r <= ledger["operations"] THEN r ELSE ledger["operations"]
        /\ k \in Ledgers
        /\ Total(k) = Total(ledger) - Taken(ledger, "operations", r)
        /\ \A c \in Buckets \ {"operations"} : k[c] = ledger[c]
        /\ \A b \in SpendBuckets : k[b] = ledger[b]
    BY <1>2, OwnDebit
  <2>2. k["basket"] = ledger["basket"]
    BY <2>1, BucketOfIs
  <2>3. QED
    BY <1>3, <2>1, <2>2
<1>5. ledger' = IF s <= r THEN [k EXCEPT !["basket"] = @ + r - s] ELSE Debit(k, "basket", s - r)
  BY <1>1, <1>4 DEF ReconcileReserve
<1>6. Max({0, s - r - ledger["basket"]}) = IF 0 >= s - r - ledger["basket"] THEN 0 ELSE s - r - ledger["basket"]
  BY <1>2, MaxOfTwo
<1>7. round' \in RoundType /\ round'.spent = 0 /\ ~round'.open
  BY <1>1 DEF NoRound, RoundType
<1> HIDE DEF r, s, k
<1>8. /\ ledger' \in Ledgers /\ drift' \in Int
      /\ (drift' - drift) - s = Total(ledger') - Total(ledger)
      /\ \A b \in SpendBuckets : ledger'[b] = ledger[b]
  <2>1. CASE s <= r
    <3> DEFINE y == k["basket"] + r - s
               l == [k EXCEPT !["basket"] = y]
    <3>1. ledger' = l
      BY <1>5, <2>1
    <3>2. y \in Nat /\ "basket" \in Buckets /\ k["basket"] \in Int /\ y \in Int
      BY <1>2, <1>4, <2>1, BucketOfIs
    <3>3. \A f \in [Buckets -> Int] : \A b \in Buckets, z \in Int : Total([f EXCEPT ![b] = z]) = Total(f) + (z - f[b])
      BY TotalChange
    <3>4. k \in [Buckets -> Int] /\ k \in [Buckets -> Nat]
      BY <1>4 DEF Ledgers
    <3>5. Total(l) = Total(k) + (y - k["basket"])
      <4> HIDE DEF y
      <4>1. QED
        BY <3>2, <3>3, <3>4
    <3>6. l \in Ledgers
      <4> HIDE DEF y
      <4>1. QED
        BY <3>2, <3>4 DEF Ledgers
    <3>7. \A b \in SpendBuckets : l[b] = ledger[b]
      BY <1>4, <3>4, BucketOfIs
    <3> HIDE DEF l
    <3>8. Total(ledger') = Total(ledger) - s
      BY <1>2, <1>4, <3>1, <3>2, <3>5
    <3>9. drift' = drift
      BY <1>1, <1>2, <1>6, <2>1
    <3>10. (drift' - drift) - s = Total(ledger') - Total(ledger)
      BY <1>2, <3>8, <3>9
    <3>11. QED
      BY <1>2, <3>1, <3>6, <3>7, <3>9, <3>10
  <2>2. CASE ~(s <= r)
    <3> DEFINE x == s - r
               t == Taken(k, "basket", x)
               l == Debit(k, "basket", x)
    <3>1. x \in Nat /\ ledger' = l
      BY <1>2, <1>5, <2>2
    <3> HIDE DEF x
    <3>2. /\ t = IF x <= k["basket"] THEN x ELSE k["basket"]
          /\ l \in Ledgers /\ t \in Nat /\ Total(l) = Total(k) - t
          /\ \A b \in SpendBuckets : l[b] = k[b]
      BY <1>4, <3>1, OwnDebit
    <3> HIDE DEF t, l
    <3>3. Total(ledger') = Total(ledger) - r - t
      BY <1>2, <1>4, <3>1, <3>2
    <3>4. drift' = drift + (IF 0 >= x - ledger["basket"] THEN 0 ELSE x - ledger["basket"])
      BY <1>1, <1>6 DEF x
    <3>5. drift' \in Int /\ (drift' - drift) - s = Total(ledger') - Total(ledger)
      BY <1>2, <1>4, <3>1, <3>2, <3>3, <3>4 DEF x
    <3>6. QED
      BY <1>4, <3>1, <3>2, <3>5
  <2>3. QED
    BY <2>1, <2>2
<1>9. RoundBacked'
  BY <1>1, <1>7 DEF RoundBacked, NoRound
<1>10. (wallet' - wallet) + (round'.spent - round.spent) + (drift' - drift) = Total(ledger') - Total(ledger)
  <2>1. PICK d \in Int : d = drift' - drift
    <3>1. drift' - drift \in Int
      BY <1>2, <1>8
    <3>2. QED
      BY <3>1
  <2>2. (wallet' - wallet) + (round'.spent - round.spent) + d = d - s
    <3>1. wallet' = wallet /\ round'.spent = 0 /\ round.spent = s
      BY <1>1, <1>7 DEF s
    <3>2. QED
      BY <1>2, <3>1
  <2>3. QED
    BY <1>8, <2>1, <2>2
<1>11. wallet' \in Int
  BY <1>1, <1>2
<1>12. QED
  BY <1>1, <1>7, <1>8, <1>9, <1>10, <1>11, RoundMotion

(* What is in transit after a step, as a sum over the function of the state before. *)
LEMMA TransitAfter ==
    ASSUME IInv, AmountTyped, pending' \subseteq Numbers,
           \A n \in Numbers : tx'[n].state = "landed" => tx'[n].effect = tx[n].effect
    PROVE  InTransit' = SumFunctionOnSet(Effects, {n \in pending' : tx'[n].state = "landed"})
<1> DEFINE L == {n \in pending' : tx'[n].state = "landed"}
           f == [n \in L |-> tx'[n].effect]
<1>1. InTransit' = SumFunction(f)
  BY DEF InTransit
<1>2. SumFunction(f) = SumFunctionOnSet(f, L)
  BY DEF SumFunction
<1>3. IsFiniteSet(L)
  <2>1. L \in SUBSET Numbers
    OBVIOUS
  <2> HIDE DEF L
  <2>2. QED
    BY <2>1, NumbersFinite
<1>4. \A n \in L : f[n] = Effects[n]
  BY DEF Effects
<1> HIDE DEF f, L
<1>5. SumFunctionOnSet(f, L) = SumFunctionOnSet(Effects, L)
  BY <1>3, <1>4, SumSame
<1>6. QED
  BY <1>1, <1>2, <1>5 DEF L

(* Nothing lands and nothing landed leaves the journal. *)
LEMMA SameTransit ==
    ASSUME IInv, AmountTyped, pending' \subseteq Numbers,
           \A n \in Numbers : tx'[n].state = "landed" => tx'[n].effect = tx[n].effect,
           {n \in pending' : tx'[n].state = "landed"} = Landed
    PROVE  InTransit' = InTransit
BY TransitAfter, InTransitIs

(***************************************************************************)
(* A step of the network, of time or of the journal's settling: what it    *)
(* signed a transaction keeps, and a bucket that loses SOL has no spend    *)
(* under way left.                                                         *)
(***************************************************************************)
Onward(t, u) ==
    /\ u.label = t.label /\ u.effect = t.effect /\ u.planned = t.planned
    /\ (u.state = "none") = (t.state = "none")
    /\ (u.state = "unsent") = (t.state = "unsent")
    /\ u.state \in {"flying", "landed"} => t.state \in {"flying", "landed"}

JournalStep ==
    /\ pending' \subseteq pending /\ Signed' = Signed
    /\ \A n \in Numbers : Onward(tx[n], tx'[n])
    /\ round' = round /\ phase' = phase /\ surplus' \in Surpluses
    /\ wallet' \in Int /\ drift' \in Int /\ ledger' \in Ledgers
    /\ ledger'["operations"] >= ledger["operations"]
    /\ Withdrawal' /\ Explained'
    /\ \/ busy' = "no"
       \/ busy' = busy /\ todo' = todo /\ ledger' = ledger
       \/ /\ busy = "answered" /\ busy' = "burn" /\ todo' = todo
          /\ todo[1] \in {"$FOLIO buyback", "Stonkfolio flywheel"}
    /\ \A b \in SpendBuckets :
          \/ ledger'[b] >= ledger[b]
          \/ \A n \in pending' : tx[n].label \in Spends /\ tx[n].state \in {"flying", "landed"} =>
                BucketOf[tx[n].label] # b

(* A step of the journal keeps the amounts. *)
LEMMA JournalMotion ==
    ASSUME IInv, AmountInv, JournalStep
    PROVE  AmountInv'
<1>1. AmountTyped /\ Places /\ OneSent /\ Covered /\ RoundBacked
  BY DEF AmountInv
<1>2. pending \subseteq Numbers /\ pending' \subseteq pending /\ Signed' = Signed
  BY JournalInNumbers DEF JournalStep
<1>0. \A n \in Numbers : Onward(tx[n], tx'[n])
  BY DEF JournalStep
<1>3. \A n \in Numbers :
         tx'[n].label = tx[n].label /\ tx'[n].effect = tx[n].effect /\ tx'[n].planned = tx[n].planned
  BY <1>0 DEF Onward
<1>4. /\ round' = round /\ phase' = phase /\ surplus' \in Surpluses
      /\ wallet' \in Int /\ drift' \in Int /\ ledger' \in Ledgers
      /\ Withdrawal' /\ Explained'
  BY DEF JournalStep
<1>5. \/ busy' = "no"
      \/ busy' = busy /\ todo' = todo /\ ledger' = ledger
      \/ /\ busy = "answered" /\ busy' = "burn" /\ todo' = todo
         /\ todo[1] \in {"$FOLIO buyback", "Stonkfolio flywheel"}
  BY DEF JournalStep
<1>6. AmountTyped'
  <2>1. \A n \in Numbers : tx'[n].state # "none" => tx[n].state # "none"
    BY <1>0 DEF Onward
  <2>2. QED
    BY <1>1, <1>3, <1>4, <2>1 DEF AmountTyped
<1>7. Places'
  <2>1. phase' \in {"CURVE", "AWAITING_MIGRATION", "GRADUATED"} /\ surplus' \in {"held", "out", "empty"}
    BY <1>1, <1>4 DEF Places, Surpluses
  <2>2. busy' # "no" => /\ todo' # << >> /\ todo'[1] \in Claims \cup Spends
                        /\ Signed' \in Numbers /\ tx'[Signed'].label = todo'[1]
    <3>1. SUFFICES ASSUME busy' # "no"
                   PROVE  /\ todo' # << >> /\ todo'[1] \in Claims \cup Spends
                          /\ Signed' \in Numbers /\ tx'[Signed'].label = todo'[1]
      OBVIOUS
    <3>2. busy # "no" /\ todo' = todo
      BY <1>5, <3>1
    <3>3. todo # << >> /\ todo[1] \in Claims \cup Spends /\ Signed \in Numbers /\ tx[Signed].label = todo[1]
      BY <1>1, <3>2 DEF Places
    <3>4. QED
      BY <1>2, <1>3, <3>2, <3>3
  <2>3. busy' \in {"no", "signed", "sent", "answered", "burn"}
    BY <1>1, <1>5 DEF Places
  <2>4. busy' = "burn" => todo'[1] \in {"$FOLIO buyback", "Stonkfolio flywheel"}
    BY <1>1, <1>5 DEF Places
  <2>5. QED
    BY <2>1, <2>2, <2>3, <2>4 DEF Places
<1>8. RoundBacked'
  <2>1. round.open => ledger'["operations"] >= round.reserve
    <3>1. SUFFICES ASSUME round.open PROVE ledger'["operations"] >= round.reserve
      OBVIOUS
    <3>2. ledger["operations"] >= round.reserve /\ ledger'["operations"] >= ledger["operations"]
      BY <1>1, <3>1 DEF RoundBacked, JournalStep
    <3>3. ledger["operations"] \in Nat /\ ledger'["operations"] \in Nat /\ round.reserve \in Nat
      BY <1>4, AmountsAre, BucketOfIs DEF Ledgers
    <3>4. QED
      BY <3>2, <3>3
  <2>2. QED
    BY <1>1, <1>4, <2>1 DEF RoundBacked, NoRound
<1>9. OneSent'
  <2>1. \A m, n \in pending' :
           tx'[m].label = tx'[n].label /\ tx'[m].state # "unsent" /\ tx'[n].state # "unsent" => m = n
    <3> SUFFICES ASSUME NEW m \in pending', NEW n \in pending', tx'[m].label = tx'[n].label,
                        tx'[m].state # "unsent", tx'[n].state # "unsent"
                 PROVE  m = n
      OBVIOUS
    <3>1. m \in pending /\ n \in pending /\ m \in Numbers /\ n \in Numbers
      BY <1>2
    <3>2. tx[m].label = tx[n].label /\ tx[m].state # "unsent" /\ tx[n].state # "unsent"
      BY <1>0, <3>1 DEF Onward
    <3>3. QED
      BY <1>1, <3>1, <3>2 DEF OneSent
  <2>2. busy' # "no" => \A m \in pending' : tx'[m].label = todo'[1] /\ m # Signed' => tx'[m].state = "unsent"
    <3> SUFFICES ASSUME busy' # "no", NEW m \in pending', tx'[m].label = todo'[1], m # Signed'
                 PROVE  tx'[m].state = "unsent"
      OBVIOUS
    <3>1. m \in pending /\ m \in Numbers /\ m # Signed
      BY <1>2
    <3>2. busy # "no" /\ tx[m].label = todo[1]
      BY <1>3, <1>5, <3>1
    <3>3. tx[m].state = "unsent"
      BY <1>1, <3>1, <3>2 DEF OneSent
    <3>4. QED
      BY <1>0, <3>1, <3>3 DEF Onward
  <2>3. QED
    BY <2>1, <2>2 DEF OneSent
<1>10. Covered'
  <2>1. busy' = "signed" /\ todo'[1] \in Spends => tx'[Signed'].planned <= ledger'[BucketOf[todo'[1]]]
    <3>1. SUFFICES ASSUME busy' = "signed", todo'[1] \in Spends
                   PROVE  tx'[Signed'].planned <= ledger'[BucketOf[todo'[1]]]
      OBVIOUS
    <3>2. busy = "signed" /\ todo' = todo /\ ledger' = ledger
      BY <1>5, <3>1
    <3>3. Signed \in Numbers /\ tx[Signed].planned <= ledger[BucketOf[todo[1]]]
      BY <1>1, <3>1, <3>2 DEF Covered, Places
    <3>4. QED
      BY <1>2, <1>3, <3>2, <3>3
  <2>2. ASSUME NEW n \in pending', tx'[n].label \in Spends, tx'[n].state \in {"flying", "landed"}
        PROVE  ledger'[BucketOf[tx'[n].label]] >= tx'[n].planned - (IF busy' # "no" /\ n = Signed' THEN 0 ELSE Fee)
    <3> DEFINE b == BucketOf[tx[n].label]
    <3>1. n \in pending /\ n \in Numbers
      BY <1>2
    <3>2. /\ tx[n].label \in Spends /\ tx[n].state \in {"flying", "landed"}
          /\ tx'[n].label = tx[n].label /\ tx'[n].planned = tx[n].planned
      BY <1>0, <2>2, <3>1 DEF Onward
    <3>3. b \in SpendBuckets /\ Fee \in Nat /\ tx[n].planned \in Int
      BY <1>1, <3>1, <3>2, BucketOfIs, Amounts DEF AmountTyped
    <3>4. ledger[b] \in Nat /\ ledger'[b] \in Nat
      BY <1>1, <1>4, <3>3, BucketOfIs DEF AmountTyped, Ledgers
    <3>5. ledger'[b] >= ledger[b]
      BY <2>2, <3>2, <3>3 DEF JournalStep
    <3>6. ledger[b] >= tx[n].planned - (IF busy # "no" /\ n = Signed THEN 0 ELSE Fee)
      BY <1>1, <3>1, <3>2 DEF Covered, Spared
    <3>7. busy' # "no" => busy # "no"
      BY <1>5
    <3> HIDE DEF b
    <3>8. ledger'[b] >= tx[n].planned - (IF busy' # "no" /\ n = Signed THEN 0 ELSE Fee)
      BY <3>3, <3>4, <3>5, <3>6, <3>7
    <3>9. QED
      BY <1>2, <3>2, <3>8 DEF b
  <2>3. QED
    BY <2>1, <2>2 DEF Covered, Spared
<1>11. QED
  BY <1>4, <1>6, <1>7, <1>8, <1>9, <1>10 DEF AmountInv

(* The network decides, and its fee is lost when it fails. *)
LEMMA ArriveAmounts ==
    ASSUME IInv, AmountInv, NEW n \in Numbers, Arrive(n)
    PROVE  AmountInv'
<1>1. PICK s \in {"landed", "failed"} : tx' = [tx EXCEPT ![n].state = s]
  BY DEF Arrive
<1>2. tx[n].state = "flying" /\ n \in pending /\ pending \subseteq Numbers
  BY JournalInNumbers DEF Arrive, IInv, CanLand
<1>3. UNCHANGED <<phase, ledger, pending, round, surplusWithdrawn, surplusRefusals, busy, todo>>
  BY DEF Arrive, disk
<1>4. /\ tx'[n] = [tx[n] EXCEPT !.state = s]
      /\ \A m \in Numbers \ {n} : tx'[m] = tx[m]
  BY <1>1 DEF IInv, Typed
<1>5. /\ tx'[n].state = s /\ tx'[n].label = tx[n].label
      /\ tx'[n].effect = tx[n].effect /\ tx'[n].planned = tx[n].planned
  BY <1>4 DEF IInv, Typed, IsTx
<1>6. Signed' = Signed
  BY <1>2, <1>4, <1>5, SameCount
<1>7. /\ wallet \in Int /\ drift \in Int /\ ledger \in Ledgers /\ round.spent \in Int /\ Total(ledger) \in Int
      /\ \A b \in Buckets : ledger[b] \in Nat
      /\ surplus \in Surpluses
  BY AmountsAre
<1>8. /\ AmountTyped /\ tx[n].effect \in Int /\ Fee \in Nat /\ InTransit \in Int
      /\ Landed \subseteq Numbers /\ IsFiniteSet(Landed)
      /\ InTransit = SumFunctionOnSet(Effects, Landed)
  BY InTransitIs, Amounts DEF AmountInv, AmountTyped
<1>9. surplus' \in Surpluses
  BY <1>7 DEF Arrive, Surpluses
<1>10. \/ s = "landed" /\ wallet' = wallet + tx[n].effect /\ drift' = drift
       \/ s = "failed" /\ wallet' = wallet - Fee /\ drift' = drift + Fee
  <2>1. tx'[n].state = s
    BY <1>5
  <2>2. CASE tx' = [tx EXCEPT ![n].state = "landed"] /\ wallet' = wallet + tx[n].effect /\ drift' = drift
    <3>1. tx'[n].state = "landed"
      BY <2>2 DEF IInv, Typed, IsTx
    <3>2. QED
      BY <2>1, <2>2, <3>1
  <2>3. CASE tx' = [tx EXCEPT ![n].state = "failed"] /\ wallet' = wallet - Fee /\ drift' = drift + Fee
    <3>1. tx'[n].state = "failed"
      BY <2>3 DEF IInv, Typed, IsTx
    <3>2. QED
      BY <2>1, <2>3, <3>1
  <2>4. QED
    BY <2>2, <2>3 DEF Arrive
<1>17. wallet' \in Int /\ drift' \in Int
  BY <1>7, <1>8, <1>10
<1>11. InTransit' = IF s = "landed" THEN tx[n].effect + InTransit ELSE InTransit
  <2> DEFINE L == {m \in pending' : tx'[m].state = "landed"}
  <2>1. InTransit' = SumFunctionOnSet(Effects, L)
    <3>1. pending' \subseteq Numbers /\ \A m \in Numbers : tx'[m].effect = tx[m].effect
      BY <1>2, <1>3, <1>4, <1>5
    <3>2. QED
      BY <1>8, <3>1, TransitAfter
  <2>2. n \notin Landed
    BY <1>2 DEF Landed
  <2>3. CASE s = "landed"
    <3>1. L = Landed \cup {n}
      BY <1>2, <1>3, <1>4, <1>5, <2>3 DEF Landed
    <3> HIDE DEF L
    <3>2. \A m \in Landed \cup {n} : Effects[m] \in Int
      BY <1>8 DEF Effects, AmountTyped
    <3>3. SumFunctionOnSet(Effects, Landed \cup {n}) = Effects[n] + SumFunctionOnSet(Effects, Landed)
      BY <1>8, <2>2, <3>2, SumAdd
    <3>4. Effects[n] = tx[n].effect
      BY DEF Effects
    <3>5. QED
      BY <1>8, <2>1, <2>3, <3>1, <3>3, <3>4
  <2>4. CASE s = "failed"
    <3>1. L = Landed
      BY <1>2, <1>3, <1>4, <1>5, <2>4 DEF Landed
    <3> HIDE DEF L
    <3>2. QED
      BY <1>8, <2>1, <2>4, <3>1
  <2>5. QED
    BY <2>3, <2>4
<1>12. Explained'
  <2>1. wallet = Total(ledger) + InTransit - round.spent - drift
    BY DEF AmountInv, Explained
  <2>2. wallet' = Total(ledger) + InTransit' - round.spent - drift'
    <3>1. CASE s = "landed"
      BY <1>7, <1>8, <1>10, <1>11, <2>1, <3>1
    <3>2. CASE s = "failed"
      BY <1>7, <1>8, <1>10, <1>11, <2>1, <3>2
    <3>3. QED
      BY <3>1, <3>2
  <2>3. QED
    BY <1>3, <2>2 DEF Explained
<1>13. Withdrawal'
  BY <1>3, WithdrawalStays
<1>14. \A m \in Numbers : Onward(tx[m], tx'[m])
  <2>1. Onward(tx[n], tx'[n])
    BY <1>2, <1>5 DEF Onward
  <2>2. \A m \in Numbers \ {n} : Onward(tx[m], tx'[m])
    BY <1>4 DEF Onward
  <2>3. QED
    BY <2>1, <2>2
<1>15. /\ ledger' \in Ledgers /\ ledger'["operations"] >= ledger["operations"]
       /\ \A b \in SpendBuckets : ledger'[b] >= ledger[b]
  <2>1. \A b \in Buckets : ledger'[b] >= ledger[b]
    BY <1>3, <1>7
  <2>2. QED
    BY <1>3, <1>7, <2>1, BucketOfIs
<1>16. QED
  <2>1. JournalStep
    BY <1>3, <1>6, <1>9, <1>12, <1>13, <1>14, <1>15, <1>17 DEF JournalStep
  <2>2. QED
    BY <2>1, JournalMotion

(* Time ages what is in the journal. *)
LEMMA TimePassesAmounts ==
    ASSUME IInv, AmountInv, TimePasses
    PROVE  AmountInv'
<1>1. /\ tx' = [n \in Numbers |-> IF n \in pending THEN Older(tx[n]) ELSE tx[n]]
      /\ UNCHANGED <<phase, surplus, wallet, drift, ledger, pending, round, surplusWithdrawn, surplusRefusals,
                     busy, todo>>
  BY DEF TimePasses, disk, chain
<1>2. \A n \in Numbers : tx'[n] = IF n \in pending THEN Older(tx[n]) ELSE tx[n]
  BY <1>1
<1>3. \A n \in Numbers : tx'[n].label = tx[n].label /\ tx'[n].effect = tx[n].effect
                         /\ tx'[n].planned = tx[n].planned /\ tx'[n].state = tx[n].state
  <2> SUFFICES ASSUME NEW n \in Numbers
               PROVE  tx'[n].label = tx[n].label /\ tx'[n].effect = tx[n].effect
                         /\ tx'[n].planned = tx[n].planned /\ tx'[n].state = tx[n].state
    OBVIOUS
  <2>1. IsTx(tx[n])
    BY DEF IInv, Typed
  <2> DEFINE a == Min({tx[n].age + 1, MaxAge})
             c == IF tx[n].state \in {"landed", "failed"} THEN Min({tx[n].since + 1, Lag + 1}) ELSE tx[n].since
  <2>2. Older(tx[n]) = [tx[n] EXCEPT !.age = a, !.since = c]
    BY DEF Older
  <2> HIDE DEF a, c
  <2>3. QED
    BY <1>2, <2>1, <2>2 DEF IsTx
<1>4. Signed' = Signed
  BY <1>3, SameCount
<1>5. /\ wallet \in Int /\ drift \in Int /\ ledger \in Ledgers
      /\ \A b \in Buckets : ledger[b] \in Nat
      /\ surplus \in Surpluses
  BY AmountsAre
<1>6. InTransit' = InTransit
  <2>1. pending' \subseteq Numbers /\ AmountTyped
    BY <1>1, JournalInNumbers DEF AmountInv
  <2>2. {n \in pending' : tx'[n].state = "landed"} = Landed
    BY <1>1, <1>3, JournalInNumbers DEF Landed
  <2>3. QED
    BY <1>3, <2>1, <2>2, SameTransit
<1>7. Explained'
  BY <1>1, <1>6 DEF AmountInv, Explained
<1>8. Withdrawal'
  BY <1>1, WithdrawalStays
<1>9. /\ ledger' \in Ledgers /\ ledger'["operations"] >= ledger["operations"]
      /\ \A b \in SpendBuckets : ledger'[b] >= ledger[b]
  <2>1. \A b \in Buckets : ledger'[b] >= ledger[b]
    BY <1>1, <1>5
  <2>2. QED
    BY <1>1, <1>5, <2>1, BucketOfIs
<1>10. wallet' \in Int /\ drift' \in Int /\ surplus' \in Surpluses
  BY <1>1, <1>5
<1>11. QED
  <2>1. JournalStep
    <3>1. \A n \in Numbers : Onward(tx[n], tx'[n])
      BY <1>3 DEF Onward
    <3>2. QED
      BY <1>1, <1>4, <1>7, <1>8, <1>9, <1>10, <3>1 DEF JournalStep
  <2>2. QED
    BY <2>1, JournalMotion

(* A signed transaction is sent. *)
LEMMA SendAmounts ==
    ASSUME IInv, AmountInv, Send
    PROVE  AmountInv'
<1> DEFINE n == Signed
<1>1. /\ busy = "signed" /\ busy' = "sent" /\ tx' = [tx EXCEPT ![n].state = "flying"]
      /\ UNCHANGED <<phase, surplus, wallet, drift, ledger, pending, round, surplusWithdrawn, surplusRefusals, todo>>
  BY DEF Send, disk, chain
<1>2. n \in Numbers /\ tx[n].state = "unsent" /\ pending \subseteq Numbers
  BY <1>1, JournalInNumbers DEF IInv, SignedIsUnsent
<1>3. /\ tx'[n] = [tx[n] EXCEPT !.state = "flying"]
      /\ \A m \in Numbers \ {n} : tx'[m] = tx[m]
  BY <1>1, <1>2 DEF IInv, Typed
<1>4. /\ tx'[n].state = "flying" /\ tx'[n].label = tx[n].label
      /\ tx'[n].effect = tx[n].effect /\ tx'[n].planned = tx[n].planned
  BY <1>2, <1>3 DEF IInv, Typed, IsTx
<1>5. Signed' = Signed
  BY <1>2, <1>3, <1>4, SameCount
<1>6. AmountTyped /\ Places /\ OneSent /\ Covered /\ RoundBacked /\ Explained
  BY DEF AmountInv
<1>7. \A m \in Numbers :
         tx'[m].label = tx[m].label /\ tx'[m].effect = tx[m].effect /\ tx'[m].planned = tx[m].planned
  BY <1>3, <1>4
<1>8. AmountTyped'
  <2>1. \A m \in Numbers : tx'[m].state # "none" => tx[m].state # "none"
    BY <1>2, <1>3, <1>4
  <2>2. QED
    BY <1>1, <1>6, <1>7, <2>1 DEF AmountTyped
<1>9. todo # << >> /\ todo[1] \in Claims \cup Spends /\ tx[n].label = todo[1]
  BY <1>1, <1>6 DEF Places
<1>10. Places'
  <2>1. phase' \in {"CURVE", "AWAITING_MIGRATION", "GRADUATED"} /\ surplus' \in {"held", "out", "empty"}
    BY <1>1, <1>6 DEF Places
  <2>2. todo' # << >> /\ todo'[1] \in Claims \cup Spends /\ Signed' \in Numbers /\ tx'[Signed'].label = todo'[1]
    BY <1>1, <1>2, <1>4, <1>5, <1>9
  <2>3. QED
    BY <1>1, <2>1, <2>2 DEF Places
<1>11. InTransit' = InTransit
  <2>1. {m \in pending' : tx'[m].state = "landed"} = Landed
    BY <1>1, <1>2, <1>3, <1>4 DEF Landed
  <2>2. pending' \subseteq Numbers
    BY <1>1, <1>2
  <2>3. QED
    BY <1>6, <1>7, <2>1, <2>2, SameTransit
<1>12. Explained'
  BY <1>1, <1>6, <1>11 DEF Explained
<1>13. RoundBacked' /\ Withdrawal'
  <2>1. RoundBacked'
    BY <1>1, <1>6 DEF RoundBacked, NoRound
  <2>2. QED
    BY <1>1, <2>1, WithdrawalStays
<1>14. \A m \in pending : tx[m].label = todo[1] /\ m # n => tx'[m].state = "unsent"
  <2> SUFFICES ASSUME NEW m \in pending, tx[m].label = todo[1], m # n
               PROVE  tx'[m].state = "unsent"
    OBVIOUS
  <2>1. tx[m].state = "unsent"
    BY <1>1, <1>6 DEF OneSent
  <2>2. QED
    BY <1>2, <1>3, <2>1
<1>15. OneSent'
  <2>1. \A m, k \in pending' :
           tx'[m].label = tx'[k].label /\ tx'[m].state # "unsent" /\ tx'[k].state # "unsent" => m = k
    <3> SUFFICES ASSUME NEW m \in pending', NEW k \in pending', tx'[m].label = tx'[k].label,
                        tx'[m].state # "unsent", tx'[k].state # "unsent"
                 PROVE  m = k
      OBVIOUS
    <3>1. m \in pending /\ k \in pending /\ m \in Numbers /\ k \in Numbers
      BY <1>1, <1>2
    <3>2. tx[m].label = tx[k].label
      BY <1>7, <3>1
    <3>3. CASE m = n
      BY <1>9, <1>14, <3>1, <3>2, <3>3
    <3>4. CASE k = n
      BY <1>9, <1>14, <3>1, <3>2, <3>4
    <3>5. CASE m # n /\ k # n
      <4>1. tx[m].state # "unsent" /\ tx[k].state # "unsent"
        BY <1>3, <3>1, <3>5
      <4>2. QED
        BY <1>6, <3>1, <3>2, <4>1 DEF OneSent
    <3>6. QED
      BY <3>3, <3>4, <3>5
  <2>2. \A m \in pending' : tx'[m].label = todo'[1] /\ m # Signed' => tx'[m].state = "unsent"
    <3> SUFFICES ASSUME NEW m \in pending', tx'[m].label = todo'[1], m # Signed'
                 PROVE  tx'[m].state = "unsent"
      OBVIOUS
    <3>1. m \in pending /\ m \in Numbers /\ m # n
      BY <1>1, <1>2, <1>5
    <3>2. tx[m].label = todo[1]
      BY <1>1, <1>7, <3>1
    <3>3. QED
      BY <1>14, <3>1, <3>2
  <2>3. QED
    BY <2>1, <2>2 DEF OneSent
<1>16. Covered'
  <2>1. ASSUME NEW m \in pending', tx'[m].label \in Spends, tx'[m].state \in {"flying", "landed"}
        PROVE  ledger'[BucketOf[tx'[m].label]] >= tx'[m].planned - (IF busy' # "no" /\ m = Signed' THEN 0 ELSE Fee)
    <3>1. m \in pending /\ m \in Numbers /\ tx[m].label \in Spends
          /\ tx'[m].label = tx[m].label /\ tx'[m].planned = tx[m].planned
      BY <1>1, <1>2, <1>7, <2>1
    <3> DEFINE b == BucketOf[tx[m].label]
               p == tx[m].planned
    <3>2. b \in SpendBuckets /\ p \in Int /\ ledger[b] \in Nat
      BY <1>6, <3>1, BucketOfIs DEF AmountTyped, Ledgers
    <3>3. ledger[b] >= p - (IF busy' # "no" /\ m = n THEN 0 ELSE Fee)
      <4>1. CASE m = n
        <5>1. todo[1] \in Spends /\ tx[m].label = todo[1]
          BY <1>9, <3>1, <4>1
        <5>2. p <= ledger[b]
          BY <1>1, <1>6, <4>1, <5>1 DEF Covered
        <5> HIDE DEF p, b
        <5>3. QED
          BY <1>1, <3>2, <4>1, <5>2
      <4>2. CASE m # n
        <5>1. tx[m].state \in {"flying", "landed"}
          BY <1>3, <2>1, <3>1, <4>2
        <5>2. ledger[b] >= p - Spared(m)
          BY <1>6, <3>1, <5>1 DEF Covered
        <5>3. Spared(m) = Fee
          BY <4>2 DEF Spared
        <5> HIDE DEF p, b
        <5>4. QED
          BY <4>2, <5>2, <5>3
      <4>3. QED
        BY <4>1, <4>2
    <3>4. ledger' = ledger /\ Signed' = n
      BY <1>1, <1>5
    <3>5. QED
      BY <3>1, <3>3, <3>4
  <2>2. busy' # "signed"
    BY <1>1
  <2>3. QED
    BY <2>1, <2>2 DEF Covered, Spared
<1>17. QED
  BY <1>8, <1>10, <1>12, <1>13, <1>15, <1>16 DEF AmountInv

(***************************************************************************)
(* What is journaled is not sent yet, so at most one of a label is sent    *)
(* as long as none with it was before, and a spend's bucket covers it.     *)
(***************************************************************************)
Journaled(label, plan) ==
    /\ label \in Claims \cup Spends /\ todo # << >> /\ todo[1] = label
    /\ plan.effect \in Int /\ plan.planned \in Int
    /\ label \in Spends => plan.effect <= 0 /\ plan.planned <= ledger[BucketOf[label]]
    /\ \A n \in pending : tx[n].label = label => tx[n].state = "unsent"
    /\ label = "partner surplus" => ~surplusWithdrawn

(* Signing keeps the amounts. *)
LEMMA JournalAmounts ==
    ASSUME IInv, AmountInv, NEW label, NEW plan, Signed < MaxSends, Journal(label, plan), Journaled(label, plan)
    PROVE  AmountInv'
<1> DEFINE new == Signed + 1
<1>1. new \in Numbers /\ Signed \in Nat
  BY Times DEF IInv, Numbered, Numbers
<1>2. /\ tx' = [tx EXCEPT ![new] = [Unsigned EXCEPT !.label = label, !.state = "unsent",
                                                    !.effect = plan.effect, !.planned = plan.planned]]
      /\ pending' = pending \cup {new} /\ busy' = "signed"
      /\ UNCHANGED <<phase, surplus, wallet, drift, ledger, round, surplusWithdrawn, surplusRefusals, todo>>
  BY DEF Journal, chain
<1>3. /\ tx'[new] = [label |-> label, state |-> "unsent", effect |-> plan.effect, planned |-> plan.planned,
                     age |-> 0, since |-> 0]
      /\ \A n \in Numbers \ {new} : tx'[n] = tx[n]
  BY <1>1, <1>2 DEF IInv, Typed, Unsigned
<1>4. /\ tx'[new].state = "unsent" /\ tx'[new].label = label
      /\ tx'[new].effect = plan.effect /\ tx'[new].planned = plan.planned
  BY <1>3
<1>5. new \notin pending /\ pending \subseteq Numbers
  BY <1>1, JournalInNumbers DEF IInv, Typed
<1>6. Signed' = new
  <2>1. \A n \in Numbers : tx'[n].state # "none" <=> n <= new
    BY <1>1, <1>3, <1>4 DEF IInv, Numbered, Numbers
  <2>2. new \in 0 .. MaxSends
    BY <1>1 DEF Numbers
  <2>3. Cardinality({n \in Numbers : tx'[n].state # "none"}) = new
    BY <2>1, <2>2, CountOfNumbered
  <2>4. QED
    BY <2>3 DEF Signed
<1> HIDE DEF new
<1>7. AmountTyped /\ Places /\ OneSent /\ Covered /\ RoundBacked /\ Explained /\ Withdrawal
  BY DEF AmountInv
<1>8. /\ label \in Claims \cup Spends /\ todo # << >> /\ todo[1] = label
      /\ plan.effect \in Int /\ plan.planned \in Int
      /\ label \in Spends => plan.effect <= 0 /\ plan.planned <= ledger[BucketOf[label]]
      /\ \A n \in pending : tx[n].label = label => tx[n].state = "unsent"
      /\ label = "partner surplus" => ~surplusWithdrawn
  BY DEF Journaled
<1>9. AmountTyped'
  <2>1. ASSUME NEW n \in Numbers
        PROVE  /\ tx'[n].effect \in Int /\ tx'[n].planned \in Int
               /\ tx'[n].label \in Claims \cup Spends \cup {"none"}
               /\ tx'[n].state # "none" => tx'[n].label \in Claims \cup Spends
               /\ tx'[n].label \in Spends => tx'[n].effect <= 0
    <3>1. CASE n = new
      BY <1>4, <1>8, <3>1
    <3>2. CASE n # new
      <4>1. tx'[n] = tx[n]
        BY <1>3, <3>2
      <4>2. QED
        BY <1>7, <4>1 DEF AmountTyped
    <3>3. QED
      BY <3>1, <3>2
  <2>2. QED
    BY <1>2, <1>7, <2>1 DEF AmountTyped
<1>10. Places'
  <2>1. phase' \in {"CURVE", "AWAITING_MIGRATION", "GRADUATED"} /\ surplus' \in {"held", "out", "empty"}
    BY <1>2, <1>7 DEF Places
  <2>2. todo' # << >> /\ todo'[1] \in Claims \cup Spends /\ Signed' \in Numbers /\ tx'[Signed'].label = todo'[1]
    BY <1>1, <1>2, <1>4, <1>6, <1>8
  <2>3. QED
    BY <1>2, <2>1, <2>2 DEF Places
<1>11. InTransit' = InTransit
  <2>1. {m \in pending' : tx'[m].state = "landed"} = Landed
    <3>1. \A m \in pending' : tx'[m].state = "landed" <=> (m \in pending /\ tx[m].state = "landed")
      BY <1>2, <1>3, <1>4, <1>5
    <3>2. pending \subseteq pending'
      BY <1>2
    <3>3. QED
      BY <3>1, <3>2 DEF Landed
  <2>2. pending' \subseteq Numbers
    BY <1>1, <1>2, <1>5
  <2>3. \A m \in Numbers : tx'[m].state = "landed" => tx'[m].effect = tx[m].effect
    BY <1>3, <1>4
  <2>4. QED
    BY <1>7, <2>1, <2>2, <2>3, SameTransit
<1>12. Explained'
  BY <1>2, <1>7, <1>11 DEF Explained
<1>13. RoundBacked'
  BY <1>2, <1>7 DEF RoundBacked, NoRound
<1>14. Withdrawal'
  <2>1. /\ surplusWithdrawn \in BOOLEAN
        /\ surplusRefusals \in 0 .. RefusalsBeforeDone
        /\ ~surplusWithdrawn => surplusRefusals < RefusalsBeforeDone
    BY <1>7 DEF Withdrawal
  <2>2. surplusWithdrawn' = surplusWithdrawn /\ surplusRefusals' = surplusRefusals /\ todo'[1] = label
    BY <1>2, <1>8
  <2>3. QED
    BY <1>8, <2>1, <2>2 DEF Withdrawal
<1>15. OneSent'
  <2>1. \A m \in pending' : tx'[m].state # "unsent" => m \in pending /\ m \in Numbers /\ m # new /\ tx'[m] = tx[m]
    BY <1>2, <1>3, <1>4, <1>5
  <2>2. \A m, k \in pending' :
           tx'[m].label = tx'[k].label /\ tx'[m].state # "unsent" /\ tx'[k].state # "unsent" => m = k
    <3> SUFFICES ASSUME NEW m \in pending', NEW k \in pending', tx'[m].label = tx'[k].label,
                        tx'[m].state # "unsent", tx'[k].state # "unsent"
                 PROVE  m = k
      OBVIOUS
    <3>1. m \in pending /\ k \in pending /\ tx'[m] = tx[m] /\ tx'[k] = tx[k]
      BY <2>1
    <3>2. tx[m].label = tx[k].label /\ tx[m].state # "unsent" /\ tx[k].state # "unsent"
      BY <3>1
    <3>3. QED
      BY <1>7, <3>1, <3>2 DEF OneSent
  <2>3. \A m \in pending' : tx'[m].label = todo'[1] /\ m # Signed' => tx'[m].state = "unsent"
    <3> SUFFICES ASSUME NEW m \in pending', tx'[m].label = todo'[1], tx'[m].state # "unsent"
                 PROVE  FALSE
      OBVIOUS
    <3>1. m \in pending /\ tx'[m] = tx[m]
      BY <2>1
    <3>2. tx[m].label = label /\ tx[m].state # "unsent"
      BY <1>2, <1>8, <3>1
    <3>3. QED
      BY <1>8, <3>1, <3>2
  <2>4. QED
    BY <2>2, <2>3 DEF OneSent
<1>16. Covered'
  <2>1. todo'[1] \in Spends => tx'[Signed'].planned <= ledger'[BucketOf[todo'[1]]]
    BY <1>2, <1>4, <1>6, <1>8
  <2>2. ASSUME NEW m \in pending', tx'[m].label \in Spends, tx'[m].state \in {"flying", "landed"}
        PROVE  ledger'[BucketOf[tx'[m].label]] >= tx'[m].planned - (IF busy' # "no" /\ m = Signed' THEN 0 ELSE Fee)
    <3>1. m \in pending /\ m \in Numbers /\ m # new /\ tx'[m] = tx[m]
      BY <1>2, <1>3, <1>4, <1>5, <2>2
    <3> DEFINE b == BucketOf[tx[m].label]
               p == tx[m].planned
    <3>2. b \in SpendBuckets /\ p \in Int /\ ledger[b] \in Nat /\ Fee \in Nat
      BY <1>7, <2>2, <3>1, BucketOfIs, Amounts DEF AmountTyped, Ledgers
    <3>3. ledger[b] >= p - (IF busy # "no" /\ m = Signed THEN 0 ELSE Fee)
      BY <1>7, <2>2, <3>1 DEF Covered, Spared
    <3>4. ledger[b] >= p - Fee
      <4> HIDE DEF b, p
      <4>1. QED
        BY <3>2, <3>3
    <3>5. ledger' = ledger /\ Signed' = new
      BY <1>2, <1>6
    <3>6. QED
      BY <3>1, <3>4, <3>5
  <2>3. QED
    BY <2>1, <2>2 DEF Covered, Spared
<1>17. QED
  BY <1>9, <1>10, <1>12, <1>13, <1>14, <1>15, <1>16 DEF AmountInv

(* What a sub-step may send is covered, and no transaction of its label is under way. *)
LEMMA PlansAreCovered ==
    ASSUME AmountInv, NEW label \in Claims \cup Spends, todo # << >>, todo[1] = label, NEW plan \in Sends(label)
    PROVE  Signed < MaxSends /\ Journaled(label, plan)
<1>1. Signed < MaxSends /\ plan \in Plans(label)
  BY DEF Sends
<1>2. ~IsPending(label)
  BY <1>1 DEF Plans
<1>3. \A n \in pending : tx[n].label # label
  BY <1>2 DEF IsPending
<1>4. \A b \in Buckets : ledger[b] \in Nat
  BY AmountsAre
<1>5. /\ plan.effect \in Int /\ plan.planned \in Int
      /\ label \in Spends => plan.effect <= 0 /\ plan.planned <= ledger[BucketOf[label]]
      /\ label = "partner surplus" => ~surplusWithdrawn
  <2>1. CASE label = "curve fees"
    <3>1. plan \in CurveClaims
      BY <1>1, <1>2, <2>1 DEF Plans
    <3>2. PICK e \in ClaimEffects : plan = [effect |-> e, planned |-> 0]
      BY <3>1 DEF CurveClaims, ClaimCurveFees
    <3>3. plan.effect \in Int /\ plan.planned \in Int
      BY <3>2, Amounts
    <3>4. label \notin Spends /\ label # "partner surplus"
      BY <2>1 DEF Spends
    <3>5. QED
      BY <3>3, <3>4
  <2>2. CASE label = "pool fees"
    <3>1. plan \in PoolClaims
      BY <1>1, <1>2, <2>2 DEF Plans
    <3>2. PICK e \in ClaimEffects : plan = [effect |-> e, planned |-> 0]
      BY <3>1 DEF PoolClaims, ClaimPositionFees
    <3>3. plan.effect \in Int /\ plan.planned \in Int
      BY <3>2, Amounts
    <3>4. label \notin Spends /\ label # "partner surplus"
      BY <2>2 DEF Spends
    <3>5. QED
      BY <3>3, <3>4
  <2>3. CASE label = "partner surplus"
    <3>1. plan \in SurplusClaims
      BY <1>1, <1>2, <2>3 DEF Plans
    <3>2. ~surplusWithdrawn
      BY <3>1 DEF SurplusClaims
    <3>3. PICK e \in ClaimEffects : plan = [effect |-> e, planned |-> 0]
      BY <3>1 DEF SurplusClaims, PartnerWithdrawSurplus
    <3>4. plan.effect \in Int /\ plan.planned \in Int
      BY <3>3, Amounts
    <3>5. label \notin Spends
      BY <2>3 DEF Spends
    <3>6. QED
      BY <3>2, <3>4, <3>5
  <2>4. CASE label = "platform revenue"
    <3>1. plan \in RevenuePayouts
      BY <1>1, <1>2, <2>4 DEF Plans
    <3>2. plan = TransferSol(ledger["revenue"])
      BY <3>1 DEF RevenuePayouts
    <3>3. plan.planned = ledger["revenue"] /\ plan.effect = -(ledger["revenue"] - Fee) - Fee
      BY <3>2 DEF TransferSol
    <3>4. BucketOf[label] = "revenue" /\ ledger["revenue"] \in Nat
      BY <1>4, <2>4 DEF BucketOf, Spends, Buckets
    <3>5. plan.effect \in Int /\ plan.effect <= 0 /\ plan.planned \in Int
      BY <3>3, <3>4, Amounts
    <3>6. plan.planned <= ledger[BucketOf[label]]
      BY <3>3, <3>4
    <3>7. label # "partner surplus"
      BY <2>4
    <3>8. QED
      BY <3>5, <3>6, <3>7
  <2>5. CASE label \in {"$FOLIO buyback", "Stonkfolio flywheel"}
    <3> DEFINE b == BucketOf[label]
               amount == ledger[b]
    <3>1. plan \in Buybacks(b)
      BY <1>1, <1>2, <2>5 DEF Plans
    <3>2. b \in Buckets /\ amount \in Nat
      BY <1>4, <2>5, BucketOfIs DEF Spends
    <3>3. label # "partner surplus"
      BY <2>5
    <3>4. /\ ~(amount < MinBuyback)
          /\ plan \in {CurveSwap(room, cost) : room \in {MinBuyback, amount}, cost \in SwapCosts}
                       \cup {DammSwap(amount, cost) : cost \in SwapCosts}
      BY <3>1 DEF Buybacks
    <3> HIDE DEF amount
    <3>5. PICK a \in {MinBuyback, amount}, cost \in SwapCosts : plan = [effect |-> -a - cost, planned |-> a]
      <4>1. CASE \E room \in {MinBuyback, amount}, cost \in SwapCosts : plan = CurveSwap(room, cost)
        BY <4>1 DEF CurveSwap
      <4>2. CASE \E cost \in SwapCosts : plan = DammSwap(amount, cost)
        BY <4>2 DEF DammSwap
      <4>3. QED
        BY <3>4, <4>1, <4>2
    <3>6. a \in Nat /\ a <= amount /\ cost \in Nat
      BY <3>2, <3>4, <3>5, Amounts
    <3>7. plan.planned = a /\ plan.effect = -a - cost
      BY <3>5
    <3>8. plan.effect \in Int /\ plan.effect <= 0 /\ plan.planned \in Int /\ plan.planned <= amount
      BY <3>6, <3>7
    <3>9. QED
      BY <3>3, <3>8 DEF amount
  <2>6. QED
    BY <2>1, <2>2, <2>3, <2>4, <2>5 DEF Claims, Spends
<1>6. QED
  BY <1>1, <1>3, <1>5 DEF Journaled

(* A sub-step signs what it may send. *)
LEMMA SignAmounts ==
    ASSUME IInv, AmountInv, Sign
    PROVE  AmountInv'
<1>1. /\ todo # << >> /\ todo[1] \in Claims \cup Spends
      /\ \E plan \in Sends(todo[1]) : Journal(todo[1], plan)
  BY DEF Sign
<1>2. PICK plan \in Sends(todo[1]) : Journal(todo[1], plan)
  BY <1>1
<1>3. Signed < MaxSends /\ Journaled(todo[1], plan)
  BY <1>1, PlansAreCovered
<1>4. QED
  BY <1>2, <1>3, JournalAmounts

(* Another try plans what the first did, which was not sent. *)
LEMMA SignAgainAmounts ==
    ASSUME IInv, AmountInv, SignAgain
    PROVE  AmountInv'
<1> DEFINE plan == [effect |-> tx[Signed].effect, planned |-> tx[Signed].planned]
           label == todo[1]
<1>1. busy = "signed" /\ Signed < MaxSends /\ Journal(label, plan)
  BY DEF SignAgain
<1>2. Signed \in Numbers /\ tx[Signed].state = "unsent"
  BY <1>1 DEF IInv, SignedIsUnsent
<1>3. AmountTyped /\ Places /\ OneSent /\ Covered /\ Withdrawal
  BY DEF AmountInv
<1>4. label \in Claims \cup Spends /\ todo # << >> /\ tx[Signed].label = label
  BY <1>1, <1>3 DEF Places
<1>5. plan.effect \in Int /\ plan.planned \in Int
  BY <1>2, <1>3 DEF AmountTyped
<1>6. label \in Spends => plan.effect <= 0 /\ plan.planned <= ledger[BucketOf[label]]
  BY <1>1, <1>2, <1>3, <1>4 DEF AmountTyped, Covered
<1>7. \A n \in pending : tx[n].label = label => tx[n].state = "unsent"
  BY <1>1, <1>2, <1>3 DEF OneSent
<1>8. label = "partner surplus" => ~surplusWithdrawn
  BY <1>1, <1>3 DEF Withdrawal
<1> HIDE DEF plan, label
<1>9. Journaled(label, plan)
  BY <1>4, <1>5, <1>6, <1>7, <1>8 DEF Journaled, label
<1>10. QED
  BY <1>1, <1>9, JournalAmounts

(***************************************************************************)
(* The journal settles: what landed is booked, and a bucket it debits has  *)
(* no other spend under way.                                               *)
(***************************************************************************)
Settling ==
    /\ SettlePending
    /\ UNCHANGED <<phase, surplus, wallet, round, surplusRefusals>>
    /\ \/ busy' = "no"
       \/ /\ busy = "answered" /\ busy' = "burn" /\ todo' = todo
          /\ todo[1] \in {"$FOLIO buyback", "Stonkfolio flywheel"}

(* Settling the journal keeps the amounts. *)
LEMMA SettleAmounts ==
    ASSUME IInv, AmountInv, Settling
    PROVE  AmountInv'
<1>1. PICK outcome \in [pending -> {"landed", "failed", "expired", "pending"}] :
         /\ \A n \in pending : outcome[n] \in Outcomes(n)
         /\ ledger' = SettleAll({n \in pending : outcome[n] = "landed"}).ledger
         /\ drift' = drift + SettleAll({n \in pending : outcome[n] = "landed"}).missed
         /\ pending' = {n \in pending : outcome[n] = "pending"}
         /\ surplusWithdrawn' =
               (surplusWithdrawn \/ \E n \in {m \in pending : outcome[m] = "landed"} : tx[n].label = "partner surplus")
         /\ tx' = [n \in Numbers |->
                      IF n \in pending /\ outcome[n] # "pending" THEN [tx[n] EXCEPT !.age = MaxAge, !.since = Lag + 1]
                      ELSE tx[n]]
  BY DEF Settling, SettlePending
<1> DEFINE landed == {n \in pending : outcome[n] = "landed"}
<1>2. pending \subseteq Numbers
  BY JournalInNumbers
<1>3. \A n \in Numbers : /\ tx'[n].label = tx[n].label /\ tx'[n].effect = tx[n].effect
                         /\ tx'[n].planned = tx[n].planned /\ tx'[n].state = tx[n].state
  <2> SUFFICES ASSUME NEW n \in Numbers
               PROVE  /\ tx'[n].label = tx[n].label /\ tx'[n].effect = tx[n].effect
                      /\ tx'[n].planned = tx[n].planned /\ tx'[n].state = tx[n].state
    OBVIOUS
  <2>1. tx'[n] = [tx[n] EXCEPT !.age = MaxAge, !.since = Lag + 1] \/ tx'[n] = tx[n]
    BY <1>1
  <2>2. IsTx(tx[n])
    BY DEF IInv, Typed
  <2>3. QED
    BY <2>1, <2>2 DEF IsTx
<1>4. Signed' = Signed
  BY <1>3, SameCount
<1>5. \A n \in pending : /\ outcome[n] = "landed" => tx[n].state = "landed"
                         /\ outcome[n] # "landed" /\ outcome[n] # "pending" => tx[n].state # "landed"
  BY <1>1, OutcomeIsRight
<1>6. /\ AmountTyped /\ OneSent /\ Explained /\ Withdrawal
      /\ wallet \in Int /\ drift \in Int /\ round.spent \in Int /\ Total(ledger) \in Int
      /\ surplus \in Surpluses
  BY AmountsAre DEF AmountInv
<1>7. landed \subseteq Landed /\ landed \in SUBSET Numbers
  BY <1>2, <1>5 DEF Landed
<1>8. \A n \in landed : tx[n].label \in Claims \cup Spends
  <2>1. \A n \in landed : n \in Numbers /\ tx[n].state = "landed"
    BY <1>2, <1>5
  <2>2. QED
    BY <1>6, <2>1 DEF AmountTyped
<1>9. {n \in pending' : tx'[n].state = "landed"} = Landed \ landed
  <2>1. \A n \in pending' : tx'[n].state = tx[n].state
    BY <1>1, <1>2, <1>3
  <2>2. \A n \in pending : tx[n].state = "landed" => outcome[n] = "landed" \/ outcome[n] = "pending"
    BY <1>5
  <2>3. QED
    BY <1>1, <2>1, <2>2 DEF Landed
<1>10. surplusWithdrawn' = (surplusWithdrawn \/ \E n \in landed : tx[n].label = "partner surplus")
  BY <1>1
<1>11. \A n \in landed : n \in pending /\ n \notin pending' /\ tx[n].state = "landed"
  BY <1>1, <1>5
<1> DEFINE l == SettleAll(landed).ledger
           x == SettleAll(landed).missed
           s == SumFunctionOnSet(Effects, landed)
<1>12. ledger' = l /\ drift' = drift + x
  BY <1>1
<1> HIDE DEF landed
<1>13. /\ l \in Ledgers /\ x \in Int
       /\ Total(l) - x = Total(ledger) + s
       /\ l["operations"] >= ledger["operations"]
       /\ \A b \in SpendBuckets :
             (\A n \in landed : ~(tx[n].label \in Spends /\ BucketOf[tx[n].label] = b)) => l[b] >= ledger[b]
  BY <1>6, <1>7, <1>8, SettleAllEffect
<1> HIDE DEF l, x, s
<1>14. InTransit' = InTransit - s /\ InTransit \in Int /\ s \in Int
  <2>1. /\ IsFiniteSet(Landed) /\ Landed \subseteq Numbers
        /\ InTransit = SumFunctionOnSet(Effects, Landed) /\ InTransit \in Int
    BY <1>6, InTransitIs
  <2>2. \A n \in Landed : Effects[n] \in Int
    BY <1>6, <2>1 DEF Effects, AmountTyped
  <2>3. SumFunctionOnSet(Effects, Landed) = s + SumFunctionOnSet(Effects, Landed \ landed)
    BY <1>7, <2>1, <2>2, SumSplit DEF s
  <2>4. IsFiniteSet(landed) /\ IsFiniteSet(Landed \ landed)
    BY <1>7, <2>1, FS_Subset
  <2>5. s \in Int /\ SumFunctionOnSet(Effects, Landed \ landed) \in Int
    <3>1. s \in Int
      BY <1>7, <2>2, <2>4, SumInt DEF s
    <3>2. \A n \in Landed \ landed : Effects[n] \in Int
      BY <2>2
    <3>3. QED
      BY <2>4, <3>1, <3>2, SumInt
  <2>6. InTransit' = SumFunctionOnSet(Effects, Landed \ landed)
    <3>1. pending' \subseteq Numbers
      BY <1>1, <1>2
    <3>2. \A n \in Numbers : tx'[n].state = "landed" => tx'[n].effect = tx[n].effect
      BY <1>3
    <3>3. InTransit' = SumFunctionOnSet(Effects, {n \in pending' : tx'[n].state = "landed"})
      BY <1>6, <3>1, <3>2, TransitAfter
    <3>4. QED
      BY <1>9, <3>3
  <2>7. QED
    BY <2>1, <2>3, <2>5, <2>6
<1>15. Total(l) \in Int
  <2>1. l \in [Buckets -> Int]
    BY <1>13 DEF Ledgers
  <2>2. QED
    BY <2>1, TotalIs
<1>16. Explained'
  <2>1. wallet = Total(ledger) + InTransit - round.spent - drift
    BY <1>6 DEF Explained
  <2>2. wallet = Total(l) + (InTransit - s) - round.spent - (drift + x)
    BY <1>6, <1>13, <1>14, <1>15, <2>1
  <2>3. QED
    BY <1>12, <1>14, <2>2 DEF Explained, Settling
<1>17. Withdrawal'
  <2>1. busy' # "signed" /\ surplusRefusals' = surplusRefusals
    BY DEF Settling
  <2>2. surplusWithdrawn' \in BOOLEAN /\ (~surplusWithdrawn' => ~surplusWithdrawn)
    BY <1>10
  <2>3. QED
    BY <1>6, <2>1, <2>2 DEF Withdrawal
<1>18. \A b \in SpendBuckets :
          \/ ledger'[b] >= ledger[b]
          \/ \A n \in pending' : tx[n].label \in Spends /\ tx[n].state \in {"flying", "landed"} => BucketOf[tx[n].label] # b
  <2> SUFFICES ASSUME NEW b \in SpendBuckets,
                      NEW n \in pending', tx[n].label \in Spends, tx[n].state \in {"flying", "landed"},
                      BucketOf[tx[n].label] = b
               PROVE  l[b] >= ledger[b]
    BY <1>12
  <2>1. ASSUME NEW m \in landed, tx[m].label \in Spends, BucketOf[tx[m].label] = b
        PROVE  FALSE
    <3>1. tx[m].label = tx[n].label
      BY <2>1, BucketOfIs
    <3>2. m \in pending /\ n \in pending /\ m # n /\ tx[m].state = "landed"
      BY <1>1, <1>11
    <3>3. QED
      BY <1>6, <3>1, <3>2 DEF OneSent
  <2>2. QED
    BY <1>13, <2>1
<1>19. JournalStep
  <2>1. \A n \in Numbers : Onward(tx[n], tx'[n])
    BY <1>3 DEF Onward
  <2>2. phase' = phase /\ surplus' \in Surpluses /\ round' = round /\ wallet' \in Int
    BY <1>6 DEF Settling
  <2>3. drift' \in Int /\ ledger' \in Ledgers /\ ledger'["operations"] >= ledger["operations"]
    BY <1>6, <1>12, <1>13
  <2>4. pending' \subseteq pending
    BY <1>1
  <2>5. QED
    BY <1>4, <1>16, <1>17, <1>18, <2>1, <2>2, <2>3, <2>4 DEF JournalStep, Settling
<1>20. QED
  BY <1>19, JournalMotion

(* Every step. *)
LEMMA NextAmounts ==
    ASSUME IInv, AmountInv, [Next]_vars
    PROVE  AmountInv'
<1>1. CASE \/ StartTick \/ Throw \/ Crash \/ Skip \/ Answer \/ Unanswered \/ FillCurve \/ MigratedByOthers
           \/ UNCHANGED vars
  BY <1>1, QuietAmounts
<1>2. CASE SettleStep
  <2>1. Settling
    BY <1>2 DEF SettleStep, Next1, Settling, chain
  <2>2. QED
    BY <2>1, SettleAmounts
<1>3. CASE Answered
  <2>1. SettlePending /\ busy = "answered" /\ UNCHANGED <<phase, surplus, wallet, round, surplusRefusals>>
    BY <1>3 DEF Answered, chain
  <2>2. \/ busy' = "no"
        \/ busy' = "burn" /\ todo' = todo /\ todo[1] \in {"$FOLIO buyback", "Stonkfolio flywheel"}
    BY <1>3 DEF Answered, Next1
  <2>3. QED
    BY <2>1, <2>2, SettleAmounts DEF Settling
<1>4. CASE Migrate
  BY <1>4, MigrateAmounts
<1>5. CASE Sign
  BY <1>5, SignAmounts
<1>6. CASE SignAgain
  BY <1>6, SignAgainAmounts
<1>7. CASE Send
  BY <1>7, SendAmounts
<1>8. CASE Refused
  BY <1>8, RefusedAmounts
<1>9. CASE Burn
  BY <1>9, BurnAmounts
<1>10. CASE Reserve
  BY <1>10, ReserveAmounts
<1>11. CASE Purchase
  BY <1>11, PurchaseAmounts
<1>12. CASE ChargeTx
  BY <1>12, ChargeTxAmounts
<1>13. CASE FinishRound
  BY <1>13, FinishRoundAmounts
<1>14. CASE \E n \in Numbers : Arrive(n)
  BY <1>14, ArriveAmounts
<1>15. CASE TimePasses
  BY <1>15, TimePassesAmounts
<1>16. QED
  BY <1>1, <1>2, <1>3, <1>4, <1>5, <1>6, <1>7, <1>8, <1>9, <1>10, <1>11, <1>12, <1>13, <1>14, <1>15
     DEF Next, Tick, Rounds, Chain

----------------------------------------------------------------------------
(***************************************************************************)
(* The journal's inductive invariant: what can land is in it, what landed  *)
(* unseen did so in time, and the bookings so far are right (coin.ts       *)
(* 209-239).                                                               *)
(***************************************************************************)
THEOREM Inductive == Spec => []IInv
<1>1. Init => IInv
  BY InitIInv
<1>2. IInv /\ [Next]_vars => IInv'
  BY NextKeeps
<1>3. QED
  BY <1>1, <1>2, PTL DEF Spec

(***************************************************************************)
(* A claim or spend that landed has moved the ledger exactly once by the   *)
(* time it leaves the journal, and one that did not land never has         *)
(* (coin.ts 13-15).                                                        *)
(***************************************************************************)
THEOREM LedgerMovesOnce == Spec => []SettledOnce
<1>1. IInv => SettledOnce
  <2> SUFFICES ASSUME IInv, NEW n \in 1 .. Signed
               PROVE  booked[n] = IF tx[n].state = "landed" /\ n \notin pending THEN 1 ELSE 0
    BY DEF SettledOnce
  <2>1. n \in Numbers
    BY Times DEF IInv, Numbered, Numbers
  <2>2. QED
    BY <2>1 DEF IInv, BookedOnce
<1>2. QED
  BY <1>1, Inductive, PTL
(***************************************************************************)
(* The ledger's inductive invariant: the balance, with what a spend under  *)
(* way needs of its bucket and a round of the operations bucket (coin.ts   *)
(* 209-239, 345-400).                                                      *)
(***************************************************************************)
THEOREM AmountsInductive == Spec => [](IInv /\ AmountInv)
<1>1. Init => IInv /\ AmountInv
  BY InitIInv, InitAmounts
<1>2. IInv /\ AmountInv /\ [Next]_vars => IInv' /\ AmountInv'
  BY NextKeeps, NextAmounts
<1>3. QED
  BY <1>1, <1>2, PTL DEF Spec

(***************************************************************************)
(* The keeper's SOL is what the ledger says, plus what is journaled and    *)
(* landed, less the open round's costs on record, less the SOL lost in the *)
(* ways drift counts, whatever crashed, failed or was not shown (coin.ts   *)
(* 13-15, 209-239).                                                        *)
(***************************************************************************)
THEOREM WalletIsExplained == Spec => []DriftExplained
<1>1. IInv /\ AmountInv => DriftExplained
  <2> SUFFICES ASSUME IInv, AmountInv
               PROVE  DriftExplained
    OBVIOUS
  <2>1. /\ AmountTyped /\ Places /\ Withdrawal /\ Explained /\ Typed
    BY DEF AmountInv, IInv
  <2>2. TypeOK
    BY <2>1 DEF TypeOK, AmountTyped, Places, Withdrawal, Typed, Ledgers
  <2>3. QED
    BY <2>1, <2>2 DEF DriftExplained, Explained
<1>2. QED
  BY <1>1, AmountsInductive, PTL

(***************************************************************************)
(* Until a spend that was sent settles, its bucket holds what the spend    *)
(* planned, but for the fee of its own burn (coin.ts 345-400).             *)
(***************************************************************************)
THEOREM SpendsStayCovered == Spec => []SpendStillCovered
<1>1. IInv /\ AmountInv => SpendStillCovered
  <2> SUFFICES ASSUME IInv, AmountInv, NEW n \in pending, tx[n].label \in Spends, tx[n].state \in {"flying", "landed"}
               PROVE  ledger[BucketOf[tx[n].label]] >= tx[n].planned - Fee
    BY DEF SpendStillCovered
  <2> DEFINE b == BucketOf[tx[n].label]
             p == tx[n].planned
  <2>1. n \in Numbers /\ AmountTyped /\ Covered
    BY JournalInNumbers DEF AmountInv
  <2>2. b \in SpendBuckets /\ p \in Int /\ ledger[b] \in Nat /\ Fee \in Nat
    BY <2>1, BucketOfIs, Amounts DEF AmountTyped, Ledgers
  <2>3. ledger[b] >= p - (IF busy # "no" /\ n = Signed THEN 0 ELSE Fee)
    BY <2>1 DEF Covered, Spared
  <2> HIDE DEF b, p
  <2>4. ledger[b] >= p - Fee
    BY <2>2, <2>3
  <2>5. QED
    BY <2>4 DEF b, p
<1>2. QED
  BY <1>1, AmountsInductive, PTL
=============================================================================

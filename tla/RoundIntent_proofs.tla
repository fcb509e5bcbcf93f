------------------------ MODULE RoundIntent_proofs ------------------------
(***************************************************************************)
(* Proofs about RoundIntent, for every number of keys, rounds and slots    *)
(* and every configuration create_distributor accepts.  They rest on what  *)
(* the lookup of a seed block returns for a sysvar of any size, which      *)
(* comes first.                                                            *)
(***************************************************************************)
EXTENDS RoundIntent, FiniteSetTheorems, WellFoundedInduction, TLAPS

(***************************************************************************)
(* A sysvar of the given size when the blocks in made are finished, and    *)
(* slot next is being executed: its newest entries, all of them down to    *)
(* its oldest entry.                                                       *)
(***************************************************************************)
Sysvar(e, size, made, next) ==
    /\ e \in Seq(Nat)
    /\ Len(e) = size
    /\ \A i \in 1 .. size : e[i] \in made
    /\ \A i, j \in 1 .. size : i < j => e[i] > e[j]
    /\ \A p \in made : p < next /\ (p >= e[size] => \E i \in 1 .. size : e[i] = p)

FirstAtOrAfter(s, t, made) ==
    /\ s \in made
    /\ s >= t
    /\ \A p \in made : p >= t => s <= p

(* A non-empty set of naturals has a least element. *)
LEMMA LeastElement ==
    ASSUME NEW T, T \subseteq Nat, T # {}
    PROVE  \E x \in T : \A y \in T : x <= y
<1>. DEFINE R == OpToRel(<, Nat)
<1>1. \A x, y \in Nat : x < y => <<x, y>> \in R
  BY DEF OpToRel
<1>2. IsWellFoundedOn(R, Nat)
  BY NatLessThanWellFounded
<1>. HIDE DEF R
<1>3. PICK x \in T : \A y \in T : ~(<<y, x>> \in R)
  BY <1>2, WFMin
<1>4. \A y \in T : ~(y < x)
  BY <1>1, <1>3
<1>. QED
  BY <1>3, <1>4

----------------------------------------------------------------------------

(* The runtime keeps the sysvar a sysvar. *)
LEMMA PushKeepsSysvar ==
    ASSUME NEW e, NEW size \in Nat \ {0}, NEW made \in SUBSET Nat,
           NEW next \in Nat, NEW later \in Nat, later > next,
           Sysvar(e, size, made, next)
    PROVE  Sysvar(Push(e, next, size), size, made \cup {next}, later)
<1>. DEFINE f == Push(e, next, size)
<1>0. /\ e \in Seq(Nat) /\ Len(e) = size
      /\ \A i \in 1 .. size : e[i] \in made /\ e[i] \in Nat
      /\ \A i, j \in 1 .. size : i < j => e[i] > e[j]
      /\ \A p \in made : p < next /\ (p >= e[size] => \E i \in 1 .. size : e[i] = p)
  BY DEF Sysvar
<1>1. f = [i \in 1 .. size |-> IF i = 1 THEN next ELSE e[i - 1]]
  BY <1>0 DEF Push
<1>2. f \in Seq(Nat) /\ Len(f) = size
  BY <1>0, <1>1
<1>3. f[1] = next /\ \A i \in 2 .. size : f[i] = e[i - 1]
  BY <1>1
<1>. HIDE DEF f
<1>4. \A i \in 1 .. size : f[i] \in made \cup {next}
  BY <1>0, <1>3
<1>5. \A i, j \in 1 .. size : i < j => f[i] > f[j]
  <2>. SUFFICES ASSUME NEW i \in 1 .. size, NEW j \in 1 .. size, i < j
                PROVE  f[i] > f[j]
    OBVIOUS
  <2>1. f[j] = e[j - 1] /\ j - 1 \in 1 .. size
    BY <1>3
  <2>2. CASE i = 1
    BY <1>0, <1>3, <2>1, <2>2
  <2>3. CASE i # 1
    BY <1>0, <1>3, <2>1, <2>3
  <2>. QED
    BY <2>2, <2>3
<1>6. ASSUME NEW p \in made \cup {next}
      PROVE  p < later /\ (p >= f[size] => \E i \in 1 .. size : f[i] = p)
  <2>1. CASE p = next
    BY <1>3, <2>1
  <2>2. CASE p \in made /\ size = 1
    BY <1>0, <1>3, <2>2
  <2>3. CASE p \in made /\ size # 1
    <3>1. f[size] = e[size - 1] /\ size - 1 \in 1 .. size
      BY <1>3, <2>3
    <3>2. p < later
      BY <1>0, <2>3
    <3>3. ASSUME p >= f[size] PROVE \E i \in 1 .. size : f[i] = p
      <4>1. p >= e[size - 1] /\ e[size - 1] > e[size]
        BY <1>0, <3>1, <3>3, <2>3
      <4>2. PICK i \in 1 .. size : e[i] = p
        BY <1>0, <2>3, <4>1
      <4>3. i # size
        BY <1>0, <4>1, <4>2, <2>3
      <4>4. f[i + 1] = p /\ i + 1 \in 1 .. size
        BY <1>3, <4>2, <4>3
      <4>. QED
        BY <4>4
    <3>. QED
      BY <3>2, <3>3
  <2>. QED
    BY <2>1, <2>2, <2>3
<1>7. Push(e, next, size) = f
  BY DEF f
<1>8. Sysvar(f, size, made \cup {next}, later)
  BY <1>2, <1>4, <1>5, <1>6 DEF Sysvar
<1>. QED
  BY <1>7, <1>8

(* The oldest entry left is never older than before. *)
LEMMA PushAges ==
    ASSUME NEW e, NEW size \in Nat \ {0}, NEW made \in SUBSET Nat, NEW next \in Nat,
           Sysvar(e, size, made, next)
    PROVE  Push(e, next, size)[size] > e[size]
<1>1. /\ e \in Seq(Nat) /\ Len(e) = size
      /\ \A i \in 1 .. size : e[i] \in made /\ e[i] \in Nat /\ e[i] < next
      /\ \A i, j \in 1 .. size : i < j => e[i] > e[j]
  BY DEF Sysvar
<1>2. Push(e, next, size)[size] = IF size = 1 THEN next ELSE e[size - 1]
  BY <1>1 DEF Push
<1>3. CASE size = 1
  BY <1>1, <1>2, <1>3
<1>4. CASE size # 1
  <2>1. size - 1 \in 1 .. size /\ size \in 1 .. size /\ size - 1 < size
    BY <1>4
  <2>2. e[size - 1] > e[size]
    BY <1>1, <2>1
  <2>. QED
    BY <1>2, <1>4, <2>2
<1>. QED
  BY <1>3, <1>4

(***************************************************************************)
(* The loop of find_seed stops exactly when some entry is older than the   *)
(* target.                                                                 *)
(***************************************************************************)
LEMMA StopsIffOlder ==
    ASSUME NEW e \in Seq(Nat), NEW t \in Nat, e # << >>, e[1] >= t
    PROVE  (\E i \in 2 .. Len(e) : StopsAt(e, t, i)) <=> (\E i \in 1 .. Len(e) : e[i] < t)
<1>0. Len(e) \in Nat /\ \A i \in 1 .. Len(e) : e[i] \in Nat
  OBVIOUS
<1>1. ASSUME NEW i \in 2 .. Len(e), StopsAt(e, t, i)
      PROVE  \E j \in 1 .. Len(e) : e[j] < t
  BY <1>0, <1>1 DEF StopsAt
<1>2. ASSUME NEW k \in 1 .. Len(e), e[k] < t
      PROVE  \E i \in 2 .. Len(e) : StopsAt(e, t, i)
  <2>. DEFINE older == {i \in 2 .. Len(e) : e[i] < t}
  <2>1. k \in 2 .. Len(e)
    BY <1>0, <1>2
  <2>2. older \subseteq Nat /\ older # {}
    <3>1. older \subseteq Nat
      BY <1>0
    <3>2. k \in older
      BY <1>2, <2>1
    <3>. QED
      BY <3>1, <3>2
  <2>3. PICK i \in older : \A j \in older : i <= j
    BY <2>2, LeastElement
  <2>4. StopsAt(e, t, i)
    BY <1>0, <2>3 DEF StopsAt
  <2>. QED
    BY <2>3, <2>4
<1>. QED
  BY <1>1, <1>2

(***************************************************************************)
(* What find_seed's answers mean (slot_hashes.rs 13-21).                   *)
(***************************************************************************)
LEMMA FindSeedMeaning ==
    ASSUME NEW e, NEW size \in Nat \ {0}, NEW made \in SUBSET Nat, NEW next \in Nat,
           NEW t \in Nat, Sysvar(e, size, made, next)
    PROVE  /\ FindSeed(e, t).kind = "Found" =>
                FirstAtOrAfter(FindSeed(e, t).slot, t, made)
           /\ FindSeed(e, t).kind = "NotYet" <=> \A p \in made : p < t
           /\ FindSeed(e, t).kind = "Expired" <=> e[size] > t
           /\ FindSeed(e, t).kind \in {"Found", "NotYet", "Expired"}
<1>0. /\ e \in Seq(Nat) /\ Len(e) = size /\ e # << >>
      /\ \A i \in 1 .. size : e[i] \in made /\ e[i] \in Nat
      /\ \A i, j \in 1 .. size : i < j => e[i] > e[j]
      /\ \A p \in made : p < next /\ (p >= e[size] => \E i \in 1 .. size : e[i] = p)
  BY DEF Sysvar
<1>1. CASE e[1] < t
  <2>1. FindSeed(e, t) = NotYet
    BY <1>1 DEF FindSeed
  <2>2. \A i \in 1 .. size : e[i] <= e[1]
    BY <1>0
  <2>3. e[size] \in Nat /\ e[size] < t
    BY <1>0, <1>1, <2>2
  <2>4. \A p \in made : p < t
    BY <1>0, <1>1, <2>2, <2>3
  <2>. QED
    BY <2>1, <2>3, <2>4 DEF NotYet
<1>2. CASE e[1] >= t /\ \E i \in 2 .. Len(e) : StopsAt(e, t, i)
  <2>. DEFINE k == CHOOSE i \in 2 .. Len(e) : StopsAt(e, t, i)
  <2>1. k \in 2 .. size /\ StopsAt(e, t, k)
    BY <1>0, <1>2
  <2>2. FindSeed(e, t) = Found(e[k - 1])
    BY <1>0, <1>2 DEF FindSeed
  <2>. HIDE DEF k
  <2>3. k - 1 \in 1 .. size /\ e[k - 1] >= t /\ e[k] < t
    BY <1>0, <1>2, <2>1 DEF StopsAt
  <2>4. e[k] >= e[size]
    <3>1. k \in 1 .. size /\ size \in 1 .. size
      BY <2>1
    <3>2. e[k] \in Nat /\ e[size] \in Nat
      BY <1>0, <3>1
    <3>3. k < size => e[k] > e[size]
      BY <1>0, <3>1
    <3>. QED
      BY <3>1, <3>2, <3>3
  <2>5. ASSUME NEW p \in made, p >= t
        PROVE  e[k - 1] <= p
    <3>1. p >= e[size]
      BY <1>0, <2>1, <2>3, <2>4, <2>5
    <3>2. PICK i \in 1 .. size : e[i] = p
      BY <1>0, <3>1
    <3>3. ~(k <= i)
      BY <1>0, <2>1, <2>3, <2>5, <3>2
    <3>4. i = k - 1 \/ i < k - 1
      BY <2>1, <3>3
    <3>. QED
      BY <1>0, <2>3, <3>2, <3>4
  <2>6. e[size] < t
    BY <1>0, <2>1, <2>3, <2>4
  <2>. QED
    BY <1>0, <2>2, <2>3, <2>5, <2>6 DEF Found, FirstAtOrAfter
<1>3. CASE e[1] >= t /\ ~(\E i \in 2 .. Len(e) : StopsAt(e, t, i))
  <2>0. ~(\E i \in 1 .. Len(e) : e[i] < t)
    BY <1>0, <1>3, StopsIffOlder
  <2>1. \A i \in 1 .. size : e[i] >= t
    BY <1>0, <2>0
  <2>2. e[size] \in made /\ e[size] \in Nat /\ e[size] >= t /\ e[Len(e)] = e[size]
    BY <1>0, <2>1
  <2>3. CASE e[size] = t
    <3>1. FindSeed(e, t) = Found(t)
      BY <1>0, <1>3, <2>2, <2>3 DEF FindSeed
    <3>. QED
      BY <2>2, <2>3, <3>1 DEF Found, FirstAtOrAfter
  <2>4. CASE e[size] # t
    <3>1. FindSeed(e, t) = Expired
      BY <1>0, <1>3, <2>2, <2>4 DEF FindSeed
    <3>. QED
      BY <2>2, <2>4, <3>1 DEF Expired
  <2>. QED
    BY <2>3, <2>4
<1>. QED
  BY <1>0, <1>1, <1>2, <1>3

----------------------------------------------------------------------------
(***************************************************************************)
(* The inductive invariant.  SeedIsFirstBlock and SamplingOrder speak of   *)
(* rounds whose seed is recorded; to be inductive they need what the       *)
(* earlier stages established, and that SlotHashes holds the newest        *)
(* produced slots without a gap.                                           *)
(***************************************************************************)
Windowed(i) ==
    /\ i.secret_commitment \in Secrets
    /\ i.open_slot <= i.close_slot
    /\ i.close_ts >= i.open_ts + MinWindowSecs
    /\ i.snapshot_count >= 1

IntentOK(i) ==
    /\ i.open_slot <= slot /\ i.close_slot <= slot
    /\ i.open_ts <= now /\ i.close_ts <= now
    /\ i.status = "Open" => i.secret_commitment \in Secrets
    /\ i.status \in {"None", "Open"} => i.close_slot = 0
    /\ i.status \in {"Closed", "Seeded", "Committed"} => i.close_slot # 0
    /\ i.close_slot # 0 => Windowed(i)
    /\ i.status \in {"None", "Open", "Closed"} => i.seed_slot = 0
    /\ i.status \in {"Seeded", "Committed"} => i.seed_slot # 0
    /\ i.seed_slot # 0 =>
          /\ i.close_slot # 0
          /\ i.seed_ts >= i.close_ts /\ i.seed_ts <= now
          /\ IsFirstAtOrAfter(i.seed_slot, i.close_slot + SeedSlotOffset)

HeaderOK(h, i) ==
    /\ h.committed <=> i.status = "Committed"
    /\ h.committed =>
          /\ h.window_start_slot = i.open_slot
          /\ h.window_end_slot = i.close_slot
          /\ h.committed_ts >= i.seed_ts
          /\ h.expiry_ts >= h.committed_ts + MinExpirySecs

IInv ==
    /\ TypeOK
    /\ slot # 0
    /\ Sysvar(slotHashes, HashWindow, produced, slot)
    /\ OneLiveRound
    /\ PendingIsAnotherKey
    /\ \A r \in Rounds : IntentOK(intent[r]) /\ HeaderOK(round[r], intent[r])
    /\ SkippedDrawsCounted

----------------------------------------------------------------------------
(* Facts the steps share. *)

USE ConfigAssumption, BoundsAssumption DEF Rounds

LEMMA SeedTargetType ==
    ASSUME TypeOK, NEW r \in Rounds
    PROVE  SeedTarget(r) \in Nat /\ intent[r] \in Intent /\ SeedTarget(r) > intent[r].close_slot
<1>1. intent[r] \in Intent
  BY DEF TypeOK
<1>. QED
  BY <1>1 DEF Intent, SeedTarget

(* The round being sampled is round next_round_id. *)
LEMMA LiveIsCurrent ==
    ASSUME IInv, NEW r \in Rounds, intent[r].status \in Live
    PROVE  r = next_round_id
<1>1. next_round_id \in Nat /\ r \in Int
  BY DEF IInv, TypeOK
<1>2. /\ r < next_round_id => intent[r].status \in {"Committed", "Abandoned"}
      /\ r > next_round_id => intent[r].status = "None"
  BY DEF IInv, OneLiveRound
<1>3. ~(r < next_round_id) /\ ~(r > next_round_id)
  BY <1>2 DEF Live
<1>. QED
  BY <1>1, <1>3

(* What the seed lookup of a round answers, in a reachable state. *)
LEMMA SeedLookupMeaning ==
    ASSUME IInv, NEW r \in Rounds
    PROVE  /\ SeedLookup(r).kind = "Found" =>
                IsFirstAtOrAfter(SeedLookup(r).slot, SeedTarget(r))
           /\ SeedLookup(r).kind = "Expired" <=> slotHashes[HashWindow] > SeedTarget(r)
<1>1. /\ Sysvar(slotHashes, HashWindow, produced, slot)
      /\ produced \in SUBSET Nat /\ slot \in Nat /\ SeedTarget(r) \in Nat
  BY SeedTargetType DEF IInv, TypeOK
<1>. QED
  BY <1>1, FindSeedMeaning DEF SeedLookup, FirstAtOrAfter, IsFirstAtOrAfter

LEMMA SkippedDrawsFinite == IsFiniteSet(SkippedDraws) /\ SkippedDraws \subseteq Rounds
<1>1. IsFiniteSet(Rounds)
  BY FS_Interval
<1>2. SkippedDraws \subseteq Rounds
  BY DEF SkippedDraws
<1>. QED
  BY <1>1, <1>2, FS_Subset

(* A step that replaces one round's intent, and perhaps its header. *)
LEMMA IntentStep ==
    ASSUME IInv, UNCHANGED <<clock, authority>>,
           NEW r \in Rounds, NEW i \in Intent, intent' = [intent EXCEPT ![r] = i],
           next_round_id' \in Nat, expired_seed_abandons' \in Nat,
           round' \in [Rounds -> RoundHeader],
           \A q \in Rounds \ {r} : round'[q] = round[q],
           IntentOK(i), HeaderOK(round'[r], i),
           OneLiveRound', SkippedDrawsCounted'
    PROVE  IInv'
<1>1. TypeOK'
  BY DEF IInv, TypeOK, clock, authority
<1>2. \A q \in Rounds : intent'[q] = IF q = r THEN i ELSE intent[q]
  BY DEF IInv, TypeOK
<1>3. ASSUME NEW q \in Rounds PROVE (IntentOK(intent[q]) /\ HeaderOK(round[q], intent[q]))'
  <2>1. IntentOK(intent[q])'
    <3>1. IntentOK(intent'[q])
      BY <1>2 DEF IInv
    <3>. QED
      BY <3>1 DEF IntentOK, IsFirstAtOrAfter, clock, Windowed
  <2>2. HeaderOK(round[q], intent[q])'
    <3>1. HeaderOK(round'[q], intent'[q])
      BY <1>2 DEF IInv
    <3>. QED
      BY <3>1 DEF HeaderOK
  <2>. QED
    BY <2>1, <2>2
<1>4. (slot # 0 /\ Sysvar(slotHashes, HashWindow, produced, slot) /\ PendingIsAnotherKey)'
  BY DEF IInv, clock, authority, PendingIsAnotherKey
<1>. QED
  BY <1>1, <1>3, <1>4 DEF IInv

(* The counter stays right when no draw is skipped. *)
LEMMA NoDrawSkipped ==
    ASSUME IInv, NEW r \in Rounds, NEW i \in Intent, intent' = [intent EXCEPT ![r] = i],
           expired_seed_abandons' = expired_seed_abandons,
           intent[r].status # "Abandoned",
           i.status = "Abandoned" => i.close_slot = 0 \/ i.seed_slot # 0
    PROVE  SkippedDrawsCounted'
<1>1. \A q \in Rounds : intent'[q] = IF q = r THEN i ELSE intent[q]
  BY DEF IInv, TypeOK
<1>2. SkippedDraws' = SkippedDraws
  BY <1>1 DEF SkippedDraws
<1>. QED
  BY <1>2 DEF IInv, SkippedDrawsCounted

(* Advancing the intent of the live round without ending it. *)
LEMMA LiveStep ==
    ASSUME IInv, NEW r \in Rounds, NEW i \in Intent, intent' = [intent EXCEPT ![r] = i],
           UNCHANGED next_round_id,
           r = next_round_id, i.status \in Live
    PROVE  OneLiveRound'
<1>1. \A q \in Rounds : intent'[q] = IF q = r THEN i ELSE intent[q]
  BY DEF IInv, TypeOK
<1>. QED
  BY <1>1 DEF IInv, OneLiveRound, TypeOK

(* Ending the live round. *)
LEMMA EndStep ==
    ASSUME IInv, NEW r \in Rounds, NEW i \in Intent, intent' = [intent EXCEPT ![r] = i],
           next_round_id' = next_round_id + 1,
           r = next_round_id, i.status \in {"Committed", "Abandoned"}
    PROVE  OneLiveRound'
<1>1. \A q \in Rounds : intent'[q] = IF q = r THEN i ELSE intent[q]
  BY DEF IInv, TypeOK
<1>2. next_round_id \in Nat
  BY DEF IInv, TypeOK
<1>. QED
  BY <1>1, <1>2 DEF IInv, OneLiveRound, TypeOK

----------------------------------------------------------------------------
(* The invariant. *)

LEMMA InitIInv == Init => IInv
<1>. SUFFICES ASSUME Init PROVE IInv
  OBVIOUS
<1>1. /\ \A r \in Rounds : intent[r] = EmptyIntent /\ round[r] = NoRound
      /\ slotHashes \in Seq(Nat) /\ Len(slotHashes) = HashWindow
      /\ produced \in SUBSET Nat
  BY DEF Init
<1>2. EmptyIntent \in Intent /\ NoRound \in RoundHeader
  BY DEF EmptyIntent, NoRound, Intent, RoundHeader
<1>3. TypeOK
  BY <1>1, <1>2 DEF Init, TypeOK
<1>4. Sysvar(slotHashes, HashWindow, produced, slot)
  <2>1. /\ \A i \in 1 .. HashWindow : slotHashes[i] = HashWindow - i
        /\ produced = 0 .. (HashWindow - 1) /\ slot = HashWindow
    BY DEF Init
  <2>2. ASSUME NEW p \in produced PROVE \E i \in 1 .. HashWindow : slotHashes[i] = p
    <3>1. HashWindow - p \in 1 .. HashWindow /\ slotHashes[HashWindow - p] = p
      BY <2>1
    <3>. QED
      BY <3>1
  <2>. QED
    BY <1>1, <2>1, <2>2 DEF Sysvar
<1>5. OneLiveRound
  BY <1>1 DEF Init, OneLiveRound, EmptyIntent, Live
<1>6. \A r \in Rounds : IntentOK(intent[r]) /\ HeaderOK(round[r], intent[r])
  BY <1>1 DEF Init, IntentOK, HeaderOK, EmptyIntent, NoRound
<1>7. SkippedDrawsCounted
  <2>1. SkippedDraws = {}
    BY <1>1 DEF SkippedDraws, EmptyIntent
  <2>. QED
    BY <2>1, FS_EmptySet DEF Init, SkippedDrawsCounted
<1>8. slot # 0 /\ PendingIsAnotherKey
  BY DEF Init, PendingIsAnotherKey
<1>. QED
  BY <1>3, <1>4, <1>5, <1>6, <1>7, <1>8 DEF IInv

(* A step that leaves the chain and every round alone. *)
LEMMA AuthorityStep ==
    ASSUME IInv, UNCHANGED <<clock, next_round_id, expired_seed_abandons, intent, round>>,
           root_authority' \in Keys, pending_root_authority' \in Keys \cup {NoKey},
           pending_root_authority' # root_authority'
    PROVE  IInv'
<1>1. TypeOK'
  BY DEF IInv, TypeOK, clock
<1>2. SkippedDraws' = SkippedDraws
  BY DEF SkippedDraws
<1>3. (\A r \in Rounds : IntentOK(intent[r]) /\ HeaderOK(round[r], intent[r]))'
  BY DEF IInv, IntentOK, HeaderOK, Windowed, IsFirstAtOrAfter, clock
<1>4. (OneLiveRound /\ SkippedDrawsCounted /\ PendingIsAnotherKey)'
  BY <1>2 DEF IInv, OneLiveRound, SkippedDrawsCounted, PendingIsAnotherKey
<1>5. (slot # 0 /\ Sysvar(slotHashes, HashWindow, produced, slot))'
  BY DEF IInv, clock
<1>. QED
  BY <1>1, <1>3, <1>4, <1>5 DEF IInv

LEMMA OpenRoundStep ==
    ASSUME IInv, NEW signer, NEW r \in Rounds, NEW secret \in Secrets,
           OpenRound(signer, r, secret)
    PROVE  IInv'
<1>. DEFINE i == [intent[r] EXCEPT !.status = "Open", !.secret_commitment = secret,
                                   !.open_slot = slot, !.open_ts = now]
<1>1. /\ UNCHANGED <<clock, authority, next_round_id, expired_seed_abandons, round>>
      /\ intent' = [intent EXCEPT ![r] = i]
      /\ r = next_round_id /\ intent[r].status = "None"
  BY DEF OpenRound
<1>2. IntentOK(intent[r]) /\ HeaderOK(round[r], intent[r]) /\ intent[r] \in Intent
      /\ round \in [Rounds -> RoundHeader] /\ now \in Nat /\ slot \in Nat
      /\ next_round_id \in Nat /\ expired_seed_abandons \in Nat
  BY DEF IInv, TypeOK
<1>3. i \in Intent
  BY <1>2 DEF Intent
<1>4. /\ i.status = "Open" /\ i.secret_commitment = secret
      /\ i.open_slot = slot /\ i.open_ts = now
      /\ i.close_slot = intent[r].close_slot /\ i.close_ts = intent[r].close_ts
      /\ i.seed_slot = intent[r].seed_slot
  BY <1>2 DEF Intent
<1>. HIDE DEF i
<1>5. IntentOK(i)
  BY <1>1, <1>2, <1>4 DEF IntentOK
<1>6. HeaderOK(round[r], i)
  BY <1>1, <1>2, <1>4 DEF HeaderOK
<1>7. OneLiveRound' /\ SkippedDrawsCounted'
  BY <1>1, <1>3, <1>4, LiveStep, NoDrawSkipped DEF Live
<1>. QED
  BY <1>1, <1>2, <1>3, <1>5, <1>6, <1>7, IntentStep

LEMMA CloseWindowStep ==
    ASSUME IInv, NEW signer, NEW r \in Rounds, NEW head \in ChainHeads, NEW count \in {0, 1},
           NEW feed \in Feeds, CloseWindow(signer, r, head, count, feed)
    PROVE  IInv'
<1>. DEFINE i == [intent[r] EXCEPT !.status = "Closed", !.close_slot = slot, !.close_ts = now,
                                   !.snapshot_chain_head = head, !.snapshot_count = count,
                                   !.sol_usd_price = feed.price]
<1>1. /\ UNCHANGED <<clock, authority, next_round_id, expired_seed_abandons, round>>
      /\ intent' = [intent EXCEPT ![r] = i]
      /\ intent[r].status = "Open" /\ count >= 1 /\ now - intent[r].open_ts >= MinWindowSecs
  BY DEF CloseWindow
<1>2. IntentOK(intent[r]) /\ HeaderOK(round[r], intent[r]) /\ intent[r] \in Intent
      /\ round \in [Rounds -> RoundHeader] /\ now \in Nat /\ slot \in Nat /\ slot # 0
      /\ next_round_id \in Nat /\ expired_seed_abandons \in Nat
  BY DEF IInv, TypeOK
<1>3. i \in Intent
  <2>1. feed.price \in Int /\ count \in Nat
    OBVIOUS
  <2>. QED
    BY <1>2, <2>1 DEF Intent
<1>4. /\ i.status = "Closed" /\ i.secret_commitment = intent[r].secret_commitment
      /\ i.open_slot = intent[r].open_slot /\ i.open_ts = intent[r].open_ts
      /\ i.close_slot = slot /\ i.close_ts = now /\ i.snapshot_count = count
      /\ i.seed_slot = intent[r].seed_slot
  BY <1>2 DEF Intent
<1>5. r = next_round_id /\ intent[r].open_ts \in Nat /\ intent[r].open_slot \in Nat
  BY <1>1, <1>2, LiveIsCurrent DEF Live, Intent
<1>. HIDE DEF i
<1>6. IntentOK(i)
  <2>1. Windowed(i)
    BY <1>1, <1>2, <1>4, <1>5 DEF IntentOK, Windowed
  <2>. QED
    BY <1>1, <1>2, <1>4, <1>5, <2>1 DEF IntentOK
<1>7. HeaderOK(round[r], i)
  BY <1>1, <1>2, <1>4 DEF HeaderOK
<1>8. OneLiveRound' /\ SkippedDrawsCounted'
  BY <1>1, <1>3, <1>4, <1>5, LiveStep, NoDrawSkipped DEF Live
<1>. QED
  BY <1>1, <1>2, <1>3, <1>6, <1>7, <1>8, IntentStep

LEMMA RecordSeedStep ==
    ASSUME IInv, NEW r \in Rounds, RecordSeed(r)
    PROVE  IInv'
<1>. DEFINE i == [intent[r] EXCEPT !.status = "Seeded", !.seed_slot = SeedLookup(r).slot,
                                   !.seed_ts = now]
<1>1. /\ UNCHANGED <<clock, authority, next_round_id, expired_seed_abandons, round>>
      /\ intent' = [intent EXCEPT ![r] = i]
      /\ intent[r].status = "Closed" /\ SeedLookup(r).kind = "Found"
  BY DEF RecordSeed
<1>2. IntentOK(intent[r]) /\ HeaderOK(round[r], intent[r]) /\ intent[r] \in Intent
      /\ round \in [Rounds -> RoundHeader] /\ now \in Nat
      /\ next_round_id \in Nat /\ expired_seed_abandons \in Nat
  BY DEF IInv, TypeOK
<1>3. /\ IsFirstAtOrAfter(SeedLookup(r).slot, intent[r].close_slot + SeedSlotOffset)
      /\ SeedLookup(r).slot \in Nat /\ SeedLookup(r).slot # 0
  <2>1. IsFirstAtOrAfter(SeedLookup(r).slot, SeedTarget(r))
    BY <1>1, SeedLookupMeaning
  <2>2. produced \in SUBSET Nat /\ SeedTarget(r) \in Nat /\ SeedTarget(r) > 0
    <3>1. intent[r].close_slot \in Nat
      BY <1>2 DEF Intent
    <3>. QED
      BY <3>1, SeedTargetType DEF IInv, TypeOK
  <2>3. IsFirstAtOrAfter(SeedLookup(r).slot, intent[r].close_slot + SeedSlotOffset)
    BY <2>1 DEF SeedTarget
  <2>4. ASSUME NEW s, NEW t \in Nat, t > 0, IsFirstAtOrAfter(s, t)
        PROVE  s \in Nat /\ s # 0
    BY <2>2, <2>4 DEF IsFirstAtOrAfter
  <2>5. SeedLookup(r).slot \in Nat /\ SeedLookup(r).slot # 0
    BY <2>1, <2>2, <2>4
  <2>. QED
    BY <2>3, <2>5
<1>4. i \in Intent
  BY <1>2, <1>3 DEF Intent
<1>5. /\ i.status = "Seeded" /\ i.secret_commitment = intent[r].secret_commitment
      /\ i.open_slot = intent[r].open_slot /\ i.open_ts = intent[r].open_ts
      /\ i.close_slot = intent[r].close_slot /\ i.close_ts = intent[r].close_ts
      /\ i.snapshot_count = intent[r].snapshot_count
      /\ i.seed_slot = SeedLookup(r).slot /\ i.seed_ts = now
  BY <1>2 DEF Intent
<1>6. r = next_round_id /\ intent[r].close_ts \in Nat
  BY <1>1, <1>2, LiveIsCurrent DEF Live, Intent
<1>. HIDE DEF i
<1>7. IntentOK(i)
  BY <1>1, <1>2, <1>3, <1>5, <1>6 DEF IntentOK, Windowed
<1>8. HeaderOK(round[r], i)
  BY <1>1, <1>2, <1>5 DEF HeaderOK
<1>9. OneLiveRound' /\ SkippedDrawsCounted'
  BY <1>1, <1>4, <1>5, <1>6, LiveStep, NoDrawSkipped DEF Live
<1>. QED
  BY <1>1, <1>2, <1>4, <1>7, <1>8, <1>9, IntentStep

LEMMA CommitRoundStep ==
    ASSUME IInv, NEW signer, NEW r \in Rounds, NEW secret \in Secrets,
           NEW count \in AssetCounts, NEW allow \in SUBSET (0 .. MaxAssets),
           NEW lead \in ExpiryLeads, CommitRound(signer, r, secret, count, allow, lead)
    PROVE  IInv'
<1>. DEFINE i == [intent[r] EXCEPT !.status = "Committed"]
            h == [committed |-> TRUE, asset_count |-> count, allow_freeze |-> allow,
                  committed_ts |-> now, expiry_ts |-> now + lead,
                  window_start_slot |-> intent[r].open_slot,
                  window_end_slot |-> intent[r].close_slot]
<1>1. /\ UNCHANGED <<clock, authority, expired_seed_abandons>>
      /\ next_round_id' = next_round_id + 1
      /\ intent' = [intent EXCEPT ![r] = i]
      /\ round' = [round EXCEPT ![r] = h]
      /\ r = next_round_id /\ intent[r].status = "Seeded" /\ lead >= MinExpirySecs
  BY DEF CommitRound
<1>2. IntentOK(intent[r]) /\ HeaderOK(round[r], intent[r]) /\ intent[r] \in Intent
      /\ round \in [Rounds -> RoundHeader] /\ now \in Nat
      /\ next_round_id \in Nat /\ expired_seed_abandons \in Nat
  BY DEF IInv, TypeOK
<1>3. i \in Intent /\ h \in RoundHeader
  <2>1. /\ intent[r].open_slot \in Nat /\ intent[r].close_slot \in Nat
        /\ count \in Nat /\ lead \in Int /\ allow \in SUBSET Nat
    <3>1. intent[r].open_slot \in Nat /\ intent[r].close_slot \in Nat
      BY <1>2 DEF Intent
    <3>2. count \in Nat /\ lead \in Int
      OBVIOUS
    <3>3. allow \in SUBSET Nat
      OBVIOUS
    <3>. QED
      BY <3>1, <3>2, <3>3
  <2>2. i \in Intent
    BY <1>2 DEF Intent
  <2>3. now + lead \in Int
    BY <1>2, <2>1
  <2>4. h \in RoundHeader
    BY <1>2, <2>1, <2>3 DEF RoundHeader
  <2>. QED
    BY <2>2, <2>4
<1>4. /\ i.status = "Committed" /\ i.secret_commitment = intent[r].secret_commitment
      /\ i.open_slot = intent[r].open_slot /\ i.open_ts = intent[r].open_ts
      /\ i.close_slot = intent[r].close_slot /\ i.close_ts = intent[r].close_ts
      /\ i.snapshot_count = intent[r].snapshot_count
      /\ i.seed_slot = intent[r].seed_slot /\ i.seed_ts = intent[r].seed_ts
  BY <1>2 DEF Intent
<1>5. /\ h.committed /\ h.committed_ts = now /\ h.expiry_ts = now + lead
      /\ h.window_start_slot = intent[r].open_slot /\ h.window_end_slot = intent[r].close_slot
  OBVIOUS
<1>. HIDE DEF i, h
<1>6. /\ round' \in [Rounds -> RoundHeader] /\ round'[r] = h
      /\ \A q \in Rounds \ {r} : round'[q] = round[q]
  BY <1>1, <1>2, <1>3
<1>7. IntentOK(i)
  BY <1>1, <1>2, <1>4 DEF IntentOK, Windowed
<1>8. HeaderOK(h, i)
  <2>1. intent[r].seed_slot # 0 /\ intent[r].seed_ts <= now
    BY <1>1, <1>2 DEF IntentOK
  <2>2. intent[r].seed_ts \in Nat /\ lead \in Int
    BY <1>2 DEF Intent
  <2>. QED
    BY <1>1, <1>2, <1>4, <1>5, <2>1, <2>2 DEF HeaderOK
<1>9. OneLiveRound'
  BY <1>1, <1>3, <1>4, EndStep
<1>10. SkippedDrawsCounted'
  BY <1>1, <1>3, <1>4, NoDrawSkipped
<1>11. HeaderOK(round'[r], i)
  BY <1>6, <1>8
<1>12. next_round_id' \in Nat /\ expired_seed_abandons' \in Nat
  BY <1>1, <1>2
<1>. QED
  BY <1>1, <1>3, <1>6, <1>7, <1>9, <1>10, <1>11, <1>12, IntentStep

(* The three reasons to abandon a round. *)
LEMMA AbandonReasons ==
    ASSUME NEW r \in Rounds, AbandonReason(r) # "CannotAbandon"
    PROVE  \/ intent[r].status = "Open" /\ AbandonReason(r) = "WindowOpen"
           \/ /\ intent[r].status = "Closed" /\ AbandonReason(r) = "SeedExpired"
              /\ SeedLookup(r).kind = "Expired"
              /\ now >= intent[r].close_ts + ExpiredSeedDelay
           \/ /\ intent[r].status = "Seeded" /\ AbandonReason(r) = "SecretLost"
              /\ now >= intent[r].seed_ts + SeededDelay
BY DEF AbandonReason

LEMMA AbandonRoundStep ==
    ASSUME IInv, NEW signer, NEW r \in Rounds, AbandonRound(signer, r)
    PROVE  IInv'
<1>. DEFINE i == [intent[r] EXCEPT !.status = "Abandoned"]
            n == expired_seed_abandons +
                    (IF AbandonReason(r) = "SeedExpired" THEN 1 ELSE 0)
<1>1. /\ UNCHANGED <<clock, authority, round>>
      /\ next_round_id' = next_round_id + 1
      /\ expired_seed_abandons' = n
      /\ intent' = [intent EXCEPT ![r] = i]
      /\ r = next_round_id
      /\ AbandonReason(r) # "CannotAbandon"
  BY DEF AbandonRound
<1>2. IntentOK(intent[r]) /\ HeaderOK(round[r], intent[r]) /\ intent[r] \in Intent
      /\ round \in [Rounds -> RoundHeader] /\ intent \in [Rounds -> Intent]
      /\ next_round_id \in Nat /\ expired_seed_abandons \in Nat
  BY DEF IInv, TypeOK
<1>3. i \in Intent
  BY <1>2 DEF Intent
<1>4. /\ i.status = "Abandoned" /\ i.secret_commitment = intent[r].secret_commitment
      /\ i.open_slot = intent[r].open_slot /\ i.open_ts = intent[r].open_ts
      /\ i.close_slot = intent[r].close_slot /\ i.close_ts = intent[r].close_ts
      /\ i.snapshot_count = intent[r].snapshot_count
      /\ i.seed_slot = intent[r].seed_slot /\ i.seed_ts = intent[r].seed_ts
  BY <1>2 DEF Intent
<1>5. n \in Nat
  BY <1>2
<1>. HIDE DEF i
<1>6. IntentOK(i)
  BY <1>2, <1>4 DEF IntentOK, Windowed
<1>7. intent[r].status \in Live
  BY <1>1, AbandonReasons DEF Live
<1>8. HeaderOK(round[r], i)
  BY <1>2, <1>4, <1>7 DEF HeaderOK, Live
<1>9. OneLiveRound'
  BY <1>1, <1>3, <1>4, EndStep
<1>10. SkippedDrawsCounted'
  <2>1. CASE AbandonReason(r) # "SeedExpired"
    <3>1. intent[r].close_slot = 0 \/ intent[r].seed_slot # 0
      BY <1>1, <1>2, <2>1, AbandonReasons DEF IntentOK
    <3>2. n = expired_seed_abandons /\ intent[r].status # "Abandoned"
      BY <1>2, <1>7, <2>1 DEF Live
    <3>. QED
      BY <1>1, <1>3, <1>4, <3>1, <3>2, NoDrawSkipped
  <2>2. CASE AbandonReason(r) = "SeedExpired"
    <3>1. intent[r].status = "Closed"
      BY <1>1, <2>2, AbandonReasons
    <3>2. intent[r].close_slot # 0 /\ intent[r].seed_slot = 0
      BY <1>2, <3>1 DEF IntentOK
    <3>3. \A q \in Rounds : intent'[q] = IF q = r THEN i ELSE intent[q]
      BY <1>1, <1>2
    <3>4. SkippedDraws' = SkippedDraws \cup {r} /\ r \notin SkippedDraws
      BY <1>4, <3>1, <3>2, <3>3 DEF SkippedDraws
    <3>5. Cardinality(SkippedDraws') = Cardinality(SkippedDraws) + 1
      BY <3>4, SkippedDrawsFinite, FS_AddElement
    <3>6. expired_seed_abandons' = expired_seed_abandons + 1
      BY <1>1, <2>2
    <3>. QED
      BY <3>5, <3>6 DEF IInv, SkippedDrawsCounted
  <2>. QED
    BY <2>1, <2>2
<1>11. /\ round' \in [Rounds -> RoundHeader] /\ HeaderOK(round'[r], i)
       /\ \A q \in Rounds \ {r} : round'[q] = round[q]
  BY <1>1, <1>2, <1>8
<1>12. next_round_id' \in Nat /\ expired_seed_abandons' \in Nat
  BY <1>1, <1>2, <1>5
<1>. QED
  BY <1>1, <1>3, <1>6, <1>9, <1>10, <1>11, <1>12, IntentStep

LEMMA NextBlockStep ==
    ASSUME IInv, NEW skipped \in 0 .. MaxSkip, NEW dt \in SecsPerSlot, NextBlock(skipped, dt)
    PROVE  IInv'
<1>1. /\ slot' = slot + 1 + skipped /\ now' = now + dt
      /\ slotHashes' = Push(slotHashes, slot, HashWindow)
      /\ produced' = produced \cup {slot}
      /\ UNCHANGED <<authority, next_round_id, expired_seed_abandons, intent, round>>
  BY DEF NextBlock
<1>2. /\ slot \in Nat /\ now \in Nat /\ produced \in SUBSET Nat /\ skipped \in Nat /\ dt \in Nat
      /\ Sysvar(slotHashes, HashWindow, produced, slot)
      /\ intent \in [Rounds -> Intent]
  BY DEF IInv, TypeOK
<1>3. slot' \in Nat /\ now' \in Nat /\ slot' > slot /\ now' >= now /\ slot' # 0
  BY <1>1, <1>2
<1>4. Sysvar(slotHashes, HashWindow, produced, slot)'
  BY <1>1, <1>2, <1>3, PushKeepsSysvar
<1>5. TypeOK'
  <2>1. slotHashes' \in Seq(Nat)
    BY <1>4 DEF Sysvar
  <2>. QED
    BY <1>1, <1>2, <1>3, <2>1 DEF IInv, TypeOK, authority
<1>6. ASSUME NEW r \in Rounds PROVE (IntentOK(intent[r]) /\ HeaderOK(round[r], intent[r]))'
  <2>1. IntentOK(intent[r]) /\ HeaderOK(round[r], intent[r])
    BY DEF IInv
  <2>2. /\ intent[r].open_slot \in Nat /\ intent[r].close_slot \in Nat
        /\ intent[r].open_ts \in Nat /\ intent[r].close_ts \in Nat /\ intent[r].seed_ts \in Nat
        /\ intent[r].seed_slot \in Nat
    BY <1>2 DEF Intent
  <2>3. intent'[r] = intent[r] /\ round'[r] = round[r]
    BY <1>1
  <2>4. ASSUME intent[r].seed_slot # 0
        PROVE  IsFirstAtOrAfter(intent[r].seed_slot, intent[r].close_slot + SeedSlotOffset)'
    <3>1. IsFirstAtOrAfter(intent[r].seed_slot, intent[r].close_slot + SeedSlotOffset)
      BY <2>1, <2>4 DEF IntentOK
    <3>2. intent[r].seed_slot < slot
      BY <1>2, <3>1 DEF IsFirstAtOrAfter, Sysvar
    <3>3. intent[r].close_slot + SeedSlotOffset \in Nat
      BY <2>2
    <3>. QED
      BY <1>1, <1>2, <2>2, <2>3, <3>1, <3>2, <3>3 DEF IsFirstAtOrAfter
  <2>5. IntentOK(intent[r])'
    <3>1. /\ intent[r].open_slot <= slot' /\ intent[r].close_slot <= slot'
          /\ intent[r].open_ts <= now' /\ intent[r].close_ts <= now'
          /\ intent[r].seed_slot # 0 => intent[r].seed_ts <= now'
      <4>1. slot <= slot' /\ now <= now' /\ slot' \in Nat /\ now' \in Nat
        BY <1>2, <1>3
      <4>2. /\ intent[r].open_slot <= slot /\ intent[r].close_slot <= slot
            /\ intent[r].open_ts <= now /\ intent[r].close_ts <= now
            /\ intent[r].seed_slot # 0 => intent[r].seed_ts <= now
        BY <2>1 DEF IntentOK
      <4>3. /\ intent[r].open_slot \in Nat /\ intent[r].close_slot \in Nat
            /\ intent[r].open_ts \in Nat /\ intent[r].close_ts \in Nat
            /\ intent[r].seed_ts \in Nat
        BY <2>2
      <4>4. slot \in Nat /\ now \in Nat
        BY <1>2
      <4>5. intent[r].open_slot <= slot' /\ intent[r].close_slot <= slot'
        BY <4>1, <4>2, <4>3, <4>4
      <4>6. intent[r].open_ts <= now' /\ intent[r].close_ts <= now'
        BY <4>1, <4>2, <4>3, <4>4
      <4>7. intent[r].seed_slot # 0 => intent[r].seed_ts <= now'
        BY <4>1, <4>2, <4>3, <4>4
      <4>. QED
        BY <4>5, <4>6, <4>7
    <3>. QED
      BY <2>1, <2>3, <2>4, <3>1 DEF IntentOK, Windowed
  <2>. QED
    BY <2>1, <2>3, <2>5 DEF HeaderOK
<1>7. (OneLiveRound /\ PendingIsAnotherKey)'
  BY <1>1 DEF IInv, OneLiveRound, PendingIsAnotherKey, authority
<1>8. SkippedDrawsCounted'
  <2>1. SkippedDraws' = SkippedDraws
    BY <1>1 DEF SkippedDraws
  <2>. QED
    BY <1>1, <2>1 DEF IInv, SkippedDrawsCounted
<1>. QED
  BY <1>3, <1>4, <1>5, <1>6, <1>7, <1>8 DEF IInv

LEMMA NextIInv == IInv /\ [Next]_vars => IInv'
<1>. SUFFICES ASSUME IInv, [Next]_vars PROVE IInv'
  OBVIOUS
<1>0. /\ root_authority \in Keys /\ pending_root_authority \in Keys \cup {NoKey}
      /\ pending_root_authority # root_authority
  BY DEF IInv, TypeOK, PendingIsAnotherKey
<1>1. ASSUME NEW signer \in Keys, NEW new \in Keys, ProposeRootAuthority(signer, new)
      PROVE  IInv'
  BY <1>0, <1>1, AuthorityStep DEF ProposeRootAuthority
<1>2. ASSUME NEW signer \in Keys, AcceptRootAuthority(signer)
      PROVE  IInv'
  BY <1>0, <1>2, AuthorityStep DEF AcceptRootAuthority
<1>3. CASE UNCHANGED vars
  BY <1>0, <1>3, AuthorityStep DEF vars, authority
<1>. QED
  BY <1>1, <1>2, <1>3, OpenRoundStep, CloseWindowStep, RecordSeedStep, CommitRoundStep,
     AbandonRoundStep, NextBlockStep DEF Next

THEOREM Inductive == Spec => []IInv
<1>. QED
  BY InitIInv, NextIInv, PTL DEF Spec

----------------------------------------------------------------------------
(* The results. *)

(***************************************************************************)
(* The accounts always have their types (state.rs).                        *)
(***************************************************************************)
THEOREM TypeCorrect == Spec => []TypeOK
<1>1. IInv => TypeOK
  BY DEF IInv
<1>. QED
  BY <1>1, Inductive, PTL

(***************************************************************************)
(* Rounds are sampled one at a time and in order, although close_window    *)
(* and record_seed never look at next_round_id (round_intent.rs 58-143).   *)
(***************************************************************************)
THEOREM RoundsAreSequential == Spec => []OneLiveRound
<1>1. IInv => OneLiveRound
  BY DEF IInv
<1>. QED
  BY <1>1, Inductive, PTL

(***************************************************************************)
(* Every recorded seed is the first block at or after its target           *)
(* (slot_hashes.rs 1-6), for a sysvar of any size.                         *)
(***************************************************************************)
THEOREM SeedIsDetermined == Spec => []SeedIsFirstBlock
<1>1. IInv => SeedIsFirstBlock
  BY DEF IInv, SeedIsFirstBlock, SeedRecorded, SeedTarget, IntentOK
<1>. QED
  BY <1>1, Inductive, PTL

(***************************************************************************)
(* The secret and the window are fixed before the seed block exists        *)
(* (lib.rs 10-13).                                                         *)
(***************************************************************************)
THEOREM SecretBeforeSeed == Spec => []SamplingOrder
<1>1. ASSUME IInv, NEW r \in Rounds
      PROVE  /\ SeedRecorded(r) =>
                  /\ intent[r].secret_commitment \in Secrets
                  /\ intent[r].open_slot <= intent[r].close_slot
                  /\ intent[r].close_slot < intent[r].seed_slot
                  /\ intent[r].close_ts >= intent[r].open_ts + MinWindowSecs
                  /\ intent[r].snapshot_count >= 1
             /\ round[r].committed <=> intent[r].status = "Committed"
             /\ round[r].committed =>
                  /\ SeedRecorded(r)
                  /\ round[r].window_start_slot = intent[r].open_slot
                  /\ round[r].window_end_slot = intent[r].close_slot
                  /\ round[r].committed_ts >= intent[r].seed_ts
                  /\ round[r].expiry_ts >= round[r].committed_ts + MinExpirySecs
  <2>1. /\ IntentOK(intent[r]) /\ HeaderOK(round[r], intent[r])
        /\ intent[r] \in Intent /\ produced \in SUBSET Nat
    BY <1>1 DEF IInv, TypeOK
  <2>2. SeedRecorded(r) => intent[r].close_slot # 0 /\ Windowed(intent[r])
    BY <2>1 DEF SeedRecorded, IntentOK
  <2>3. ASSUME SeedRecorded(r) PROVE intent[r].close_slot < intent[r].seed_slot
    <3>1. IsFirstAtOrAfter(intent[r].seed_slot, intent[r].close_slot + SeedSlotOffset)
      BY <2>1, <2>3 DEF SeedRecorded, IntentOK
    <3>2. intent[r].close_slot \in Nat
      BY <2>1 DEF Intent
    <3>3. intent[r].seed_slot \in Nat
      BY <2>1 DEF Intent
    <3>. QED
      BY <3>1, <3>2, <3>3 DEF IsFirstAtOrAfter
  <2>4. round[r].committed => SeedRecorded(r)
    BY <2>1 DEF SeedRecorded, IntentOK, HeaderOK
  <2>. QED
    BY <2>1, <2>2, <2>3, <2>4 DEF Windowed, HeaderOK
<1>2. IInv => SamplingOrder
  BY <1>1 DEF SamplingOrder
<1>. QED
  BY <1>2, Inductive, PTL

(***************************************************************************)
(* The public counter counts every draw that was skipped, and only those   *)
(* (state.rs 56-58).                                                       *)
(***************************************************************************)
THEOREM NoDrawSkippedUncounted == Spec => []SkippedDrawsCounted
<1>1. IInv => SkippedDrawsCounted
  BY DEF IInv
<1>. QED
  BY <1>1, Inductive, PTL

(***************************************************************************)
(* A pending root authority is never the present one (distributor.rs       *)
(* 84-88).                                                                 *)
(***************************************************************************)
THEOREM HandOverChangesAuthority == Spec => []PendingIsAnotherKey
<1>1. IInv => PendingIsAnotherKey
  BY DEF IInv
<1>. QED
  BY <1>1, Inductive, PTL

(***************************************************************************)
(* All of it together: the lifecycle of the rounds as the program keeps it *)
(* (round_intent.rs, commit_round.rs, distributor.rs).                     *)
(***************************************************************************)
THEOREM LifecycleKept == Spec => []Lifecycle
<1>1. TypeOK /\ OneLiveRound /\ SamplingOrder /\ SkippedDrawsCounted /\ PendingIsAnotherKey => Lifecycle
  BY DEF Lifecycle
<1>. QED
  BY <1>1, TypeCorrect, RoundsAreSequential, SecretBeforeSeed, NoDrawSkippedUncounted,
     HandOverChangesAuthority, PTL

(***************************************************************************)
(* Discarding a closed round takes a public draw and a day                 *)
(* (round_intent.rs 14-15).                                                *)
(***************************************************************************)
THEOREM DiscardIsCostly == Spec => DiscardedDrawCostsADay
<1>. DEFINE Costly(r) ==
        (intent[r].status \in {"Closed", "Seeded"} /\ intent'[r].status = "Abandoned") =>
            /\ now >= intent[r].close_ts + ExpiredSeedDelay
            /\ \E p \in produced : p >= SeedTarget(r)
<1>1. ASSUME IInv, NEW r \in Rounds, NEW signer, NEW q \in Rounds, AbandonRound(signer, q)
      PROVE  Costly(r)
  <2>1. SUFFICES ASSUME r = q, intent[r].status \in {"Closed", "Seeded"}
                 PROVE  /\ now >= intent[r].close_ts + ExpiredSeedDelay
                        /\ \E p \in produced : p >= SeedTarget(r)
    <3>1. r # q => intent'[r] = intent[r]
      BY <1>1 DEF AbandonRound, IInv, TypeOK
    <3>. QED
      BY <3>1
  <2>2. /\ IntentOK(intent[r]) /\ SeedTarget(r) \in Nat /\ now \in Nat
        /\ intent[r].close_ts \in Nat /\ intent[r].seed_ts \in Nat
        /\ Sysvar(slotHashes, HashWindow, produced, slot)
        /\ produced \in SUBSET Nat
    BY <1>1, SeedTargetType DEF IInv, TypeOK, Intent
  <2>3. CASE intent[r].status = "Closed"
    <3>1. SeedLookup(r).kind = "Expired" /\ now >= intent[r].close_ts + ExpiredSeedDelay
      BY <1>1, <2>1, <2>3, AbandonReasons DEF AbandonRound
    <3>2. slotHashes[HashWindow] > SeedTarget(r)
      BY <1>1, <3>1, SeedLookupMeaning
    <3>3. slotHashes[HashWindow] \in produced
      BY <2>2 DEF Sysvar
    <3>4. slotHashes[HashWindow] >= SeedTarget(r)
      <4>. DEFINE oldest == slotHashes[HashWindow]
                  target == SeedTarget(r)
      <4>1. oldest \in Nat /\ target \in Nat /\ oldest > target
        BY <2>2, <3>2, <3>3
      <4>. HIDE DEF oldest, target
      <4>2. oldest >= target
        BY <4>1
      <4>. QED
        BY <4>2 DEF oldest, target
    <3>. QED
      BY <3>1, <3>3, <3>4
  <2>4. CASE intent[r].status = "Seeded"
    <3>1. now >= intent[r].seed_ts + SeededDelay
      BY <1>1, <2>1, <2>4, AbandonReasons DEF AbandonRound
    <3>2. /\ intent[r].seed_ts >= intent[r].close_ts
          /\ IsFirstAtOrAfter(intent[r].seed_slot, SeedTarget(r))
      BY <2>2, <2>4 DEF IntentOK, SeedTarget
    <3>3. now >= intent[r].close_ts + ExpiredSeedDelay
      BY <2>2, <3>1, <3>2
    <3>. QED
      BY <3>2, <3>3 DEF IsFirstAtOrAfter
  <2>. QED
    BY <2>1, <2>3, <2>4
<1>2. ASSUME IInv, NEW r \in Rounds, NEW q \in Rounds, NEW i,
             intent' = [intent EXCEPT ![q] = i], i.status # "Abandoned"
      PROVE  Costly(r)
  <2>1. intent'[r] = IF r = q THEN i ELSE intent[r]
    BY <1>2 DEF IInv, TypeOK
  <2>. QED
    BY <1>2, <2>1
<1>3. ASSUME IInv, NEW r \in Rounds, UNCHANGED intent
      PROVE  Costly(r)
  BY <1>3
<1>4. ASSUME IInv, NEW q \in Rounds
      PROVE  DOMAIN intent[q] = {"status", "secret_commitment", "open_slot", "open_ts",
                "close_slot", "close_ts", "snapshot_chain_head", "snapshot_count",
                "sol_usd_price", "seed_slot", "seed_ts"}
  BY <1>4 DEF IInv, TypeOK, Intent
<1>5. ASSUME IInv, [Next]_vars, NEW r \in Rounds
      PROVE  Costly(r)
  <2>1. ASSUME NEW signer, NEW q \in Rounds, NEW secret, OpenRound(signer, q, secret)
        PROVE  Costly(r)
    <3>. DEFINE i == [intent[q] EXCEPT !.status = "Open", !.secret_commitment = secret,
                                       !.open_slot = slot, !.open_ts = now]
    <3>1. intent' = [intent EXCEPT ![q] = i] /\ i.status # "Abandoned"
      BY <1>4, <1>5, <2>1 DEF OpenRound
    <3>. HIDE DEF i, Costly
    <3>. QED
      BY <1>2, <1>5, <3>1
  <2>2. ASSUME NEW signer, NEW q \in Rounds, NEW head, NEW count, NEW feed,
               CloseWindow(signer, q, head, count, feed)
        PROVE  Costly(r)
    <3>. DEFINE i == [intent[q] EXCEPT !.status = "Closed", !.close_slot = slot,
                                       !.close_ts = now, !.snapshot_chain_head = head,
                                       !.snapshot_count = count, !.sol_usd_price = feed.price]
    <3>1. intent' = [intent EXCEPT ![q] = i]
      BY <2>2 DEF CloseWindow
    <3>2. i.status # "Abandoned"
      BY <1>4, <1>5
    <3>. HIDE DEF i, Costly
    <3>. QED
      BY <1>2, <1>5, <3>1, <3>2
  <2>3. ASSUME NEW q \in Rounds, RecordSeed(q)
        PROVE  Costly(r)
    <3>. DEFINE i == [intent[q] EXCEPT !.status = "Seeded", !.seed_slot = SeedLookup(q).slot,
                                       !.seed_ts = now]
    <3>1. intent' = [intent EXCEPT ![q] = i]
      BY <2>3 DEF RecordSeed
    <3>2. i.status # "Abandoned"
      BY <1>4, <1>5
    <3>. HIDE DEF i, Costly
    <3>. QED
      BY <1>2, <1>5, <3>1, <3>2
  <2>4. ASSUME NEW signer, NEW q \in Rounds, NEW secret, NEW count, NEW allow, NEW lead,
               CommitRound(signer, q, secret, count, allow, lead)
        PROVE  Costly(r)
    <3>. DEFINE i == [intent[q] EXCEPT !.status = "Committed"]
    <3>1. intent' = [intent EXCEPT ![q] = i] /\ i.status # "Abandoned"
      BY <1>4, <1>5, <2>4 DEF CommitRound
    <3>. HIDE DEF i, Costly
    <3>. QED
      BY <1>2, <1>5, <3>1
  <2>5. \/ UNCHANGED intent
        \/ \E signer \in Keys, q \in Rounds : AbandonRound(signer, q)
        \/ \E signer \in Keys, q \in Rounds, secret \in Secrets : OpenRound(signer, q, secret)
        \/ \E signer \in Keys, q \in Rounds, head \in ChainHeads, count \in {0, 1},
              feed \in Feeds : CloseWindow(signer, q, head, count, feed)
        \/ \E q \in Rounds : RecordSeed(q)
        \/ \E signer \in Keys, q \in Rounds, secret \in Secrets, count \in AssetCounts,
              allow \in SUBSET (0 .. MaxAssets), lead \in ExpiryLeads :
                CommitRound(signer, q, secret, count, allow, lead)
    BY <1>5 DEF Next, ProposeRootAuthority, AcceptRootAuthority, NextBlock, vars
  <2>. HIDE DEF Costly
  <2>. QED
    BY <1>1, <1>3, <1>5, <2>1, <2>2, <2>3, <2>4, <2>5
<1>6. IInv /\ [Next]_vars => \A r \in Rounds : Costly(r)
  BY <1>5
<1>7. (\A r \in Rounds : Costly(r)) => [\A r \in Rounds :
          (intent[r].status \in {"Closed", "Seeded"} /\ intent'[r].status = "Abandoned") =>
              /\ now >= intent[r].close_ts + ExpiredSeedDelay
              /\ \E p \in produced : p >= SeedTarget(r)]_vars
  OBVIOUS
<1>. HIDE DEF Costly
<1>. QED
  BY <1>6, <1>7, Inductive, PTL DEF Spec, DiscardedDrawCostsADay

(***************************************************************************)
(* An expired seed stays expired until the round is abandoned              *)
(* (slot_hashes.rs 18-20).                                                 *)
(***************************************************************************)
THEOREM ExpiryIsFinal == Spec => ExpiredForGood
<1>1. ASSUME IInv, [Next]_vars, NEW r \in Rounds, SeedExpired(r)
      PROVE  SeedExpired(r)' \/ intent'[r].status = "Abandoned"
  <2>1. /\ intent[r].status = "Closed" /\ SeedLookup(r).kind = "Expired"
        /\ slotHashes[HashWindow] > SeedTarget(r) /\ SeedTarget(r) \in Nat
        /\ intent \in [Rounds -> Intent]
    BY <1>1, SeedLookupMeaning, SeedTargetType DEF SeedExpired, IInv, TypeOK
  <2>2. ASSUME UNCHANGED slotHashes, intent'[r] = intent[r]
        PROVE  SeedExpired(r)'
    BY <2>1, <2>2 DEF SeedExpired, SeedLookup, SeedTarget
  <2>3. ASSUME NEW skipped \in 0 .. MaxSkip, NEW dt \in SecsPerSlot, NextBlock(skipped, dt)
        PROVE  SeedExpired(r)'
    <3>1. IInv'
      BY <1>1, NextIInv
    <3>2. slotHashes'[HashWindow] > slotHashes[HashWindow]
      BY <1>1, <2>3, PushAges DEF NextBlock, IInv, TypeOK
    <3>3. slotHashes'[HashWindow] \in Nat /\ slotHashes[HashWindow] \in Nat
      BY <1>1, <3>1 DEF IInv, TypeOK, Sysvar
    <3>4. slotHashes'[HashWindow] > SeedTarget(r)
      <4>. DEFINE new == slotHashes'[HashWindow]
                  old == slotHashes[HashWindow]
                  target == SeedTarget(r)
      <4>1. new \in Nat /\ old \in Nat /\ target \in Nat /\ new > old /\ old > target
        BY <2>1, <3>2, <3>3
      <4>. HIDE DEF new, old, target
      <4>2. new > target
        BY <4>1
      <4>. QED
        BY <4>2 DEF new, target
    <3>5. intent' = intent /\ SeedTarget(r)' = SeedTarget(r)
      BY <2>3 DEF NextBlock, SeedTarget
    <3>6. Sysvar(slotHashes', HashWindow, produced', slot') /\ slot' \in Nat
          /\ produced' \in SUBSET Nat
      BY <3>1 DEF IInv, TypeOK
    <3>7. FindSeed(slotHashes', SeedTarget(r)).kind = "Expired"
      BY <2>1, <3>4, <3>6, FindSeedMeaning
    <3>. QED
      BY <2>1, <3>5, <3>7 DEF SeedExpired, SeedLookup
  <2>4. ASSUME NEW signer, NEW q \in Rounds, AbandonRound(signer, q)
        PROVE  intent'[r].status = "Abandoned" \/ SeedExpired(r)'
    <3>1. CASE q = r
      <4>1. intent'[r] = [intent[r] EXCEPT !.status = "Abandoned"]
        BY <2>1, <2>4, <3>1 DEF AbandonRound
      <4>. QED
        BY <2>1, <4>1 DEF Intent
    <3>2. CASE q # r
      BY <2>1, <2>2, <2>4, <3>2 DEF AbandonRound, clock
    <3>. QED
      BY <3>1, <3>2
  <2>5. ASSUME NEW q \in Rounds, NEW i, intent' = [intent EXCEPT ![q] = i],
               UNCHANGED slotHashes, q # r
        PROVE  SeedExpired(r)'
    BY <2>1, <2>2, <2>5
  <2>6. ASSUME NEW q \in Rounds, RecordSeed(q)
        PROVE  SeedExpired(r)'
    <3>1. q # r
      BY <2>1, <2>6 DEF RecordSeed
    <3>. QED
      BY <2>5, <2>6, <3>1 DEF RecordSeed, clock
  <2>7. ASSUME NEW signer, NEW q \in Rounds, NEW secret, OpenRound(signer, q, secret)
        PROVE  SeedExpired(r)'
    <3>1. q # r
      BY <2>1, <2>7 DEF OpenRound
    <3>. QED
      BY <2>5, <2>7, <3>1 DEF OpenRound, clock
  <2>8. ASSUME NEW signer, NEW q \in Rounds, NEW head, NEW count, NEW feed,
               CloseWindow(signer, q, head, count, feed)
        PROVE  SeedExpired(r)'
    <3>1. q # r
      BY <2>1, <2>8 DEF CloseWindow
    <3>. QED
      BY <2>5, <2>8, <3>1 DEF CloseWindow, clock
  <2>9. ASSUME NEW signer, NEW q \in Rounds, NEW secret, NEW count, NEW allow, NEW lead,
               CommitRound(signer, q, secret, count, allow, lead)
        PROVE  SeedExpired(r)'
    <3>1. q # r
      BY <2>1, <2>9 DEF CommitRound
    <3>. QED
      BY <2>5, <2>9, <3>1 DEF CommitRound, clock
  <2>10. ASSUME UNCHANGED <<slotHashes, intent>>
         PROVE  SeedExpired(r)'
    BY <2>2, <2>10
  <2>11. \/ UNCHANGED <<slotHashes, intent>>
         \/ \E signer \in Keys, q \in Rounds : AbandonRound(signer, q)
         \/ \E signer \in Keys, q \in Rounds, secret \in Secrets : OpenRound(signer, q, secret)
         \/ \E signer \in Keys, q \in Rounds, head \in ChainHeads, count \in {0, 1},
               feed \in Feeds : CloseWindow(signer, q, head, count, feed)
         \/ \E q \in Rounds : RecordSeed(q)
         \/ \E signer \in Keys, q \in Rounds, secret \in Secrets, count \in AssetCounts,
               allow \in SUBSET (0 .. MaxAssets), lead \in ExpiryLeads :
                 CommitRound(signer, q, secret, count, allow, lead)
         \/ \E skipped \in 0 .. MaxSkip, dt \in SecsPerSlot : NextBlock(skipped, dt)
    BY <1>1 DEF Next, ProposeRootAuthority, AcceptRootAuthority, vars, clock
  <2>. QED
    BY <2>3, <2>4, <2>6, <2>7, <2>8, <2>9, <2>10, <2>11
<1>2. IInv /\ [Next]_vars => [\A r \in Rounds :
          SeedExpired(r) => SeedExpired(r)' \/ intent'[r].status = "Abandoned"]_vars
  BY <1>1
<1>. QED
  BY <1>2, Inductive, PTL DEF Spec, ExpiredForGood

----------------------------------------------------------------------------
(* Refinement. *)

LEMMA BeginRefined ==
    ASSUME IInv, NEW signer, NEW r \in Rounds, NEW secret \in Secrets,
           OpenRound(signer, r, secret)
    PROVE  Draw!Begin(r)
<1>1. /\ UNCHANGED <<produced, next_round_id, expired_seed_abandons>>
      /\ r = next_round_id /\ intent[r].status = "None"
      /\ intent[r] \in Intent
      /\ \A q \in Rounds : q # r => intent'[q] = intent[q]
      /\ intent'[r] = [intent[r] EXCEPT !.status = "Open", !.secret_commitment = secret,
                                        !.open_slot = slot, !.open_ts = now]
  BY DEF OpenRound, clock, IInv, TypeOK
<1>2. /\ intent'[r].status = "Open" /\ intent'[r].close_slot = intent[r].close_slot
      /\ intent'[r].seed_slot = intent[r].seed_slot
  BY <1>1 DEF Intent
<1>3. \A q \in Rounds : Phase(q)' = IF q = r THEN "sampling" ELSE Phase(q)
  <2>1. \A q \in Rounds : q # r => Phase(q)' = Phase(q)
    BY <1>1, <1>2 DEF Phase, PhaseOf
  <2>2. Phase(r)' = "sampling"
    BY <1>1, <1>2 DEF Phase, PhaseOf
  <2>. QED
    BY <2>1, <2>2
<1>4. \A q \in Rounds : SeedTarget(q)' = SeedTarget(q)
                        /\ intent'[q].close_slot = intent[q].close_slot
                        /\ intent'[q].seed_slot = intent[q].seed_slot
  BY <1>1, <1>2 DEF SeedTarget
<1>5. Phase(r) = "idle"
  BY <1>1 DEF Phase, PhaseOf
<1>6. [q \in Rounds |-> Phase(q)]' = [[q \in Rounds |-> Phase(q)] EXCEPT ![r] = "sampling"]
  BY <1>3
<1>7. [q \in Rounds |-> IF intent[q].close_slot = 0 THEN 0 ELSE SeedTarget(q)]'
        = [q \in Rounds |-> IF intent[q].close_slot = 0 THEN 0 ELSE SeedTarget(q)]
  BY <1>4
<1>8. [q \in Rounds |-> intent[q].seed_slot]' = [q \in Rounds |-> intent[q].seed_slot]
  BY <1>4
<1>9. [q \in Rounds |-> Phase(q)][r] = "idle"
  BY <1>5
<1>. QED
  BY <1>1, <1>6, <1>7, <1>8, <1>9 DEF Draw!Begin

LEMMA FixRefined ==
    ASSUME IInv, NEW signer, NEW r \in Rounds, NEW head \in ChainHeads, NEW count \in {0, 1},
           NEW feed \in Feeds, CloseWindow(signer, r, head, count, feed)
    PROVE  Draw!Fix(r)
<1>1. /\ UNCHANGED <<produced, next_round_id, expired_seed_abandons>>
      /\ intent[r].status = "Open"
      /\ intent[r] \in Intent
      /\ \A q \in Rounds : q # r => intent'[q] = intent[q]
      /\ intent'[r] = [intent[r] EXCEPT !.status = "Closed", !.close_slot = slot,
                                        !.close_ts = now, !.snapshot_chain_head = head,
                                        !.snapshot_count = count, !.sol_usd_price = feed.price]
  BY DEF CloseWindow, clock, IInv, TypeOK
<1>2. /\ intent'[r].status = "Closed" /\ intent'[r].close_slot = slot
      /\ intent'[r].seed_slot = intent[r].seed_slot
  BY <1>1 DEF Intent
<1>3. r = next_round_id
  BY <1>1, LiveIsCurrent DEF Live
<1>4. \A q \in Rounds : Phase(q)' = IF q = r THEN "fixed" ELSE Phase(q)
  <2>1. \A q \in Rounds : q # r => Phase(q)' = Phase(q)
    BY <1>1, <1>2 DEF Phase, PhaseOf
  <2>2. Phase(r)' = "fixed"
    BY <1>1, <1>2 DEF Phase, PhaseOf
  <2>. QED
    BY <2>1, <2>2
<1>5. Phase(r) = "sampling"
  BY <1>1 DEF Phase, PhaseOf
<1>. DEFINE Target(q) == IF intent[q].close_slot = 0 THEN 0 ELSE SeedTarget(q)
            t == slot + SeedSlotOffset
<1>6. slot \in Nat /\ slot # 0 /\ t \in Nat /\ t > 0 /\ \A b \in produced : b < t
  BY DEF IInv, TypeOK, Sysvar
<1>7. \A q \in Rounds : Target(q)' = IF q = r THEN t ELSE Target(q)
  BY <1>1, <1>2, <1>6 DEF SeedTarget
<1>8. \A q \in Rounds : intent'[q].seed_slot = intent[q].seed_slot
  BY <1>1, <1>2
<1>. HIDE DEF Target, t
<1>9. [q \in Rounds |-> Target(q)]' = [[q \in Rounds |-> Target(q)] EXCEPT ![r] = t]
  BY <1>7
<1>10. [q \in Rounds |-> Target(q)]'[r] = t
  BY <1>7
<1>11. [q \in Rounds |-> Phase(q)]' = [[q \in Rounds |-> Phase(q)] EXCEPT ![r] = "fixed"]
  BY <1>4
<1>12. /\ \A q \in Rounds : intent'[q].seed_slot = intent[q].seed_slot
       /\ [q \in Rounds |-> intent[q].seed_slot]' = [q \in Rounds |-> intent[q].seed_slot]
  BY <1>8
<1>13. [q \in Rounds |-> Phase(q)][r] = "sampling"
  BY <1>5
<1>14. \E u \in {[q \in Rounds |-> Target(q)]'[r]} :
          /\ u > 0
          /\ \A b \in produced : b < u
          /\ [q \in Rounds |-> Target(q)]' = [[q \in Rounds |-> Target(q)] EXCEPT ![r] = u]
  BY <1>6, <1>9, <1>10
<1>. QED
  BY <1>1, <1>3, <1>11, <1>12, <1>13, <1>14 DEF Draw!Fix, Target

LEMMA TakeRefined ==
    ASSUME IInv, NEW r \in Rounds, RecordSeed(r)
    PROVE  Draw!Take(r)
<1>. DEFINE b == SeedLookup(r).slot
<1>1. /\ UNCHANGED <<produced, next_round_id, expired_seed_abandons>>
      /\ intent[r].status = "Closed" /\ SeedLookup(r).kind = "Found"
      /\ intent[r] \in Intent
      /\ \A q \in Rounds : q # r => intent'[q] = intent[q]
      /\ intent'[r] = [intent[r] EXCEPT !.status = "Seeded", !.seed_slot = b, !.seed_ts = now]
  BY DEF RecordSeed, clock, IInv, TypeOK
<1>2. IsFirstAtOrAfter(b, SeedTarget(r))
  BY <1>1, SeedLookupMeaning
<1>. HIDE DEF b
<1>3. /\ intent'[r].status = "Seeded" /\ intent'[r].close_slot = intent[r].close_slot
      /\ intent'[r].seed_slot = b
  BY <1>1 DEF Intent
<1>4. r = next_round_id
  BY <1>1, LiveIsCurrent DEF Live
<1>5. \A q \in Rounds : Phase(q)' = IF q = r THEN "drawn" ELSE Phase(q)
  <2>1. \A q \in Rounds : q # r => Phase(q)' = Phase(q)
    BY <1>1, <1>3 DEF Phase, PhaseOf
  <2>2. Phase(r)' = "drawn"
    BY <1>1, <1>3 DEF Phase, PhaseOf
  <2>. QED
    BY <2>1, <2>2
<1>6. Phase(r) = "fixed"
  BY <1>1 DEF Phase, PhaseOf
<1>7. \A q \in Rounds : SeedTarget(q)' = SeedTarget(q)
                        /\ intent'[q].close_slot = intent[q].close_slot
  BY <1>1, <1>3 DEF SeedTarget
<1>8. \A q \in Rounds : intent'[q].seed_slot = IF q = r THEN b ELSE intent[q].seed_slot
  BY <1>1, <1>3
<1>9. intent[r].close_slot # 0
  BY <1>1 DEF IInv, IntentOK
<1>10. b \in produced /\ Draw!IsFirst(b, SeedTarget(r))
  BY <1>2 DEF IsFirstAtOrAfter, Draw!IsFirst, Draw!Revealed
<1>11. [q \in Rounds |-> intent[q].seed_slot]' =
            [[q \in Rounds |-> intent[q].seed_slot] EXCEPT ![r] = b]
  BY <1>8
<1>12. [q \in Rounds |-> Phase(q)]' = [[q \in Rounds |-> Phase(q)] EXCEPT ![r] = "drawn"]
  BY <1>5
<1>13. [q \in Rounds |-> IF intent[q].close_slot = 0 THEN 0 ELSE SeedTarget(q)]' =
            [q \in Rounds |-> IF intent[q].close_slot = 0 THEN 0 ELSE SeedTarget(q)]
  BY <1>7
<1>. QED
  BY <1>1, <1>4, <1>6, <1>9, <1>10, <1>11, <1>12, <1>13 DEF Draw!Take

(* A step that ends round r leaves its target and its draw. *)
LEMMA EndedRound ==
    ASSUME IInv, NEW r \in Rounds, NEW end,
           intent' = [intent EXCEPT ![r] = [intent[r] EXCEPT !.status = end]]
    PROVE  /\ \A q \in Rounds : q # r => intent'[q] = intent[q]
           /\ intent'[r].status = end
           /\ \A q \in Rounds : /\ SeedTarget(q)' = SeedTarget(q)
                                /\ intent'[q].close_slot = intent[q].close_slot
                                /\ intent'[q].seed_slot = intent[q].seed_slot
<1>1. intent[r] \in Intent /\ \A q \in Rounds : q # r => intent'[q] = intent[q]
  BY DEF IInv, TypeOK
<1>2. intent'[r] = [intent[r] EXCEPT !.status = end]
  BY DEF IInv, TypeOK
<1>3. /\ intent'[r].status = end
      /\ intent'[r].close_slot = intent[r].close_slot /\ intent'[r].seed_slot = intent[r].seed_slot
  BY <1>1, <1>2 DEF Intent
<1>. QED
  BY <1>1, <1>3 DEF SeedTarget

LEMMA PublishRefined ==
    ASSUME IInv, NEW signer, NEW r \in Rounds, NEW secret, NEW count, NEW allow, NEW lead,
           CommitRound(signer, r, secret, count, allow, lead)
    PROVE  Draw!Publish(r)
<1>1. /\ UNCHANGED <<produced, expired_seed_abandons>> /\ next_round_id' = next_round_id + 1
      /\ r = next_round_id /\ intent[r].status = "Seeded"
      /\ intent' = [intent EXCEPT ![r] = [intent[r] EXCEPT !.status = "Committed"]]
  BY DEF CommitRound, clock
<1>2. /\ \A q \in Rounds : q # r => intent'[q] = intent[q]
      /\ intent'[r].status = "Committed"
      /\ \A q \in Rounds : /\ SeedTarget(q)' = SeedTarget(q)
                           /\ intent'[q].close_slot = intent[q].close_slot
                           /\ intent'[q].seed_slot = intent[q].seed_slot
  BY <1>1, EndedRound
<1>3. \A q \in Rounds : Phase(q)' = IF q = r THEN "published" ELSE Phase(q)
  <2>1. \A q \in Rounds : q # r => Phase(q)' = Phase(q)
    BY <1>2 DEF Phase, PhaseOf
  <2>2. Phase(r)' = "published"
    BY <1>2 DEF Phase, PhaseOf
  <2>. QED
    BY <2>1, <2>2
<1>4. Phase(r) = "drawn"
  BY <1>1 DEF Phase, PhaseOf
<1>. QED
  BY <1>1, <1>2, <1>3, <1>4 DEF Draw!Publish

LEMMA DiscardRefined ==
    ASSUME IInv, NEW signer, NEW r \in Rounds, AbandonRound(signer, r)
    PROVE  Draw!Discard(r)
<1>1. /\ UNCHANGED produced /\ next_round_id' = next_round_id + 1
      /\ r = next_round_id /\ AbandonReason(r) # "CannotAbandon"
      /\ expired_seed_abandons' =
            expired_seed_abandons + (IF AbandonReason(r) = "SeedExpired" THEN 1 ELSE 0)
      /\ intent' = [intent EXCEPT ![r] = [intent[r] EXCEPT !.status = "Abandoned"]]
  BY DEF AbandonRound, clock
<1>2. /\ \A q \in Rounds : q # r => intent'[q] = intent[q]
      /\ intent'[r].status = "Abandoned"
      /\ \A q \in Rounds : /\ SeedTarget(q)' = SeedTarget(q)
                           /\ intent'[q].close_slot = intent[q].close_slot
                           /\ intent'[q].seed_slot = intent[q].seed_slot
  <2>1. intent' = [intent EXCEPT ![r] = [intent[r] EXCEPT !.status = "Abandoned"]]
    BY <1>1
  <2>. QED
    BY <2>1, EndedRound
<1>3. \A q \in Rounds : Phase(q)' = IF q = r THEN "discarded" ELSE Phase(q)
  <2>1. \A q \in Rounds : q # r => Phase(q)' = Phase(q)
    BY <1>2 DEF Phase, PhaseOf
  <2>2. Phase(r)' = "discarded"
    BY <1>2 DEF Phase, PhaseOf
  <2>. QED
    BY <2>1, <2>2
<1>4. expired_seed_abandons \in Nat
  BY DEF IInv, TypeOK
<1>5. \/ Phase(r) \in {"sampling", "drawn"} /\ expired_seed_abandons' = expired_seed_abandons
      \/ /\ Phase(r) = "fixed" /\ intent[r].close_slot # 0
         /\ expired_seed_abandons' = expired_seed_abandons + 1
         /\ SeedLookup(r).kind = "Expired"
  <2>1. CASE AbandonReason(r) = "SeedExpired"
    <3>1. intent[r].status = "Closed" /\ SeedLookup(r).kind = "Expired"
      BY <1>1, <2>1, AbandonReasons
    <3>. QED
      BY <1>1, <2>1, <3>1 DEF Phase, PhaseOf, IInv, IntentOK
  <2>2. CASE AbandonReason(r) # "SeedExpired"
    <3>1. intent[r].status \in {"Open", "Seeded"}
      BY <1>1, <2>2, AbandonReasons
    <3>. QED
      BY <1>1, <1>4, <2>2, <3>1 DEF Phase, PhaseOf
  <2>. QED
    BY <2>1, <2>2
<1>6. SeedLookup(r).kind = "Expired" => Draw!Revealed(SeedTarget(r)) # {}
  <2>1. SUFFICES ASSUME slotHashes[HashWindow] > SeedTarget(r)
                 PROVE  \E p \in produced : p >= SeedTarget(r)
    BY SeedLookupMeaning DEF Draw!Revealed
  <2>. DEFINE oldest == slotHashes[HashWindow]
              target == SeedTarget(r)
  <2>2. oldest \in produced /\ oldest \in Nat /\ target \in Nat /\ oldest > target
    BY <2>1, SeedTargetType DEF IInv, TypeOK, Sysvar
  <2>. HIDE DEF oldest, target
  <2>3. oldest >= target
    BY <2>2
  <2>. QED
    BY <2>2, <2>3 DEF oldest, target
<1>7. [q \in Rounds |-> Phase(q)]' = [[q \in Rounds |-> Phase(q)] EXCEPT ![r] = "discarded"]
  BY <1>3
<1>8. [q \in Rounds |-> IF intent[q].close_slot = 0 THEN 0 ELSE SeedTarget(q)]' =
            [q \in Rounds |-> IF intent[q].close_slot = 0 THEN 0 ELSE SeedTarget(q)]
  BY <1>2
<1>9. [q \in Rounds |-> intent[q].seed_slot]' = [q \in Rounds |-> intent[q].seed_slot]
  BY <1>2
<1>10. intent[r].close_slot # 0 =>
         [q \in Rounds |-> IF intent[q].close_slot = 0 THEN 0 ELSE SeedTarget(q)][r] = SeedTarget(r)
  OBVIOUS
<1>11. [q \in Rounds |-> Phase(q)][r] = Phase(r)
  OBVIOUS
<1>. QED
  BY <1>1, <1>5, <1>6, <1>7, <1>8, <1>9, <1>10, <1>11 DEF Draw!Discard

(* A step that touches no intent and no counter is a stutter of the draw. *)
LEMMA StutterRefined ==
    ASSUME UNCHANGED <<produced, next_round_id, expired_seed_abandons, intent>>
    PROVE  UNCHANGED Draw!vars
BY DEF Draw!vars, Phase, PhaseOf, SeedTarget

LEMMA RevealRefined ==
    ASSUME IInv, NEW skipped, NEW dt, NextBlock(skipped, dt)
    PROVE  Draw!Reveal
<1>1. /\ produced' = produced \cup {slot}
      /\ UNCHANGED <<next_round_id, expired_seed_abandons, intent>>
      /\ \A c \in produced : c < slot
  BY DEF NextBlock, IInv, Sysvar
<1>. QED
  BY <1>1 DEF Draw!Reveal, Phase, PhaseOf, SeedTarget

(***************************************************************************)
(* The lifecycle implements one draw per round from a beacon that never    *)
(* forgets: skipped slots, a bounded sysvar, a racing record_seed and the  *)
(* abandon rules are invisible to it.                                      *)
(***************************************************************************)
THEOREM ImplementsDraw == Spec => DrawSpec
<1>1. Init => Draw!Init
  <2>. SUFFICES ASSUME Init PROVE Draw!Init
    OBVIOUS
  <2>1. \A r \in Rounds : intent[r] = EmptyIntent
    BY DEF Init
  <2>2. \A r \in Rounds : Phase(r) = "idle" /\ intent[r].close_slot = 0 /\ intent[r].seed_slot = 0
    BY <2>1 DEF Phase, PhaseOf, EmptyIntent
  <2>3. produced \in SUBSET Nat
    BY DEF Init
  <2>. QED
    BY <2>2, <2>3 DEF Init, Draw!Init
<1>2. IInv /\ [Next]_vars => [Draw!Next]_(Draw!vars)
  <2>. SUFFICES ASSUME IInv, [Next]_vars PROVE [Draw!Next]_(Draw!vars)
    OBVIOUS
  <2>1. CASE \/ \E signer, new \in Keys : ProposeRootAuthority(signer, new)
             \/ \E signer \in Keys : AcceptRootAuthority(signer)
             \/ UNCHANGED vars
    BY <2>1, StutterRefined DEF ProposeRootAuthority, AcceptRootAuthority, vars, clock
  <2>2. CASE \E skipped \in 0 .. MaxSkip, dt \in SecsPerSlot : NextBlock(skipped, dt)
    BY <2>2, RevealRefined DEF Draw!Next
  <2>3. CASE \/ \E signer \in Keys, r \in Rounds, secret \in Secrets :
                    OpenRound(signer, r, secret)
             \/ \E signer \in Keys, r \in Rounds, head \in ChainHeads, count \in {0, 1},
                   feed \in Feeds : CloseWindow(signer, r, head, count, feed)
             \/ \E r \in Rounds : RecordSeed(r)
             \/ \E signer \in Keys, r \in Rounds : AbandonRound(signer, r)
             \/ \E signer \in Keys, r \in Rounds, secret \in Secrets, count \in AssetCounts,
                   allow \in SUBSET (0 .. MaxAssets), lead \in ExpiryLeads :
                     CommitRound(signer, r, secret, count, allow, lead)
    BY <2>3, BeginRefined, FixRefined, TakeRefined, DiscardRefined, PublishRefined
       DEF Draw!Next
  <2>. QED
    BY <2>1, <2>2, <2>3 DEF Next
<1>. QED
  BY <1>1, <1>2, Inductive, PTL DEF Spec, DrawSpec, Draw!Spec

=============================================================================

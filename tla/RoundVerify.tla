---------------------------- MODULE RoundVerify ----------------------------
(***************************************************************************)
(* What a published round proves (keeper/round/prepare.ts, verify.ts,      *)
(* select.ts, policy.ts, lib/artifacts.ts): a keeper runs a round on chain *)
(* through the client, then publishes and commits any bundle, its own or   *)
(* one with other inputs or files; the published directory may be damaged  *)
(* or replaced; a reader recomputes everything from inputs.json and holds  *)
(* it against the chain.                                                   *)
(*                                                                         *)
(* sha256 is injective: Hash tags its argument.  What allocate() and the   *)
(* trees compute from their arguments is the tuple of those arguments.     *)
(***************************************************************************)
EXTENDS Integers, Sequences, FiniteSets, Functions, SequencesExt

CONSTANTS
    Policies,      \* [samples, offset, minWindow, minLeafValue, excluded]
    Bodies,        \* what a snapshot may hold
    Secrets, Seeds,
    Txs,           \* signature -> [signer, out, received, failed], transactions of one mint
    Purchases,     \* evidence a bundle may carry: [buyer, spent, received, signatures]
    MaxSnapshots

Hash(x) == <<"sha256", x>>
Genesis == "genesis"

VARIABLES
    stage,         \* "new", "open", "closed", "seeded", "committed"
    distributor,   \* its policy hash and rules
    intent,        \* the RoundIntent account
    header,        \* the RoundHeader account
    taken,         \* the snapshots the keeper took: [index, slot, body]
    secret, now,
    policy,        \* the keeper's own policy
    bundle         \* the directory published: its files and its manifest

vars == <<stage, distributor, intent, header, taken, secret, now, policy, bundle>>

(***************************************************************************)
(* select.ts: the candidates in slot order, and k of them drawn by seed    *)
(* and secret when there are more.  The draw is any fixed function of      *)
(* both; one place of the order is drawn here.                             *)
(***************************************************************************)
DeriveSampleSeed(seedHash, revealed) == Hash(<<seedHash, revealed>>)
Draw == CHOOSE f \in [Seeds \X Secrets -> BOOLEAN] :
            \E a, b \in Seeds \X Secrets : f[a] # f[b]

Earlier(candidates, c, d) ==
    \/ candidates[c].slot < candidates[d].slot
    \/ candidates[c].slot = candidates[d].slot /\ c < d

InSlotOrder(candidates, indices) ==
    CHOOSE f \in [1 .. Cardinality(indices) -> indices] :
        \A a, b \in DOMAIN f : a < b => Earlier(candidates, f[a], f[b])

SelectSampleIndices(candidates, window, k, sampleSeed) ==
    LET inWindow == {c \in DOMAIN candidates : candidates[c].slot \in window[1] .. window[2]}
        bySlot == InSlotOrder(candidates, inWindow)
    IN IF Len(bySlot) <= k THEN bySlot
       ELSE <<bySlot[IF Draw[sampleSeed[2]] THEN 1 ELSE Len(bySlot)]>>

(* extendSnapshotChain over the hashes, in index order. *)
SnapshotChainHead(hashes) ==
    LET head[n \in 0 .. Len(hashes)] == IF n = 0 THEN Genesis ELSE Hash(<<head[n - 1], hashes[n]>>)
    IN head[Len(hashes)]

Candidate(s) == [slot |-> s.slot, sha256 |-> Hash(s)]
Candidates(snapshots) == [i \in DOMAIN snapshots |-> Candidate(snapshots[i])]
Sha(candidates) == [i \in DOMAIN candidates |-> candidates[i].sha256]

(***************************************************************************)
(* validatePolicy: the limits samples and offset have, and nobody excluded *)
(* twice.                                                                  *)
(***************************************************************************)
MaxSamples == 10000
ValidPolicy(p) ==
    /\ p.samples \in 1 .. MaxSamples
    /\ p.offset \in 1 .. 256
    /\ IsInjective(p.excluded)

CeilDiv(a, b) == (a + b - 1) \div b

ExpectedMinLeafAmount(p, purchase) ==
    IF purchase.spent = 0 \/ purchase.received = 0 THEN 0
    ELSE CeilDiv(p.minLeafValue * purchase.received, purchase.spent)

(* Faulty variant: the candidates are not held against the recorded chain head. *)
ChainHeadUnchecked(i) == Len(i.candidates) = i.intent.snapshotCount

ChainHeadMatches(i) ==
    /\ Len(i.candidates) = i.intent.snapshotCount
    /\ SnapshotChainHead(Sha(i.candidates)) = i.intent.snapshotChainHead

(* checkInputs: the inputs follow from the intent and the policy they carry. *)
CheckInputs(i) ==
    LET r == i.intent IN
    /\ Hash(i.secret) = r.secretCommitment
    /\ r.closeSlot >= r.openSlot
    /\ r.closeSlot - r.openSlot >= i.policy.minWindow
    /\ r.seedSlot >= r.closeSlot + i.policy.offset
    /\ \A c \in DOMAIN i.candidates : i.candidates[c].slot \in r.openSlot .. r.closeSlot
    /\ ChainHeadMatches(i)
    /\ [s \in DOMAIN i.selected |-> i.selected[s].index] =
          SelectSampleIndices(i.candidates, <<r.openSlot, r.closeSlot>>, i.policy.samples,
                              DeriveSampleSeed(r.seedHash, i.secret))
    /\ \A s \in DOMAIN i.selected : Candidate(i.selected[s]) = i.candidates[i.selected[s].index]
    /\ i.purchase.received > 0 => i.purchase.signatures # {}
    /\ i.minLeafAmount = ExpectedMinLeafAmount(i.policy, i.purchase)

(* intentRecord: of the account, what the inputs carry. *)
IntentRecord(view) == [f \in DOMAIN view \ {"seedTs"} |-> view[f]]

(* buildManifest: the hash of every file, by path. *)
BuildManifest(files) == [f \in DOMAIN files |-> Hash(files[f])]

(* readArtifacts: every listed file is there and has its hash. *)
ReadArtifacts(dir) ==
    \A f \in DOMAIN dir.manifest : f \in DOMAIN dir.files /\ Hash(dir.files[f]) = dir.manifest[f]

(* prepareRound: the allocation, its trees and the files, from the inputs alone. *)
Allocate(i) == <<i.selected, i.policy, i.intent.solUsd, i.minLeafAmount>>
BuildRoundTrees(allocation) == Hash(<<"root", allocation>>)
Prepare(i) ==
    LET allocation == Allocate(i)
        files == [inputs |-> i, allocation |-> allocation, trees |-> BuildRoundTrees(allocation)]
    IN [root |-> BuildRoundTrees(allocation), files |-> files]

----------------------------------------------------------------------------
(* The round on chain, written through keeper/distributor/client.ts. *)

Init ==
    /\ stage = "new" /\ policy \in Policies /\ secret \in Secrets
    /\ distributor = <<>> /\ intent = <<>> /\ header = <<>> /\ taken = <<>> /\ bundle = <<>>
    /\ now = 0

EnsureDistributor ==
    /\ distributor = <<>> /\ ValidPolicy(policy)
    /\ distributor' = [policyHash |-> Hash(policy), offset |-> policy.offset, minWindow |-> policy.minWindow]
    /\ UNCHANGED <<stage, intent, header, taken, secret, now, policy, bundle>>

OpenRound ==
    /\ stage = "new" /\ distributor # <<>>
    /\ stage' = "open"
    /\ intent' = [openSlot |-> now, secretCommitment |-> Hash(secret)]
    /\ UNCHANGED <<distributor, header, taken, secret, now, policy, bundle>>

TakeSnapshot ==
    /\ stage = "open" /\ Len(taken) < MaxSnapshots
    /\ \E body \in Bodies :
          taken' = Append(taken, [index |-> Len(taken) + 1, slot |-> now, body |-> body])
    /\ now' = now + 1
    /\ UNCHANGED <<stage, distributor, intent, header, secret, policy, bundle>>

CloseWindow ==
    /\ stage = "open" /\ Len(taken) >= policy.samples
    /\ now - intent.openSlot >= distributor.minWindow
    /\ stage' = "closed"
    /\ intent' = [openSlot |-> intent.openSlot, secretCommitment |-> intent.secretCommitment,
                  closeSlot |-> now, snapshotCount |-> Len(taken), solUsd |-> 1,
                  snapshotChainHead |-> SnapshotChainHead(Sha(Candidates(taken)))]
    /\ UNCHANGED <<distributor, header, taken, secret, now, policy, bundle>>

(* The first block at or after the target: the target slot may have been skipped. *)
RecordSeed ==
    /\ stage = "closed" /\ stage' = "seeded"
    /\ \E skipped \in 0 .. 1, seed \in Seeds :
          intent' = [openSlot |-> intent.openSlot, secretCommitment |-> intent.secretCommitment,
                     closeSlot |-> intent.closeSlot, snapshotCount |-> intent.snapshotCount,
                     solUsd |-> intent.solUsd, snapshotChainHead |-> intent.snapshotChainHead,
                     seedSlot |-> intent.closeSlot + distributor.offset + skipped, seedHash |-> seed,
                     seedTs |-> now]
    /\ UNCHANGED <<distributor, header, taken, secret, now, policy, bundle>>

(* buildInputs: what this round's own inputs are. *)
Purchase == CHOOSE p \in Purchases : p.honest
OwnInputs ==
    LET candidates == Candidates(taken)
        drawn == SelectSampleIndices(candidates, <<intent.openSlot, intent.closeSlot>>, policy.samples,
                                     DeriveSampleSeed(intent.seedHash, secret))
    IN [policy |-> policy, intent |-> IntentRecord(intent), secret |-> secret, candidates |-> candidates,
        selected |-> [i \in DOMAIN drawn |-> taken[drawn[i]]], purchase |-> Purchase,
        minLeafAmount |-> ExpectedMinLeafAmount(policy, Purchase)]

(* Other inputs a bundle could carry instead, each part taken from elsewhere. *)
OtherTaken == {[taken EXCEPT ![i].body = b] : i \in DOMAIN taken, b \in Bodies} \cup {Front(taken), taken}
OtherIntents ==
    {intent, [intent EXCEPT !.solUsd = 2]} \cup
    {[intent EXCEPT !.seedHash = s, !.seedSlot = @ + 1] : s \in Seeds} \cup
    {[intent EXCEPT !.snapshotChainHead = SnapshotChainHead(Sha(Candidates(t))), !.snapshotCount = Len(t)] : t \in OtherTaken}

(* Lists of snapshots: of others, or with another slot for one of them. *)
OtherLists ==
    {Candidates(t) : t \in OtherTaken} \cup
    {[Candidates(taken) EXCEPT ![c].slot = s] : c \in DOMAIN taken, s \in {intent.openSlot, intent.closeSlot}}

OtherInputs ==
    {[policy |-> p, intent |-> IntentRecord(r), secret |-> s, candidates |-> l,
      selected |-> <<u>>, purchase |-> e, minLeafAmount |-> ExpectedMinLeafAmount(p, e)] :
        p \in {q \in Policies : ValidPolicy(q)}, r \in OtherIntents, s \in Secrets,
        l \in OtherLists, u \in UNION {Range(t) : t \in OtherTaken}, e \in Purchases}

(***************************************************************************)
(* commitRound: the program checks that the secret is the committed one    *)
(* and stores the root and artifact hash it is given.                      *)
(***************************************************************************)
Commit(files, root) ==
    /\ stage = "seeded" /\ stage' = "committed"
    /\ Hash(secret) = intent.secretCommitment
    /\ bundle' = [files |-> files, manifest |-> BuildManifest(files)]
    /\ header' = [assetsRoot |-> root, artifactHash |-> Hash(BuildManifest(files))]
    /\ UNCHANGED <<distributor, intent, taken, secret, now, policy>>

CommitOwn == stage = "seeded" /\ LET own == Prepare(OwnInputs) IN Commit(own.files, own.root)

CommitOther ==
    /\ stage = "seeded"
    /\ \E i \in OtherInputs :
          LET other == Prepare(i) own == Prepare(OwnInputs) IN
          \E root \in {other.root, own.root},
             files \in {other.files, [other.files EXCEPT !.inputs = OwnInputs]} : Commit(files, root)

(* A copy of the directory loses a file, has one changed, or is one of other inputs. *)
Damaged(files) ==
    {[files EXCEPT !.trees = BuildRoundTrees(<<>>)], [files EXCEPT !.inputs.minLeafAmount = @ + 1],
     [f \in DOMAIN files \ {"allocation"} |-> files[f]]} \cup
    {Prepare([files.inputs EXCEPT !.purchase = e]).files : e \in Purchases}

Damage ==
    /\ stage = "committed" /\ stage' = "damaged"
    /\ bundle.files = Prepare(OwnInputs).files
    /\ \E files \in Damaged(bundle.files) :
          bundle' \in {[files |-> files, manifest |-> bundle.manifest],
                       [files |-> files, manifest |-> BuildManifest(files)]}
    /\ UNCHANGED <<distributor, intent, header, taken, secret, now, policy>>

Next ==
    \/ EnsureDistributor \/ OpenRound \/ TakeSnapshot \/ CloseWindow \/ RecordSeed
    \/ CommitOwn \/ CommitOther \/ Damage
Spec == Init /\ [][Next]_vars

----------------------------------------------------------------------------
(* The verifier. *)

(***************************************************************************)
(* parsePolicy and parseRoundInputs refuse inputs no keeper could have     *)
(* had: the candidates are a list, and the policy is one.                  *)
(***************************************************************************)
ParseRoundInputs(i) == DOMAIN i.candidates = 1 .. Len(i.candidates) /\ ValidPolicy(i.policy)

(***************************************************************************)
(* verifyRoundArtifacts: every file is what inputs.json gives, and so is   *)
(* the manifest.                                                           *)
(***************************************************************************)
VerifyRoundArtifacts(dir) ==
    /\ ReadArtifacts(dir)
    /\ ParseRoundInputs(dir.files.inputs) /\ CheckInputs(dir.files.inputs)
    /\ LET expected == Prepare(dir.files.inputs).files
       IN /\ \A f \in DOMAIN expected : f \in DOMAIN dir.manifest /\ dir.files[f] = expected[f]
          /\ dir.manifest = BuildManifest(expected)

(* Faulty variant: the buyer must have spent exactly what the evidence says. *)
SpentExactly(purchase, out) == out = purchase.spent

SpentEnough(purchase, out) == out >= purchase.spent

(* What some transactions of the buyer add up to. *)
Total(part, signatures) == SumFunctionOnSet([s \in signatures |-> Txs[s][part]], signatures)

VerifyPurchase(purchase) ==
    /\ purchase.signatures \subseteq DOMAIN Txs
    /\ \A s \in purchase.signatures : ~Txs[s].failed /\ Txs[s].signer = purchase.buyer
    /\ Total("received", purchase.signatures) = purchase.received
    /\ SpentEnough(purchase, Total("out", purchase.signatures))

(* verifyRoundOnChain: the policy, the intent record, the header and the purchases. *)
VerifyRoundOnChain(dir) ==
    LET i == dir.files.inputs IN
    /\ distributor.policyHash = Hash(i.policy)
    /\ distributor.offset = i.policy.offset /\ distributor.minWindow = i.policy.minWindow
    /\ IntentRecord(intent) = i.intent
    /\ header.assetsRoot = Prepare(i).root
    /\ header.artifactHash = Hash(dir.manifest)
    /\ VerifyPurchase(i.purchase)

Accepted == VerifyRoundArtifacts(bundle) /\ VerifyRoundOnChain(bundle)

(* The round on chain and what was taken for it have their types. *)
TypeOK ==
    /\ stage \in {"new", "open", "closed", "seeded", "committed", "damaged"}
    /\ policy \in Policies /\ secret \in Secrets /\ now \in 0 .. MaxSnapshots
    /\ \A i \in DOMAIN taken : taken[i] \in [index : {i}, slot : 0 .. now, body : Bodies]
    /\ stage = "new" <=> intent = <<>>

(***************************************************************************)
(* Whatever was published, a bundle the verifier accepts pays from the     *)
(* distributor's fixed policy and from snapshots this round took and       *)
(* recorded at close, those drawn from its list by the recorded block and  *)
(* the committed secret, with their own slots and a minimum payout that    *)
(* follows from tokens its buyer really received for at least what it says *)
(* was spent; and the root on chain is that allocation's (verify.ts:1-8,   *)
(* policy.ts:1-6).  The draw is the keeper's own if the list names the     *)
(* slots of the snapshots that were not drawn: they are in no file.        *)
(***************************************************************************)
AcceptedFollows ==
    /\ TypeOK
    /\ stage \in {"committed", "damaged"} /\ Accepted =>
        LET i == bundle.files.inputs
            e == i.purchase
            drawn == SelectSampleIndices(i.candidates, <<intent.openSlot, intent.closeSlot>>, policy.samples,
                                         DeriveSampleSeed(intent.seedHash, secret))
        IN /\ i.policy = policy /\ i.secret = secret /\ i.intent = IntentRecord(intent)
           /\ Sha(i.candidates) = Sha(Candidates(taken))
           /\ DOMAIN i.selected = DOMAIN drawn
           /\ \A s \in DOMAIN drawn :
                 i.selected[s] = taken[drawn[s]] /\ i.candidates[drawn[s]].slot = taken[drawn[s]].slot
           /\ i.minLeafAmount = ExpectedMinLeafAmount(policy, e)
           /\ \E s \in SUBSET DOMAIN Txs :
                 /\ \A t \in s : Txs[t].signer = e.buyer /\ ~Txs[t].failed
                 /\ e.received = Total("received", s) /\ e.spent <= Total("out", s)
           /\ header.assetsRoot = BuildRoundTrees(Allocate(i))

(***************************************************************************)
(* A keeper that publishes what it recorded is never refused: whatever     *)
(* the program lets through (skipped seed slots, a short window, the fees  *)
(* on top of a purchase) the verifier lets through too.                    *)
(***************************************************************************)
OwnIsAccepted ==
    stage = "committed" /\ bundle.files = Prepare(OwnInputs).files /\ header.assetsRoot = Prepare(OwnInputs).root
        => Accepted
=============================================================================

------------------------------ MODULE MintVet ------------------------------
(***************************************************************************)
(* Which coins reach a round (keeper/basket.ts select, lib/tokens.ts,      *)
(* engine.ts reserveAssets, the program's token_utils.rs vet_mint).        *)
(*                                                                         *)
(* A mint is vetted three times, while its authorities may change it:      *)
(* before it is bought, when the keeper reserves it for a round, and once  *)
(* by the program, when the round's asset is opened.  After that nothing   *)
(* looks again, so what the program accepts must stay payable.             *)
(***************************************************************************)
EXTENDS Naturals, Sequences, FiniteSets

CONSTANTS
    Mints,             \* accounts the coin under study may start as
    Sound,             \* the account of every other listed coin
    Listings,          \* answers of the StonkFun API: sequences of [mint, status, liquidity],
                       \* liquidity empty when the API leaves it out
    Exclude,           \* the platform's own coins
    BasketSize, MinLiquidity,
    KeeperMaxFee,      \* MAX_BASKET_TRANSFER_FEE_BPS
    MaxTransferFeeBps, \* the program's cap
    Fees,              \* what a fee authority may set
    MaxEpoch

Coin == "coin"         \* the coin under study

(***************************************************************************)
(* mint: [owner, size, initialized, freeze, ext], where ext is the         *)
(* sequence of extension entries: [type, full, ...], full when its value   *)
(* is as long as its type needs, and "cut" one that runs past the data.    *)
(* A missing account has another owner.                                    *)
(***************************************************************************)
VARIABLES
    mint, epoch,
    bought, reserved,  \* the coin is in the keeper's inventory, in the round
    changed,           \* the mint changed since the keeper last vetted it
    opened,            \* <<epoch at which the round's asset was opened>>, or empty
    wrong              \* what the keeper and the program disagreed about

vars == <<mint, epoch, bought, reserved, changed, opened, wrong>>

Allowed == {"interestBearing", "metadataPointer", "tokenMetadata", "groupPointer",
            "tokenGroup", "groupMemberPointer", "tokenGroupMember"}

Larger(a, b) == IF a >= b THEN a ELSE b

(* Entries the walk reaches: an uninitialized one ends it. *)
Walked(m) == {i \in DOMAIN m.ext : \A j \in 1 .. i : m.ext[j].type # "uninitialized"}

(* Faulty variant: a hook authority without a hook is let through. *)
EntryOkHookOnly(e, cap) ==
    \/ e.type \in Allowed
    \/ e.full /\ CASE e.type = "defaultState"  -> ~e.frozen
                   [] e.type = "closeAuthority" -> ~e.set
                   [] e.type = "transferHook"   -> ~e.program
                   [] e.type = "transferFee"    -> Larger(e.older, e.newer) <= cap
                   [] OTHER -> FALSE

EntryOk(e, cap) ==
    \/ e.type \in Allowed
    \/ e.full /\ CASE e.type = "defaultState"  -> ~e.frozen
                   [] e.type = "closeAuthority" -> ~e.set
                   [] e.type = "transferHook"   -> ~e.program /\ ~e.authority
                   [] e.type = "transferFee"    -> Larger(e.older, e.newer) <= cap
                   [] OTHER -> FALSE

(* vetMintData, with allowFreezeAuthority FALSE. *)
VetMintData(m, cap) ==
    /\ m.owner \in {"spl", "token2022"} /\ m.size # "short" /\ m.initialized /\ ~m.freeze
    /\ m.size # "base" => /\ m.owner = "token2022" /\ m.size = "mint"
                          /\ \A i \in Walked(m) : m.ext[i].type # "cut" /\ EntryOk(m.ext[i], cap)

(* Faulty variant: only the fee in force is capped, not the scheduled one. *)
ProgramEntryOkOlder(e) ==
    \/ e.type \in Allowed
    \/ e.type = "transferFee" /\ e.full /\ e.older <= MaxTransferFeeBps
    \/ e.type = "closeAuthority" /\ e.full /\ ~e.set
    \/ e.type = "defaultState" /\ e.full /\ ~e.frozen
    \/ e.type = "transferHook" /\ e.full /\ ~e.authority /\ ~e.program

ProgramEntryOk(e) ==
    \/ e.type \in Allowed
    \/ e.type = "transferFee" /\ e.full /\ e.older <= MaxTransferFeeBps /\ e.newer <= MaxTransferFeeBps
    \/ e.type = "closeAuthority" /\ e.full /\ ~e.set
    \/ e.type = "defaultState" /\ e.full /\ ~e.frozen
    \/ e.type = "transferHook" /\ e.full /\ ~e.authority /\ ~e.program

(* vet_mint: the round names no coin whose freeze authority is allowed. *)
VetMint(m) ==
    /\ m.owner \in {"spl", "token2022"} /\ m.size # "short" /\ m.initialized /\ ~m.freeze
    /\ m.size # "base" => /\ m.owner = "token2022" /\ m.size = "mint"
                          /\ \A i \in Walked(m) : m.ext[i].type # "cut" /\ ProgramEntryOk(m.ext[i])

----------------------------------------------------------------------------
(* basket.ts select: the best-ranked listed coins that pass every filter. *)

Passes(r) ==
    /\ r.status = "graduated"
    /\ r.liquidity = <<>> \/ r.liquidity[1] >= MinLiquidity
    /\ r.mint # "malformed" /\ r.mint \notin Exclude /\ r.mint # "SOL"

(* Twice as many rows as coins are asked for; a mint counts where it is first. *)
Asked(rows) == {i \in DOMAIN rows : i <= 2 * BasketSize}
Listed(rows) ==
    {i \in Asked(rows) : Passes(rows[i]) /\ \A j \in Asked(rows) : j < i /\ Passes(rows[j]) => rows[j].mint # rows[i].mint}

AccountOf(name) == IF name = Coin THEN mint ELSE Sound

Vetted(rows) == {i \in Listed(rows) : VetMintData(AccountOf(rows[i].mint), KeeperMaxFee)}
Best(rows) == {i \in Vetted(rows) : Cardinality({j \in Vetted(rows) : j < i}) < BasketSize}
Select(rows) == {rows[i].mint : i \in Best(rows)}

Init ==
    /\ mint \in Mints /\ epoch = 0 /\ opened = <<>> /\ wrong = {}
    /\ bought = FALSE /\ reserved = FALSE /\ changed = FALSE

(***************************************************************************)
(* A coin among the first rows that pass the listing's filters is left out *)
(* wrongly when the program would take it at the keeper's own fee cap.     *)
(***************************************************************************)
Buy ==
    /\ ~bought
    /\ \E rows \in Listings :
          LET chosen == Select(rows)
              inside == Coin \in chosen
              listed == \E i \in DOMAIN rows : rows[i].mint = Coin /\ rows[i].status = "graduated"
                                                 /\ rows[i].liquidity = <<>>
          IN /\ bought' = inside
             /\ changed' = FALSE
             /\ wrong' = wrong \cup
                  IF listed /\ ~inside /\ Cardinality(chosen) < BasketSize /\ Len(rows) <= 2 * BasketSize
                     /\ VetMint(mint)
                     /\ \A i \in Walked(mint) : mint.ext[i].type = "transferFee"
                            => mint.ext[i].older <= KeeperMaxFee /\ mint.ext[i].newer <= KeeperMaxFee
                  THEN {"left out"} ELSE {}
    /\ UNCHANGED <<mint, epoch, reserved, opened>>

(* reserveAssets: vetted again; a coin that fails stays in the inventory. *)
Reserve ==
    /\ bought /\ ~reserved
    /\ reserved' = VetMintData(mint, KeeperMaxFee)
    /\ changed' = FALSE
    /\ UNCHANGED <<mint, epoch, bought, opened, wrong>>

(* open_asset: the program's vetting; the keeper retries a refused open. *)
Open ==
    /\ reserved /\ opened = <<>>
    /\ IF VetMint(mint) THEN opened' = <<epoch>> /\ UNCHANGED wrong
       ELSE wrong' = (IF changed THEN wrong ELSE wrong \cup {"refused"}) /\ UNCHANGED opened
    /\ UNCHANGED <<mint, epoch, bought, reserved, changed>>

----------------------------------------------------------------------------
(* What the mint's authorities can do (the token programs). *)

(* The token program finds an extension by the same walk. *)
Found(type) == {i \in Walked(mint) : mint.ext[i].type = type /\ mint.ext[i].full}
Has(type) == mint.owner = "token2022" /\ Found(type) # {}
Rewrite(type, f(_)) ==
    mint' = [mint EXCEPT !.ext = [i \in DOMAIN mint.ext |-> IF i \in Found(type) THEN f(mint.ext[i]) ELSE mint.ext[i]]]
Changes == mint.initialized /\ changed' = TRUE /\ UNCHANGED <<epoch, bought, reserved, opened, wrong>>

SetHook ==
    /\ Has("transferHook") /\ \E i \in Found("transferHook") : mint.ext[i].authority
    /\ Rewrite("transferHook", LAMBDA e : [e EXCEPT !.program = TRUE])
    /\ Changes

SetDefaultState ==
    /\ Has("defaultState") /\ mint.freeze
    /\ Rewrite("defaultState", LAMBDA e : [e EXCEPT !.frozen = ~@])
    /\ Changes

(* A new fee takes force two epochs later; until then the older one stays. *)
SetFee ==
    /\ Has("transferFee")
    /\ \E fee \in Fees :
          Rewrite("transferFee", LAMBDA e : [e EXCEPT
              !.older = IF epoch >= e.from THEN e.newer ELSE e.older, !.newer = fee, !.from = epoch + 2])
    /\ Changes

GiveUpAuthority ==
    /\ \/ mint.freeze /\ mint' = [mint EXCEPT !.freeze = FALSE]
       \/ Has("closeAuthority") /\ Rewrite("closeAuthority", LAMBDA e : [e EXCEPT !.set = FALSE])
       \/ Has("transferHook") /\ Rewrite("transferHook", LAMBDA e : [e EXCEPT !.authority = FALSE])
    /\ Changes

NextEpoch ==
    /\ epoch < MaxEpoch /\ epoch' = epoch + 1
    /\ UNCHANGED <<mint, bought, reserved, changed, opened, wrong>>

Next == Buy \/ Reserve \/ Open \/ SetHook \/ SetDefaultState \/ SetFee \/ GiveUpAuthority \/ NextEpoch
Spec == Init /\ [][Next]_vars

----------------------------------------------------------------------------
(* The coin and what became of it have their types. *)
TypeOK ==
    /\ DOMAIN mint = {"owner", "size", "initialized", "freeze", "ext"} /\ epoch \in 0 .. MaxEpoch
    /\ {bought, reserved, changed} \subseteq BOOLEAN
    /\ opened = <<>> \/ opened[1] \in 0 .. epoch
    /\ wrong \subseteq {"left out", "refused"}

FeeInForce(e) == IF epoch >= e.from THEN e.newer ELSE e.older

(***************************************************************************)
(* The keeper's vetting mirrors the program's: it never buys or reserves a *)
(* coin the program then refuses, unless the mint changed after the        *)
(* keeper's last look, and it leaves out no coin the program would take at *)
(* the keeper's fee cap (tokens.ts:62-68, basket.ts:53).                   *)
(***************************************************************************)
VettingAgrees == TypeOK /\ wrong = {}

(***************************************************************************)
(* Vetting runs once, at open.  Whatever the mint's authorities do later,  *)
(* an opened asset cannot be frozen or hooked, and until two epochs have   *)
(* passed its transfer fee stays within the program's cap                  *)
(* (token_utils.rs:122-126 and 139-143).                                   *)
(***************************************************************************)
OpenedStaysPayable ==
    opened # <<>> =>
        /\ ~mint.freeze
        /\ \A i \in Walked(mint) :
              LET e == mint.ext[i] IN
              /\ e.type = "transferHook" => ~e.program
              /\ e.type = "defaultState" => ~e.frozen
              /\ e.type = "transferFee" /\ epoch < opened[1] + 2 => FeeInForce(e) <= MaxTransferFeeBps
=============================================================================

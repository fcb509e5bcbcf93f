---------------------------- MODULE HolderPages ----------------------------
(***************************************************************************)
(* One holder snapshot (keeper/holders/source.ts): every token account of  *)
(* the index coin, read page by page from nodes that each answer as of     *)
(* some recent slot of their own while transfers go on.                    *)
(***************************************************************************)
EXTENDS Integers, Sequences, FiniteSets, Functions

CONSTANTS
    Accounts,      \* addresses, numbered in the order the index serves them
    Supply,
    MaxSlot,       \* bound on the slots of a behaviour
    Lag,           \* how many slots a node may be behind
    PageSize, MaxPages

VARIABLES
    history,       \* history[s][a]: balance of a at slot s
    rows,          \* rows fetched so far: sequence of [address, amount]
    cursor,        \* last address served, 0 before the first page
    slot,          \* lowest last_indexed_slot so far, 0 for none
    page,          \* pages fetched
    result         \* <<>>, <<"error">> or <<slot, accounts>>

vars == <<history, rows, cursor, slot, page, result>>

Balances == {b \in [Accounts -> 0 .. Supply] : SumFunctionOnSet(b, Accounts) = Supply}
Newest == Len(history)

(* The i-th of a set of addresses. *)
Ranked(addresses, i) == CHOOSE a \in addresses : Cardinality({b \in addresses : b <= a}) = i

(* finalizeRows: of the rows that are not empty, the last of each address, *)
(* by address.                                                             *)
NonEmpty(fetched) == {i \in DOMAIN fetched : fetched[i].amount > 0}
LastRow(fetched, a) ==
    fetched[CHOOSE i \in NonEmpty(fetched) : fetched[i].address = a
               /\ \A j \in NonEmpty(fetched) : fetched[j].address = a => j <= i]
Held(fetched) == {fetched[i].address : i \in NonEmpty(fetched)}
FinalizeRows(fetched) ==
    [i \in 1 .. Cardinality(Held(fetched)) |-> LastRow(fetched, Ranked(Held(fetched), i))]

Init ==
    /\ history \in {<<b>> : b \in Balances}
    /\ rows = <<>> /\ cursor = 0 /\ slot = 0 /\ page = 0 /\ result = <<>>

Transfer ==
    /\ Newest < MaxSlot
    /\ \E from, to \in Accounts, amount \in 1 .. Supply :
          /\ from # to /\ history[Newest][from] >= amount
          /\ history' = Append(history, [history[Newest] EXCEPT ![from] = @ - amount, ![to] = @ + amount])
    /\ UNCHANGED <<rows, cursor, slot, page, result>>

(***************************************************************************)
(* The index (external): as of slot s, the non-empty accounts after the    *)
(* cursor, and a cursor as long as a page is full.  Every answer of a      *)
(* fetch names its slot, or none does.                                     *)
(***************************************************************************)
Left(s, after) == {a \in Accounts : a > after /\ history[s][a] > 0}
Served(s, after) == {a \in Left(s, after) : Cardinality({b \in Left(s, after) : b < a}) < PageSize}
RowAt(s, a) == [address |-> a, amount |-> history[s][a]]
Indexed(s, after) ==
    [i \in 1 .. Cardinality(Served(s, after)) |-> RowAt(s, Ranked(Served(s, after), i))]

(* Faulty variant: the slot is the last page's. *)
SnapshotSlotOfLastPage(seen, answered) == answered

SnapshotSlot(seen, answered) == IF seen = 0 \/ answered < seen THEN answered ELSE seen

(***************************************************************************)
(* HeliusDasSource.fetch: one getTokenAccounts call.  A page without a     *)
(* cursor or without accounts is the last; running out of pages, a refused *)
(* call or no slot at all is an error, and the next step fetches again.    *)
(***************************************************************************)
FetchPage ==
    /\ result = <<>> /\ page < MaxPages
    /\ \E s \in {n \in 1 .. Newest : n >= Newest - Lag}, named \in BOOLEAN :
          LET accounts == Indexed(s, cursor)
              all == rows \o accounts
              seen == IF named THEN SnapshotSlot(slot, s) ELSE slot
              last == Len(accounts) < PageSize
          IN /\ page = 0 \/ (named <=> slot > 0)
             /\ rows' = all /\ slot' = seen /\ page' = page + 1
             /\ cursor' = IF last THEN cursor ELSE accounts[Len(accounts)].address
             /\ result' = IF ~last THEN result
                          ELSE IF seen = 0 THEN <<"error">>
                          ELSE <<seen, FinalizeRows(all)>>
    /\ UNCHANGED history

TooManyPages ==
    /\ result = <<>> /\ page = MaxPages
    /\ result' = <<"error">>
    /\ UNCHANGED <<history, rows, cursor, slot, page>>

CallFails ==
    /\ result = <<>> /\ result' = <<"error">>
    /\ UNCHANGED <<history, rows, cursor, slot, page>>

(* RpcProgramAccountsSource.fetch: one getProgramAccounts at one slot. *)
FetchAll ==
    /\ result = <<>> /\ page = 0
    /\ \E s \in {n \in 1 .. Newest : n >= Newest - Lag} :
          result' = <<s, FinalizeRows([a \in Accounts |-> RowAt(s, a)])>>
    /\ UNCHANGED <<history, rows, cursor, slot, page>>

Again ==
    /\ result = <<"error">>
    /\ rows' = <<>> /\ cursor' = 0 /\ slot' = 0 /\ page' = 0 /\ result' = <<>>
    /\ UNCHANGED history

Next == Transfer \/ FetchPage \/ TooManyPages \/ CallFails \/ FetchAll \/ Again
Spec == Init /\ [][Next]_vars

----------------------------------------------------------------------------
(* A history of balances, rows of the index, and a result (source.ts). *)
TypeOK ==
    /\ Newest \in 1 .. MaxSlot /\ \A s \in 1 .. Newest : history[s] \in Balances
    /\ \A i \in DOMAIN rows : rows[i] \in [address : Accounts, amount : 1 .. Supply]
    /\ cursor \in Accounts \cup {0} /\ slot \in 0 .. Newest /\ page \in 0 .. MaxPages
    /\ result \in {<<>>, <<"error">>} \/ result[1] \in 1 .. Newest

(***************************************************************************)
(* Whatever moves during the fetch and however far behind each node is,    *)
(* no row of a snapshot is older than the slot the snapshot carries, no    *)
(* address appears twice, and an account that held a balance at every      *)
(* slot since then is in it (source.ts:54-59, 100).                        *)
(***************************************************************************)
SnapshotFaithful ==
    /\ TypeOK
    /\ Len(result) = 2 =>
        LET since == result[1] .. Newest listed == result[2]
            addresses == {listed[i].address : i \in DOMAIN listed}
        IN /\ \A i \in DOMAIN listed : \E s \in since : listed[i].amount = history[s][listed[i].address]
           /\ Cardinality(addresses) = Len(listed)
           /\ \A a \in Accounts : (\A s \in since : history[s][a] > 0) => a \in addresses
=============================================================================

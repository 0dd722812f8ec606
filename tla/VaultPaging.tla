---------------------------- MODULE VaultPaging ----------------------------
(***************************************************************************)
(* VaultClient::fetch_ips (src/vault_client.rs): one walk over the pages   *)
(* of GET /api/ips, while Vault's listing may change between two answers.  *)
(* The first request probes for a page count; with one, the other pages    *)
(* are fetched concurrently and merged as they arrive; without one, they   *)
(* are fetched one after the other until one is short.                     *)
(***************************************************************************)
EXTENDS Integers, Sequences, FiniteSets, Functions

CONSTANTS
    PAGE_SIZE,              \* rows per page
    MAX_PAGES,              \* ceiling on pages walked
    MAX_CONCURRENT_PAGES,   \* requests in flight at once
    MaxRows,                \* bound: rows of the listing when the walk starts
    MaxChanges,             \* bound: changes of the listing during the walk
    NoAnswer                \* a request Vault has not answered yet

ASSUME PageAssumption ==
    /\ PAGE_SIZE \in Nat \ {0} /\ MAX_PAGES \in Nat \ {0, 1}
    /\ MAX_CONCURRENT_PAGES \in Nat \ {0}
ASSUME BoundAssumption == MaxRows \in Nat /\ MaxChanges \in Nat
ASSUME NoAnswerAssumption == NoAnswer \notin Seq(Nat)

VARIABLES
    vault,      \* how this Vault takes include_total: "counts", "ignores" it or
                \* "rejects" it; or it ignores `offset`: "stuck"
    listing,    \* the rows the query selects, by last_seen_at, newest first
    pc,         \* where fetch_ips is
    all,        \* the records collected so far
    todo,       \* pages of the concurrent walk not requested yet
    inflight,   \* its requests in flight, and their answers
    pages,      \* pages the sequential walk has fetched
    requests,   \* history: requests sent
    truncated,  \* history: the walk gave up at MAX_PAGES
    touched,    \* history: rows that are new or moved since the walk began
    changes, removals   \* history: changes of the listing, removals among them

walkVars == <<pc, all, todo, inflight, pages, requests, truncated>>
vaultVars == <<vault, listing, touched, changes, removals>>
vars == <<walkVars, vaultVars>>

\* Rows are numbered in the order they are listed when the walk begins.
Init ==
    /\ vault \in {"counts", "ignores", "rejects", "stuck"}
    /\ \E n \in 0..MaxRows : listing = [i \in 1..n |-> i]
    /\ pc = "probe" /\ all = << >> /\ todo = {} /\ inflight = << >> /\ pages = 0
    /\ requests = 0 /\ truncated = FALSE
    /\ touched = {} /\ changes = 0 /\ removals = 0

-----------------------------------------------------------------------------
(* Vault (external): a row that is observed, or soft-deleted under a `since`,
   moves to the front; one that is deleted otherwise leaves the listing.      *)

Changing ==
    /\ pc \in {"probe", "parallel", "sequential"}
    /\ changes < MaxChanges
    /\ changes' = changes + 1
    /\ UNCHANGED <<walkVars, vault>>

\* The listing without its i-th row.
Without(i) == SubSeq(listing, 1, i - 1) \o SubSeq(listing, i + 1, Len(listing))

Observe(r) ==
    /\ Changing
    /\ \/ r \notin Range(listing) /\ listing' = <<r>> \o listing
       \/ \E i \in DOMAIN listing : listing[i] = r /\ listing' = <<r>> \o Without(i)
    /\ touched' = touched \cup {r}
    /\ UNCHANGED removals

Remove(r) ==
    /\ Changing
    /\ \E i \in DOMAIN listing : listing[i] = r /\ listing' = Without(i)
    /\ removals' = removals + 1
    /\ UNCHANGED touched

\* limit=PAGE_SIZE&offset=p*PAGE_SIZE, as Vault answers it now.
PageAt(p) ==
    LET q    == IF vault = "stuck" THEN 0 ELSE p
        last == (q + 1) * PAGE_SIZE
    IN  SubSeq(listing, q * PAGE_SIZE + 1, IF last < Len(listing) THEN last ELSE Len(listing))

\* total.div_ceil(limit)
TotalPages == (Len(listing) + PAGE_SIZE - 1) \div PAGE_SIZE

-----------------------------------------------------------------------------
(* fetch_ips.                                                                *)

\* (1..envelope.total_pages), of which at most MAX_PAGES - 1 are taken.
RemainingPages == {p \in 1..(TotalPages - 1) : p < MAX_PAGES}

\* The envelope: page one, and how many more there are.
ProbeCounted ==
    /\ pc = "probe" /\ vault = "counts"
    /\ all' = PageAt(0)
    /\ todo' = RemainingPages
    /\ truncated' = (TotalPages > MAX_PAGES)
    /\ pc' = IF todo' = {} THEN "done" ELSE "parallel"
    /\ requests' = requests + 1
    /\ UNCHANGED <<inflight, pages, vaultVars>>

\* Where fetch_sequentially starts: after a page one that is full.
ResumeAt(first) == IF Len(first) = PAGE_SIZE THEN 1 ELSE 0

\* The root array: page one without a count.  Only a short page that is not
\* empty ends the walk here.
ProbeIgnored ==
    /\ pc = "probe" /\ vault \in {"ignores", "stuck"}
    /\ LET first == PageAt(0)
       IN  /\ all' = first
           /\ pages' = ResumeAt(first)
           /\ pc' = IF Len(first) \in 1..(PAGE_SIZE - 1) THEN "done" ELSE "sequential"
    /\ requests' = requests + 1
    /\ UNCHANGED <<todo, inflight, truncated, vaultVars>>

\* 400: this Vault does not know include_total.
ProbeRejected ==
    /\ pc = "probe" /\ vault = "rejects"
    /\ pc' = "sequential"
    /\ requests' = requests + 1
    /\ UNCHANGED <<all, todo, inflight, pages, truncated, vaultVars>>

\* Any other error of any request is the error of the fetch; what is in flight
\* is dropped.
RequestFails ==
    /\ pc \in {"probe", "parallel", "sequential"}
    /\ pc = "parallel" => inflight # << >>
    /\ pc' = "failed"
    /\ requests' = IF pc = "parallel" THEN requests ELSE requests + 1
    /\ todo' = {} /\ inflight' = << >>
    /\ UNCHANGED <<all, pages, truncated, vaultVars>>

\* Faulty: every remaining page is requested at once.
HasSlotAlways == TRUE

\* buffer_unordered(MAX_CONCURRENT_PAGES)
HasSlot == Cardinality(DOMAIN inflight) < MAX_CONCURRENT_PAGES

StartPage(p) ==
    /\ pc = "parallel"
    /\ p \in todo /\ \A q \in todo : p <= q
    /\ HasSlot
    /\ todo' = todo \ {p}
    /\ inflight' = [q \in DOMAIN inflight \cup {p} |-> IF q = p THEN NoAnswer ELSE inflight[q]]
    /\ requests' = requests + 1
    /\ UNCHANGED <<pc, all, pages, truncated, vaultVars>>

AnswerPage(p) ==
    /\ pc = "parallel"
    /\ p \in DOMAIN inflight /\ inflight[p] = NoAnswer
    /\ inflight' = [inflight EXCEPT ![p] = PageAt(p)]
    /\ UNCHANGED <<pc, all, todo, pages, requests, truncated, vaultVars>>

\* Faulty: the walk is over when its last page arrives.
OverWithLastPage(p) == p = TotalPages - 1

\* Faulty: asks what is in flight before the page that arrived is taken out.
OverWithNothingInFlight(p) == todo = {} /\ inflight = << >>

\* try_collect is over when nothing is left to request or to wait for.
OverWith(p) == todo = {} /\ DOMAIN inflight = {p}

\* Pages are merged in the order in which they arrive.
ReceivePage(p) ==
    /\ pc = "parallel"
    /\ p \in DOMAIN inflight /\ inflight[p] # NoAnswer
    /\ all' = all \o inflight[p]
    /\ inflight' = Restrict(inflight, DOMAIN inflight \ {p})
    /\ pc' = IF OverWith(p) THEN "done" ELSE "parallel"
    /\ UNCHANGED <<todo, pages, requests, truncated, vaultVars>>

\* Faulty: a page that is exactly full is taken for the last one.
IsShortOrFull(page) == Len(page) <= PAGE_SIZE

\* A short page is Vault saying that this was the last of them.
IsShort(page) == Len(page) < PAGE_SIZE

\* pages >= MAX_PAGES, once this page is counted.
AtCeiling == pages + 1 >= MAX_PAGES

\* One iteration of fetch_sequentially.
SequentialPage ==
    /\ pc = "sequential"
    /\ LET page == PageAt(pages)
       IN  /\ all' = all \o page
           /\ truncated' = (~IsShort(page) /\ AtCeiling)
           /\ pc' = IF IsShort(page) \/ AtCeiling THEN "done" ELSE "sequential"
    /\ pages' = pages + 1
    /\ requests' = requests + 1
    /\ UNCHANGED <<todo, inflight, vaultVars>>

Fetch ==
    \/ ProbeCounted \/ ProbeIgnored \/ ProbeRejected
    \/ \E p \in 1..MAX_PAGES : StartPage(p) \/ AnswerPage(p) \/ ReceivePage(p)
    \/ SequentialPage

Next ==
    \/ \E r \in 1..(MaxRows + MaxChanges) : Observe(r) \/ Remove(r)
    \/ Fetch
    \/ RequestFails

Spec == Init /\ [][Next]_vars

\* REQUEST_TIMEOUT ends every request that Vault does not answer.
FairSpec == Spec /\ WF_vars(Fetch)

-----------------------------------------------------------------------------

Row == 1..(MaxRows + MaxChanges)

(* The walk holds rows Vault listed, and page numbers below MAX_PAGES: the
   ceiling of fetch_remaining_pages_in_parallel is applied, not only reported. *)
TypeOK ==
    /\ vault \in {"counts", "ignores", "rejects", "stuck"}
    /\ listing \in Seq(Row)
    /\ pc \in {"probe", "parallel", "sequential", "done", "failed"}
    /\ all \in Seq(Row)
    /\ todo \in SUBSET (1..(MAX_PAGES - 1))
    /\ DOMAIN inflight \subseteq 1..(MAX_PAGES - 1)
    /\ \A p \in DOMAIN inflight : inflight[p] = NoAnswer \/ inflight[p] \in Seq(Row)
    /\ pages \in 0..MAX_PAGES
    /\ requests \in Nat /\ truncated \in BOOLEAN
    /\ touched \in SUBSET Row
    /\ changes \in 0..MaxChanges /\ removals \in 0..changes

Done == pc = "done" /\ ~truncated /\ vault # "stuck"

\* Rows that were listed all along, where their last_seen_at puts them.
Untouched == Range(listing) \ touched

Missed == Untouched \ Range(all)

(* If nothing changes in Vault meanwhile, fetch_ips returns every row exactly
   once, whichever walk it takes and wherever the page boundaries fall. *)
CompleteWhenStill ==
    Done /\ changes = 0 => Range(all) = Range(listing) /\ Len(all) = Len(listing)

(* Whatever Vault answers, a fetch asks for pages below MAX_PAGES only, and costs
   at most one request for each and the probe, at most MAX_CONCURRENT_PAGES of
   them at once. *)
BoundedRequests ==
    /\ TypeOK
    /\ requests <= MAX_PAGES + 1
    /\ Cardinality(DOMAIN inflight) <= MAX_CONCURRENT_PAGES

(* A row that stayed put is missed only for a change behind its back.  The
   sequential walk misses at most one row for each removal.  In the concurrent
   walk a change moves a row over every page boundary, and it is missed where the
   page it leaves and the page it enters are answered in the wrong order, which
   only every other boundary can be; a row that moves past the last page counted
   is missed too. *)
MissesFew ==
    Done => Cardinality(Missed) <= IF vault = "counts" THEN changes * (requests \div 2)
                                                       ELSE removals

(* Every fetch ends, also when Vault serves page one for ever. *)
FetchEnds == <>(pc \in {"done", "failed"})

=============================================================================

----------------------------- MODULE OnchainSync -----------------------------
(***************************************************************************)
(* OnChainSyncService (src/libs/onchain-sync): the discovery of the indices *)
(* a service supports, and the check whether the quote of an index is       *)
(* stale.  Both read the chain several times, and it grows in between.     *)
(***************************************************************************)
EXTENDS Castle

CONSTANTS
    Known,       \* known_asset_ids
    Lookback,    \* how many blocks is_quote_stale() looks back: 1000
    MaxAge       \* max_blocks_age

ASSUME SyncAssumption ==
    /\ IsFiniteSet(Known)
    /\ Lookback \in Nat /\ MaxAge \in Nat /\ MaxAge <= Lookback

VARIABLES
    scan,     \* discover_accepted_itps() in progress
    quote     \* is_quote_stale() in progress

syncVars == <<scan, quote>>

\* todo: the IndexCreated logs not yet looked at; cur: the index being read; from:
\* the first block of the scan; itps: the ItpInfo made; dropped: the indices of
\* which get_itp_info() failed.
NoBasket == {}
NoScan == [pc |-> "idle", todo |-> {}, cur |-> 0, from |-> 0, assets |-> NoBasket,
           read |-> 0, itps |-> {}, dropped |-> {}, accepted |-> {}, rejected |-> {}]

NoQuote == [pc |-> "idle", index |-> 0, head |-> 0, last |-> 0, logged |-> 0, at |-> 0]

SyncInit == scan = NoScan /\ quote = NoQuote

-----------------------------------------------------------------------------
(* discover_all_itps(), get_itp_info(), get_itp_composition()               *)

\* get_logs() succeeds; without any log the scan is over.
ScanLogs ==
    /\ scan.pc = "idle"
    /\ scan' = [scan EXCEPT !.pc = "next", !.todo = Created(Height), !.from = Height]
    /\ UNCHANGED quote

ScanLogsFail ==
    /\ scan.pc = "idle"
    /\ scan' = [scan EXCEPT !.pc = "failed"]
    /\ UNCHANGED quote

\* The next log, in the order of the chain; getVault() answers.  What
\* getIndexAssetsCount() answers decides nothing.
Earliest(S) ==
    CHOOSE i \in S : \A j \in S :
        Min(Logs(i, {"created"}, 1, Height)) <= Min(Logs(j, {"created"}, 1, Height))

ScanVault ==
    /\ scan.pc = "next" /\ scan.todo # {}
    /\ LET i == Earliest(scan.todo) IN
       scan' = [scan EXCEPT !.pc = "assets", !.cur = i, !.todo = @ \ {i}]
    /\ UNCHANGED quote

\* getVault() fails: the index is neither accepted nor rejected.
ScanVaultFails ==
    /\ scan.pc = "next" /\ scan.todo # {}
    /\ LET i == Earliest(scan.todo) IN
       scan' = [scan EXCEPT !.todo = @ \ {i}, !.dropped = @ \cup {i}]
    /\ UNCHANGED quote

ScanAssets ==
    /\ scan.pc = "assets"
    /\ scan' = [scan EXCEPT !.pc = "weights", !.assets = AssetsAt(scan.cur, Height),
                            !.read = Height]
    /\ UNCHANGED quote

\* version: which composition the weights belong to.
Itp(i, assets, read, version) ==
    [index |-> i, composed |-> TRUE, assets |-> assets, read |-> read, version |-> version]
WithoutComposition(i) ==
    [index |-> i, composed |-> FALSE, assets |-> NoBasket, read |-> 0, version |-> 0]

\* Back in the loop over the logs.
Discovered(itp) == scan' = [scan EXCEPT !.pc = "next", !.itps = @ \cup {itp}]

ScanWeights ==
    /\ scan.pc = "weights"
    /\ Discovered(Itp(scan.cur, scan.assets, scan.read, VersionAt(scan.cur, Height)))
    /\ UNCHANGED quote

\* One of the two calls fails: the ITP has no composition.
ScanCompositionFails ==
    /\ scan.pc \in {"assets", "weights"}
    /\ Discovered(WithoutComposition(scan.cur))
    /\ UNCHANGED quote

-----------------------------------------------------------------------------
(* discover_accepted_itps()                                                *)

\* validate_itp_assets(): what the service does not know of a composition.
Unknown(itp) == itp.assets \ Known

\* Mutant: an ITP without a composition has no unknown asset.
UnknownIsSupported(itp) == Unknown(itp) = {}

\* Without a composition an ITP cannot be validated.  No collateral is ever
\* known, so none is refused.
Supported(itp) == itp.composed /\ Unknown(itp) = {}

Classify ==
    /\ scan.pc = "next" /\ scan.todo = {}
    /\ LET ok == {itp \in scan.itps : Supported(itp)} IN
       scan' = [scan EXCEPT !.pc = "done", !.accepted = ok, !.rejected = scan.itps \ ok]
    /\ UNCHANGED quote

-----------------------------------------------------------------------------
(* get_rebalance_history() and is_quote_stale()                             *)

RebalanceHistory(i, from) == Logs(i, {"reweighted"}, from, Height)

QuoteHead(i) ==
    /\ quote.pc = "idle"
    /\ quote' = [quote EXCEPT !.pc = "logs", !.index = i, !.head = Height]
    /\ UNCHANGED scan

\* The logs of the last blocks, up to the newest one by now.
QuoteLogs ==
    /\ quote.pc = "logs"
    /\ LET from == IF quote.head > Lookback THEN quote.head - Lookback ELSE 0
           found == Logs(quote.index, {"quoted"}, from, Height)
       IN quote' = [quote EXCEPT !.pc = "age", !.logged = Height,
                                 !.last = IF found = {} THEN 0 ELSE Max(found)]
    /\ UNCHANGED scan

\* Mutant: the age counts from the first call.
VerdictByFirstHead ==
    /\ quote.pc = "age"
    /\ LET stale == quote.last = 0 \/ quote.head > quote.last + MaxAge
       IN quote' = [quote EXCEPT !.pc = IF stale THEN "stale" ELSE "fresh", !.at = Height]
    /\ UNCHANGED scan

\* The head is read again.
Verdict ==
    /\ quote.pc = "age"
    /\ LET stale == quote.last = 0 \/ Height > quote.last + MaxAge
       IN quote' = [quote EXCEPT !.pc = IF stale THEN "stale" ELSE "fresh", !.at = Height]
    /\ UNCHANGED scan

QuoteFails ==
    /\ quote.pc \in {"logs", "age"}
    /\ quote' = [quote EXCEPT !.pc = "failed"]
    /\ UNCHANGED scan

ScanStep ==
    \/ ScanLogs \/ ScanLogsFail
    \/ ScanVault \/ ScanVaultFails
    \/ ScanAssets \/ ScanWeights \/ ScanCompositionFails
    \/ Classify

QuoteStep == (\E i \in Created(Height) : QuoteHead(i)) \/ QuoteLogs \/ Verdict \/ QuoteFails

-----------------------------------------------------------------------------
(* Properties                                                              *)

\* Each index created before the scan began is accepted or rejected, unless the
\* question for its vault failed, and never both; at some block of the scan the
\* chain itself gave an accepted one only assets the service knows.  Assets and
\* weights are read by two calls and may belong to two compositions; the
\* rebalance history since the scan began names every ITP that happened to.
DiscoveryConsistent ==
    /\ \A itp \in scan.itps :
          itp.composed /\ VersionAt(itp.index, itp.read) # itp.version
              => RebalanceHistory(itp.index, scan.from + 1) # {}
    /\ scan.pc = "done" =>
          LET accepted == {itp.index : itp \in scan.accepted}
              rejected == {itp.index : itp \in scan.rejected} IN
          /\ accepted \cap rejected = {}
          /\ accepted \cup rejected = Created(scan.from) \ scan.dropped
          /\ \A i \in accepted : \E b \in scan.from .. Height : AssetsAt(i, b) \subseteq Known

\* A quote called fresh was updated within the last MaxAge blocks, and one called
\* stale was not, as far as the logs had come when they were read.
QuoteVerdictsRight ==
    LET recent == {b \in Logs(quote.index, {"quoted"}, 1, quote.logged) : b + MaxAge >= quote.at}
    IN /\ quote.pc = "fresh" => recent # {}
       /\ quote.pc = "stale" => recent = {}

===============================================================================

------------------------------- MODULE Greeks -------------------------------
(* risk/greeks_risk.py: every update writes one document of greeks:<id>:<sym>,  *)
(* adds up all of them and writes the four portfolio:net_<greek> one by one. A  *)
(* document is worth its version, so a sum tells, per document, what it added.  *)
EXTENDS Integers, FiniteSets

CONSTANTS
    Documents,      \* greeks:<strategy>:<symbol>
    GreekNames,     \* delta, gamma, vega, theta
    Updaters,       \* callers of update_greeks
    MaxVersion      \* bound of the model: updates of a document

ASSUME GreeksAssumption == MaxVersion \in Nat /\ GreekNames # {}

VARIABLES
    document,   \* document[d]: how often it was written, 0: it does not exist
    net,        \* net[g]: what the written sum added up, per document
    update,     \* update[u]: what is left to read and to write, and what was read
    unsettled   \* history: two updates overlapped, one failed or was given a key
                \* twice, and since then no update has run alone to its end

greeksVars == <<document, net, update, unsettled>>

Nothing == [d \in Documents |-> 0]
NoUpdate == [reads |-> {}, writes |-> {}, sum |-> Nothing]
Updating(u) == update[u] # NoUpdate

GreeksInit ==
    /\ document = Nothing /\ net = [g \in GreekNames |-> Nothing]
    /\ update = [u \in Updaters |-> NoUpdate] /\ unsettled = FALSE

-----------------------------------------------------------------------------
\* The document is written, and the scan is yet to begin.
UpdateGreeks(u, d) ==
    /\ ~Updating(u) /\ document[d] < MaxVersion
    /\ document' = [document EXCEPT ![d] = @ + 1]
    /\ update' = [update EXCEPT ![u] =
                    [reads |-> Documents, writes |-> GreekNames, sum |-> Nothing]]
    /\ unsettled' = (\E v \in Updaters : Updating(v))
    /\ UNCHANGED net

\* Slip: the scan ends with the first key it returns.
ReadGreeksOnce(u, d) ==
    /\ d \in update[u].reads
    /\ update' = [update EXCEPT ![u].reads = {}, ![u].sum[d] = @ + document[d]]
    /\ UNCHANGED <<document, net, unsettled>>

ReadGreeks(u, d) ==
    /\ d \in update[u].reads
    /\ LET sum == [update[u].sum EXCEPT ![d] = @ + document[d]]
       IN  update' = [update EXCEPT ![u] = [update[u] EXCEPT !.reads = @ \ {d}, !.sum = sum]]
    /\ UNCHANGED <<document, net, unsettled>>

\* SCAN may return a key more than once, and its greeks are added as often. Bound
\* of the model: once while the nets are settled; where they are not, it is one more
\* reason why.
ReadGreeksAgain(u, d) ==
    /\ d \in update[u].reads /\ ~unsettled
    /\ LET sum == [update[u].sum EXCEPT ![d] = @ + document[d]]
       IN  update' = [update EXCEPT ![u] = [update[u] EXCEPT !.sum = sum]]
    /\ unsettled' = TRUE
    /\ UNCHANGED <<document, net>>

WriteNet(u, g) ==
    /\ update[u].reads = {} /\ g \in update[u].writes
    /\ net' = [net EXCEPT ![g] = update[u].sum]
    /\ LET writes == update[u].writes \ {g}
       IN  update' = [update EXCEPT ![u] =
                        IF writes = {} THEN NoUpdate ELSE [@ EXCEPT !.writes = writes]]
    /\ UNCHANGED <<document, unsettled>>

\* An await raises: the caller gets the exception, the sums keep what they are.
UpdateFails(u) ==
    /\ Updating(u)
    /\ update' = [update EXCEPT ![u] = NoUpdate] /\ unsettled' = TRUE
    /\ UNCHANGED <<document, net>>

GreeksNext ==
    \E u \in Updaters :
      \/ UpdateFails(u)
      \/ \E d \in Documents : UpdateGreeks(u, d) \/ ReadGreeks(u, d) \/ ReadGreeksAgain(u, d)
      \/ \E g \in GreekNames : WriteNet(u, g)

GreeksSpec == GreeksInit /\ [][GreeksNext]_greeksVars

-----------------------------------------------------------------------------
Sums == [Documents -> Nat]

GreeksTypeOK ==
    /\ document \in Sums /\ net \in [GreekNames -> Sums]
    /\ update \in [Updaters -> [reads : SUBSET Documents, writes : SUBSET GreekNames, sum : Sums]]
    /\ unsettled \in BOOLEAN

\* When no update runs, every net greek is the sum of the documents as they are,
\* unless the last updates overlapped, or one failed or was given a key twice; the
\* next that runs alone repairs what they left.
NetsAreTheSum ==
    (\A u \in Updaters : ~Updating(u)) /\ ~unsettled
        => \A g \in GreekNames : net[g] = document
=============================================================================

--------------------------- MODULE MCDataGoverned ---------------------------
(* One worker and one operator over two resources with personal data, of   *)
(* which the request uses one; two sets of terms, one of them without a    *)
(* redacted mode, and declarations for a permitted and a denied retention. *)
EXTENDS DataGovernedExecution, TLC

CONSTANTS srv, toolname, owner, account, archive

Requests == {[id |-> 1, tool |-> <<srv, toolname>>, risk |-> "low",
              owner |-> owner, resource |-> account, purpose |-> "review",
              classification |-> "restricted", requested_at |-> 0]}

\* Redacted output for the review, or statistics for a secondary purpose.
Review == [classification |-> "restricted", categories |-> {"personal"},
           primary |-> {"review"}, secondary |-> {},
           permitted |-> {"raw", "redacted", "aggregated"},
           redact |-> {"personal"}, max_retention |-> 1, enabled |-> TRUE]
Statistics == [Review EXCEPT !.primary = {"audit"}, !.secondary = {"review"},
                             !.permitted = {"aggregated"}]
Closed == [Review EXCEPT !.enabled = FALSE]

Declare(h, r) == [request |-> 1, resource |-> account, purpose |-> "review",
                  categories |-> {"personal"}, handling |-> h, retention |-> r,
                  declared_at |-> 0]

Terms == {Review, Statistics, Closed}
Uses == {Declare("raw", 1), Declare("redacted", 0), Declare("raw", 2)}
=============================================================================

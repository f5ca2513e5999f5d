-------------------------- MODULE TenantHardening --------------------------
(***************************************************************************)
(* The hardening registries of a tenant side by side: its keys, changes    *)
(* and envelopes, and its audit anchors.  They share no state; both of     *)
(* their chains are read as logs.                                          *)
(***************************************************************************)
EXTENDS TenantCrypto, AuditAnchor

hardeningVars == <<cryptoVars, anchorVars>>

HardeningInit == CryptoInit /\ AnchorInit

HardeningNext == \/ CryptoNext /\ UNCHANGED anchorVars
                 \/ AnchorNext /\ UNCHANGED cryptoVars

HardeningSpec == HardeningInit /\ [][HardeningNext]_hardeningVars

\* Signed changes as a reader of the history dates them.
ChangeLog(c) == [i \in 1 .. Len(c) |-> [change |-> c[i], at |-> c[i].signed_at]]

ChainKey == {"changes", "anchors"}
chainLogs == [k \in ChainKey |-> IF k = "changes" THEN ChangeLog(chain) ELSE anchors]

Chains == INSTANCE AppendOnlyLog WITH Key <- ChainKey, log <- chainLogs

\* The change chain and the anchor chain are append-only logs in an order of time:
\* append and register each extend one of them by one entry, nothing else does.
ChainsImplementLogs == Chains!LogSpec
=============================================================================

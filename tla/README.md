# RegAgentOps: TLA+ models, model checks and proofs

RegAgentOps governs what an AI agent may do through the tools of MCP servers. A
policy engine decides on an exact action envelope; risky actions need a quorum of
human approvers; an action that passes gets a short, one-time execution lease,
redeemed in a durable ledger; what was executed is evidenced by a receipt. Almost
everything is an immutable artifact identified by the SHA-256 of its canonical JSON,
and almost every registry is an append-only, versioned history of such artifacts.

The modules here are written from the Python code in `src/regagentops/`
(below, `mcp.py` means `src/regagentops/mcp.py`). The documents in `docs/` are used for
one thing only: where the code does something else than they say, a run shows it.

Contents: 1 the system, 2 the modules and the code they model, 3 the runs,
4 fairness, 5 the proofs, 6 disagreements between code and documents, 7 what is not
modelled and why, 8 the plan.

## 1 The system

### 1.1 Components

| component | code | state it keeps | operations that change it |
|---|---|---|---|
| Governed MCP registry | `mcp.py` 320–523 | servers, snapshots, bindings (in memory) | register_server, register_snapshot, register_binding |
| Policy enforcement point | `mcp.py` 543–619 | none; reads the registry three times | evaluate returns an outcome |
| Emergency stop | `execution.py` 91–129 | versioned stop states (in memory) | register |
| Execution gate | `execution.py` 525–802 | none | issue_lease, redeem_lease, build_receipt return artifacts |
| Lease ledger | `execution.py` 206–296 | `execution_lease_consumptions` (SQLite) | consume |
| Receipt signatures | `execution.py` 365–522 | none | sign, verify |
| Approval gate | `approval_engine.py` | none | build_requirement, resolve return artifacts |
| Replay ledger | `approval_replay.py` | `approval_redemptions` (SQLite) | consume |
| Approval authority | `approval_authority.py` | the grants of a bundle, immutable; another bundle is another registry | building the registry checks every delegation (authorize reads) |
| Approval signatures | `approval_signature.py` | trust bundle, immutable | sign, verify |
| Policy engine, tool registry | `policy.py`, `registry.py` | rules, agents, tools, immutable; a changed configuration is another value | none (evaluate reads) |
| Authenticated policy, identity | `authenticated_*.py`, `identity_*.py`, `oidc.py`, `workload_identity.py` | registries loaded once | none (verify) |
| Data-purpose governance | `data_governance.py` | versioned profiles (in memory) | register_profile; wrappers of the enforcement point and the gate |
| Tenant isolation | `hardening.py` 174–246 | RLS policies, tenant profiles (versioned) | register_policy, register_profile |
| Crypto key life cycle | `hardening.py` 334–434 | keys and their states (versioned) | register, register_state |
| Configuration change chain | `hardening.py` 606–645 | signed changes per object | append |
| Evidence encryption | `hardening.py` 714–789 | none | encrypt, decrypt under a key state |
| Audit anchors | `hardening.py` 868–926 | anchor records, a hash chain per tenant | register |
| Production deployment | `deployment.py` 379–617 | egress policies, tool allowlists, worker profiles, releases, rollback and upgrade plans, checkpoints | register_* |
| Stable release | `stability.py` 388–532 | baselines | register_baseline |
| Assurance evidence | `assurance.py` 254–462 | scopes, applicability, evidence, crosswalk entries | register_*, build_package |
| Artifact models | `models.py` | none | canonical JSON and its hash |
| CLI, HTTP API | `cli.py`, `api.py` | none | stateless input and output |

### 1.2 How they interact

```
 operator ──register──▶ MCP registry ──digest, binding──▶ enforcement point ──▶ outcome
    │                       │  │                                                  │
    │                       │  └────────── digest, binding ──────────┐            │ authorization
    └──register──▶ emergency stop ── current state ─────▶ execution gate ◀── approval gate
                                                          │      │              │
                                              lease ledger (SQLite)      replay ledger (SQLite)
                                                          │
                                                       receipt
```

The components share no locks and send no messages. They are coupled in three ways:

* **Immutable artifacts handed on by callers.** Outcomes, requirements, resolutions,
  leases, consumptions and receipts are values; a caller keeps them, shows them again
  later, to another worker, after a restart, and twice. Each embeds the digests of
  those it rests on.
* **Registries read without a lock.** One method reads a registry up to three times,
  with other registrations in between. `snapshot_digest()` hashes the whole content,
  so equal digests mean equal content.
* **Two SQLite ledgers** whose primary keys make a redemption happen once. Their
  transactions are the only synchronisation.

There is no clock in the code: each `issued_at`, `redeemed_at`, `started_at` … is an
argument, and concurrent callers may pass times that do not agree with the order
of their calls.

### 1.3 What is hard about it

* A check and the write it protects are far apart: `redeem_lease` makes four reads of
  shared state before its transaction, `evaluate` three, `resolve` checks a whole
  package before its own.
* Two workers, or a worker and its own retry, hold the same lease or the same
  requirement, with different times or a different package.
* The registries are in memory and the ledgers may be files: a restart loses one and keeps
  the other, and callers come back with artifacts of before.
* A process may die after COMMIT and before its caller has the result.
* Governance drifts while an authorization, an approval or a lease is in flight, and
  may drift *back* to something that looks the same (ABA).
* Half-open windows (`issued_at <= t < expires_at`) nest: authorization age, lease
  life, requirement, statement, grant and key.

### 1.4 What makes each component correct

| component | the properties that matter |
|---|---|
| MCP registry | no record is overwritten; a binding rests on a pinned, approved, dated capture; a binding identity keeps its tool; a stale binding stays stale; a tool moves to newer evidence only |
| Enforcement point | an outcome that gets through the gate was consistent with one single registry |
| Emergency stop | an append-only log; once a halt is drained nothing is redeemed; a halt drains |
| Execution gate and ledger | one redemption per lease; every row ends a complete governed chain; authority is bounded in time; a recorded redemption stays receiptable |
| Approval gate and replay ledger | one verdict per requirement; a continuation is earned by enough live, authorised, distinct people; the quorum follows the risk |
| Approval authority | what a delegate may approve at an instant, everyone above could have approved then |
| Policy engine | rules added to a configuration only tighten what it already decides |
| All of them together | a gated redemption rests on the humans' recorded verdict; no valid outcome is stranded; an approval does not extend an authorization |
| Data-purpose governance | a redemption was decided on one state of the profiles; the bound output handling is safe; after a drift a decision is used by calls already under way only |
| Key life cycle, configuration, encryption | the changes of a tenant form one chain without forks; what is refused once for a time stays refused; retirement spares what was made before |
| Audit anchors | one linked record per sequence, each with an answer for its own batch, whatever the service repeats |
| Tenant isolation, deployment, stable release | a release that lost its currency never regains it; dates agree along the whole chain of dependencies; every upgrade can be reversed; the baseline leads between releases of one worker |
| Assurance | a package is the evidence of one scope, and what was built verifies for good |

## 2 The modules and the code they model

```
VersionedHistory ◀─┬─ McpRegistry ◀──────┐
                   ├─ EmergencyStop ◀────┴─ ExecutionBoundary ◀─┬─ GovernedAction ──▶ ApprovalGate
                   │                                            │      (extends both)
                   ├─ DataGovernance ◀── DataGovernedExecution ──┘
                   ├─ KeyLifecycle ◀─┬─ ConfigurationChain ◀─┬─ TenantCrypto ◀─┐
                   │                 └─ EvidenceEncryption ◀─┘    AuditAnchor ◀┴─ TenantHardening
                   └─ TenantIsolation ◀── Deployment ◀── StableRelease
Assurance, ApprovalDelegation, PolicyDecision (no versions)

abstract       implemented by (INSTANCE ... WITH)
AppendOnlyLog  McpRegistry, in McpLogs;  changes and anchors, in TenantHardening
OneTimeLedger  the lease ledger, in ExecutionBoundary;  the replay ledger, in ApprovalGate

for TLC: MCMcpRegistry, MCExecution, MCApproval, MCGovernedAction, MCDataGoverned, MCHardening, MCRelease

VersionedHistoryProofs ◀─┬─ McpRegistryProofs ◀── ExecutionProofs ◀─┬─ DataGovernedProofs
                         │                                          └─ GovernedActionProofs ──▶ ApprovalProofs
                         ├─ DeploymentProofs (with the stable release and assurance)
                         └─ HardeningProofs
```

Conventions, in every module:

* **An artifact stands for its digest.** Where the code stores a digest of another
  artifact, the record holds the artifact; two digests are equal exactly when the
  artifacts are. This assumes SHA-256 without collisions.
* **What is returned is kept.** `outcomes`, `leases`, `receipts`, `requirements`,
  `statements`, `resolutions` hold everything ever returned, because a caller may
  present any of it again at any time.
* **A call that raises changes nothing**, and so does an exact retry of a
  registration (`existing == candidate`): both are stuttering steps. Where a call has
  been split into steps, the step at which it raises is an action (`CallRaises`,
  `ResolverDies`), since the worker becomes free again.
* **Operators marked "Mutant"** are deliberately wrong variants of the definition that
  follows them; no specification uses them. Each property of each run is violated
  when one of them takes the place of the right one, so no property holds for
  free.

### VersionedHistory, AppendOnlyLog, McpLogs

`Appendable(H, x)` is the check every register method starts with: version 1 for an
empty history, otherwise the latest version plus one and no earlier date.
`WellFormedHistory` is what it keeps. `AppendOnlyLog` is what a reader wants: per
identity, a sequence that is only extended, one entry at a time, in an order of time. `McpLogs` reads the MCP
registry that way: `server_history` and `binding_history` of every identity, as sequences by version.

### OneTimeLedger

What a caller may rely on of either SQLite ledger, and nothing of how it is done: the first entry
for a token is the only one and stays (`Spend`); at most one caller, and only after the entry is there, is answered
that it redeemed the token (`Tell`). Transactions, lost answers, failed calls and restarts do not occur in it. A lease
is a token, its row the entry, the returned consumption the answer (`LeaseLedger`); a
requirement is a token, package and time the entry, the consuming resolution the answer (`ReplayLedger`).

### McpRegistry (`mcp.py` 65–205, 320–523)

One institution. `registry` is a record of three sets, because `snapshot_digest()`
hashes servers, snapshots and bindings together: the value of `registry` *is* the digest
that outcomes, leases and rows carry. `RegisterServer`, `RegisterSnapshot` and
`RegisterBinding` have the guards of the three methods. `IsLatestSnapshot` includes
the fail-closed case of two different captures with the same `captured_at`;
`ResolvesTo` the fail-closed case of two current bindings; `ToolsUnambiguous` that one
ambiguous tool makes `current_tool_registry` raise for the whole institution.
A capture lists a *set* of descriptors with distinct names.

Abstracted: names and URIs, schemas (a descriptor has a name and an opaque schema
digest), `allowed_data_classifications` and `production_registered` of a binding
(`ToolEnabled` and the free policy verdict stand for what the policy engine makes of
them), the pinned name and identity of a server (one `pin`).

### EmergencyStop (`execution.py` 69–129)

One versioned history of `[version, halted, at]`. An institution without a state
cannot execute anything: `StopPasses` needs a state.

### ExecutionBoundary (`mcp.py` 543–619, `execution.py` 132–296, 525–802)

| method | actions |
|---|---|
| `evaluate` | `EvaluateStart` reads the digest, `EvaluateBind` resolves the binding, `EvaluateFinish` builds the tool registry and returns the outcome; `EvaluateUngoverned` is the early DENY |
| `issue_lease` | `IssueStart` compares the digest, `IssueAssert` resolves the binding, `IssueLease` checks times, stop state and approval chain and returns the lease |
| `redeem_lease` | `RedeemStart` digest, `RedeemAssert` binding, `RedeemStop` stop state, `RedeemReread` digest again, `RedeemCommit` the ledger's transaction, `RedeemReturn` |
| `build_receipt` | `BuildReceipt`: one read of the ledger, of rows that never change, so one step |
| any of them raising | `CallRaises` |
| the process restarting | `Restart`: registries and running calls are lost, the ledger file and the callers' artifacts stay |

Between any two of these steps the operator may register anything (`Operate`) and any
other worker may run. Merged into one read: `current_binding_for_tool` followed by
`assert_binding_current` (`EvaluateBind`, `Supports`). Both only read, both fail closed, and the
final comparison of digests protects the redemption. The checks of
`redeem_lease` on its own arguments (linkage, executor, window) are pulled forward to its
first step: the arguments are immutable and a call that fails them changes nothing.
The order of the checks inside `IssueLease` makes no difference for the same reason: only
one of them, the stop state, reads shared state.

The verdict of the policy engine and of the identity checks is any verdict the caller's
bundle could give, except that `DENY` is forced where the tool is disabled, not governed or
not verified. LOW and MODERATE are one risk ("low"), ALLOW and
ALLOW_WITH_CONSTRAINTS one decision, as nothing in the gate tells them apart.

The ledger. `ExecutionLeaseLedger` defaults to `":memory:"`, where every
connection has a ledger of its own and nothing is shared. The model takes the setting in which
one-time redemption is a question at all: a ledger file, one connection per worker
(SQLite connections are bound to their thread). `BEGIN IMMEDIATE … COMMIT` is one step;
a database locked by another connection is a call that raises.

### ApprovalGate (`approval_engine.py`, `approval_replay.py`, parts of `approval_authority.py`, `approval_signature.py`)

| method | actions |
|---|---|
| `build_requirement` | `BuildRequirement` |
| `sign_approval_statement` | `SignStatement` (an approver, any requirement, grant, vote and window) |
| `resolve` | `ResolveStart` all checks of the package up to the ledger; `ReplayConsume` the INSERT; `ReplayRefuse` the INSERT fails on a key; `ResolveReturn` |
| a resolver dying or raising | `ResolverDies` |

A signature is genuine by construction: a statement exists only if its approver signed it;
what `verify_signed_approval` checks beyond that, the windows of the statement and of the key, is
modelled. A package that is invalid or has too few votes is answered by a resolution that
consumes and permits nothing; those are left out. `resolve` takes any requirement object a caller hands it and does not
compare its minimum of approvals and its separation with the escalation policy again (`approval_engine.py` 140–153);
the model's requirements are those that `build_requirement` returned, and `QuorumFollowsRisk` and
`ContinuationIsEarned` speak of these only. `separated` is always true, because
`build_requirement` sets it for every requirement it makes. The UNIQUE constraint on the package digest
adds nothing to the primary key, as a package contains its requirement.
`authorizations` belongs to the policy layer: `ApprovalSpec` lets it grow in any way, which is what lets
the theorems about the gate hold under every policy layer.

### ApprovalDelegation (`approval_authority.py` 22–98, `approval_models.py` 44–111)

Which grants exist at all. `GrantDirectly` and `Delegate` write a grant; the constructor checks its window and
nothing else. `BuildRegistry` puts any set of written grants in force that `_validate_grant` accepts (`Links`, one
link at a time; the parent has to be in the same bundle). A grant stands for its digest, so a child holds its
parent, and the cycle the code refuses cannot be written. Tools stand for the three sets a grant lists (tools, actions,
environments), compared alike; risks are numbers. `Ancestors` is the least set closed under parents, in place of
the code's recursion, which follows links that its own loop visits anyway.

`ApprovalGate` takes the grants in force as a constant `Grant`; as its theorems hold for every such set, they
hold for the direct and delegated grants of every bundle accepted here.

### PolicyDecision (`policy.py` 45–186, `authenticated_policy.py` 59–168, `registry.py`)

The code's registries and bundles are immutable values; an administrator who changes the configuration builds other
ones. `ConfigureAgent`, `ConfigureTool`, `AddRule`, `RemoveRule` are those changes. `Authorization` is what
`AuthenticatedPolicyEngine.evaluate` answers: the identity is the request's, valid now, and established for the
registration of the agent in use (`IdentityHolds`); agent and tool are enabled and what the request says they are
(`Admitted`); no matching rule is a DENY, and otherwise the effects are asked for in the code's order (`Combined`).
Left out: purposes and risk tiers of a rule (matched like environments), several institutions, signatures. Under
REQUIRE_HUMAN_APPROVAL the constraints of other matching rules are dropped, as in the code; no document promises
otherwise, so `AtLeast` compares constraints within one effect only. `ExecutionBoundary` and `ApprovalGate` are checked
under any verdict, hence under these.

### GovernedAction

`ExecutionBoundary` and `ApprovalGate`, on variables of their own but for one: `authorizations`, what the gate builds
requirements on, is always those inside the outcomes. `IssueWithApproval` offers `issue_lease` every pair of a
requirement and a resolution a caller holds, matching or not. The process of the boundary restarts
and resolvers die, at any moment.

### DataGovernance, DataGovernedExecution (`data_governance.py` 88–378, 495–632)

`profiles` is the set of registered profiles and therefore the registry's snapshot digest. A
profile's terms (classification, categories, purposes, permitted and redacted output, retention) are a
record from a set the instance gives; `WellFormedTerms` is what the constructor demands of them. The
decision itself is a pure definition: `DeclarationFits`, `TermsAdmit`, `HandlingFor`.

| method | actions |
|---|---|
| `register_profile` | `RegisterProfile` |
| `DataPurposeMcpPolicyEnforcementPoint.evaluate`, after the wrapped `evaluate` | `GovernStart` reads the current profile, `GovernFinish` digests the registry and returns; `GovernDeny` is every refusal |
| `_assert_current`, before each call of the wrapped gate | `GuardStart` compares the digest, `GuardProfile` the current profile; `GuardRaises` |
| `DataGovernedExecutionGate.issue_lease`, `redeem_lease`, `build_receipt` | `GovernedIssue`, `GovernedRedeem`, `GovernedReceipt`: the wrapped call's own steps begin |

Profiles, MCP registry and stops may all change between any two of these steps. The data evidence is a
field of the outcome, so it travels through lease and consumption as in the code. Each request is
one with personal data; `REQUIRE_HUMAN_APPROVAL` outcomes are not composed with this module, as the
approval gate neither reads nor changes anything of it. Two branches of the decision are left out
because no profile reaches them: `WellFormedTerms` already excludes a profile that wants redaction and permits
raw output only. `DataGovernedAuthenticatedPolicyEngine` (385–463) lays the same decision over an outcome without MCP
evidence; such an outcome never reaches the gate, and the wrapper is not modelled a second time.

### KeyLifecycle, ConfigurationChain, EvidenceEncryption, TenantCrypto (`hardening.py` 250–789)

A key reference and its states are two versioned histories. A status is read *at a time the caller
names*, and a new state may be dated as early as the previous one: `StatusAt` is what
`status_at` computes, `NewOperationAllowed` and `StillUsable` are the questions that signing, verifying,
encrypting and decrypting ask. `register_state` is the one register operation whose exact retry is refused (its
version check comes first); as it changes nothing either, it is a stuttering step all the same.

Signing (`SignChange`) and appending (`AppendChange`) are separate actions: a signed change is an artifact that a
caller keeps, and chain, key and configuration may move on before it is appended. The first change of an object
may name any previous configuration digest (`FitsObject`). `now` is whatever the caller says it is.
Envelopes are what they say of their subject, key and time; the cipher is assumed ideal.

### AuditAnchor, TenantHardening (`hardening.py` 792–926)

Operators assemble batches on any record they take for the last one (`Assemble`), including one
of a call whose answer they never saw; the service, which is not part of the repository, answers any batch,
repeatedly, at any time (`ServiceAnswers`); anybody registers any batch with any answer (`RegisterAnchor`).

`TenantHardening` puts the registries of a tenant side by side, sharing nothing, and reads both chains as logs.

### TenantIsolation, Deployment, StableRelease (`hardening.py` 97–246, `deployment.py` 379–617, `stability.py` 388–532)

| method | action |
|---|---|
| `register_policy`, `register_profile` | `RegisterPolicy`, `RegisterProfile` |
| `register_egress_policy`, `register_tool_allowlist`, `register_worker_profile` | `RegisterEgress`, `RegisterTools`, `RegisterWorker` |
| `register_release`, `register_rollback`, `register_upgrade`, `register_recovery_checkpoint` | `RegisterRelease`, `RegisterRollback`, `RegisterUpgrade`, `RegisterCheckpoint` |
| `StableReleaseRegistry.register_baseline` | `RegisterBaseline` |
| `assert_release_current`, `assert_baseline_current` | `ReleaseCurrent`, `BaselineCurrent` |

Each call is one step (section 7). Semantic versions are numbers
with the same order. The checklists inside reviews, surfaces and policies of the readiness
evidence are constructor checks of a single value; only their dates are compared across artifacts, so
`Readiness` keeps the dates.

What the model makes plain: an isolation profile may name superseded row-level-security policies and predate
them; a rollback to a release of an earlier worker leads to a release that is never current again; the source and
target of a baseline must be current together and so, within a tenant, run on the same worker profile;
nothing asks that they belong to one tenant.

### Assurance (`assurance.py` 254–462)

`RegisterScope`, `RegisterApplicability`, `RegisterEvidence`, `RegisterEntry`, `BuildPackage` are the five
operations, `PackageVerifies` is `verify_package`. Each artifact repeats the scope it is meant for, and the
inputs enumerate the ones that disagree.

## 3 The runs

All runs together fire every action of every specification. Deadlock is not checked:
every bounded history ends, and a system that nobody calls rests.

| run | question | states (distinct) |
|---|---|---|
| `mcp_registry` | records never overwritten, bindings pinned, identity keeps its tool, stale is final, tools move forward; implements `AppendOnlyLog` per server and per binding identity | 130 000 |
| `execution_race` | two workers, one lease, stops and registry changing: one redemption; a drained halt holds and a halt drains (liveness); lease drift is final | 270 000 |
| `execution_chain` | one worker against an operator changing registry and stops, three instants, restarts anywhere: rows governed and receiptable, authority bounded; the ledger implements `OneTimeLedger` | 298 000 |
| `approval` | two resolvers, three approvers, a critical request, any packages, everything expiring: one verdict, a continuation is earned, quorum follows risk | 207 000 |
| `governed_action` | the whole path: gated rows are approved, no valid outcome stranded, approval does not extend; and what stands behind it: delegated authority is inherited, added rules only tighten | 444 000 |
| `data_governed` | the gate behind the data-purpose wrapper, profiles changing between any two reads: rows decided on one state of the profiles, handling safe, drift ends a decision | 315 000 |
| `hardening` | keys rotating, retiring and back-dated under changes that compete for the chain and envelopes opened later; batches and repeated answers that compete for an anchor: no forks, refusal final, retirement spares the past; both chains implement `AppendOnlyLog` | 465 000 |
| `release` | two tenants' policies, workers, releases, plans and the stable baseline; the assurance evidence of a deployment | 220 000 |
| `halt_commit`, `receipt_retry`, `approval_denial`, `rls_policy` | disagreements of section 6 | violations |

What the safety properties say, beyond their one-line summaries:

* **`StaleIsFinal`, `LeaseDriftIsFinal`**: once `assert_binding_current` refuses a stored
  binding (once a lease is no longer redeemable because governance or the stop state moved),
  no sequence of registrations makes it pass again. A re-approval, a re-capture
  or a re-pinning to the old value is a new record with a new digest.
* **`RowsAreGoverned`**: the reads of one call may see different registries. Still, the
  evaluated registry of a committed row resolves the tool to the evaluated descriptor,
  and the last read saw that very registry. Digest first and binding later could each come from a different
  registry; that the registry only grows, and is compared again at the end, is what excludes it.
* **`LeasesAreOneTime`** is stronger than `OneRedemptionPerLease`, which compares the answers of one state: no row is taken back,
  no answer precedes its row or differs from it, and none of this happens even for one step, across restarts and
  calls that fail anywhere.
* **`HaltHolds`** with **`HaltDrains`** is what the stop state promises about redemptions: it
  does not stop those that had already read it, but none joins them, they finish or raise, and
  after that no row is written until another state is registered.
* **`AlwaysReceiptable`**: drift, stops and later calls cannot make a recorded redemption
  unreceiptable, since the base gate's `build_receipt` reads only the ledger. (Behind the data-purpose
  wrapper that is not so: it revalidates the profile before `build_receipt` too; `docs/DATA_PURPOSE_GOVERNANCE.md` names issuance and redemption only.)
* **`OneVerdictPerRequirement`**: two resolvers with an approving and a denying package of one
  requirement both pass all checks; one row is written, and only that resolution continues.
* **`NoStrandedOutcome`**: `mcp.py` and `approval_engine.py` each decide when a human is needed,
  by different code. They agree on every verified, non-denied, governed outcome.
* **`AuthorityIsInherited`**: the code compares a delegated grant with its parent when a bundle is loaded, and the
  approver's own grant with the request later. Nothing compares the approver's grant with the root at the time of the
  approval; that the root covers tool, risk and instant follows over any number of links.
* **`RulesOnlyTighten`**: `PolicyEngine` has no order of effects, it asks for them one after the other; the property
  compares the verdicts of two configurations for every request, identity and time. Nothing is claimed of a request no
  rule covered, which a first rule may of course allow.
* **`RowsAreDataGoverned`**: the profile and the snapshot digest of a decision are read at different
  moments. A row can only rest on a decision for which they agree, because every later call compares both.
* **`DataDriftHolds`** is to data profiles what the pair above is to halts: the wrapper checks before the
  base gate commits, so a redemption past the check survives a profile change; nothing else does.
* **`RefusalIsFinal`, `RetirementSparesThePast`**: back-dating can turn a signature that verified into one that
  does not, never the reverse; and only a state that disables the key, or one dated back to when the artifact was
  made or before, can do so.
* **`ChainIsIntact`**: `append` checks the head of the tenant's chain and the configuration of one
  object; what follows is a line per object inside one line per tenant.
* **`ReleaseDriftIsFinal`**, **`DeploymentIsChronological`**: each call compares an artifact with its direct
  references. What is claimed is about the whole chain of four levels, and about every later moment.
* **`BaselineIsGrounded`**: `register_baseline` compares dates and currency once, link by link; the property relates
  the registered baseline to everything below both of its releases and to all its evidence. Its mutant drops the
  source's currency. Dropping the date of the surface, the review, the scope or the path from the last
  comparison of `_assert_chronology`, or one of the earlier comparisons of policy with surface, target with
  review and releases with path, is found by the same run; the policy's date in the last one is implied by the surface's.
* **`PackagesStayVerifiable`**: `verify_package` is run later, on a registry that has grown.

### Bounds, and why they are enough

* *Registry*: two tools, two schemas, two versions, two captures, two binding identities, two instants. The properties
  relate at most two records of one kind, and the ABA patterns need one step away and one back: a
  re-registration, a tie or an inversion of captures, a second version of a binding,
  two bindings of one tool all occur. One server, as servers share no guard, and one pin: the comparison of
  pins guards `register_snapshot` alone, and the theorems cover any set of pins.
* *Execution*: one request. Requests meet only in the ledger, whose key is the lease. The race has two
  workers, one lease and two stop versions: a halt can come before, between and after the
  reads of both. It has one instant of calls; ageing is the chain run's question. The chain run has one worker,
  three instants with windows of one (before, at and after expiry all exist), two captures and two
  bindings, so the registry drifts under an open call, and restarts after which governance may be
  registered again identically.
* *Approval*: a quorum of two among three principals, one of them the requester, with
  up to three statements in any package, two resolvers and three instants: a statement lives for one, the
  requirement and the grant for two, and a key one longer, so that they do not end together.
* *Whole path*: one approver, one requester, one worker, one resolver, three instants with the
  authorization's age limit 1 below the requirement's life 2, so that an approval that
  arrives too late exists.
* *Behind it*: three grants, so that a chain has a root, a middle and a leaf; four scopes, a wide one and three that each narrow
  it in tools, risk or window; two people. One agent and one tool in every state they can have, four requests, six
  rules so that any two effects meet and two rules contend for an id. Path, delegation and policy share no variable, so
  a behaviour runs one of the three.
* *Data*: two resources, of which the request uses one (a profile of the other changes the snapshot too), two
  versions each, three sets of terms (redacted output; statistics for a secondary purpose; disabled), three
  declarations, one of them inadmissible. One worker, one lease, two outcomes: the wrapped one and the decided one.
* *Hardening*: two key identities, three states each (ACTIVE, RETIRED, DISABLED is the longest history there is), two
  instants with a window that contains both, four requests of which two compete for sequence 2 and one is of another
  object, three signatures, one envelope; three batches and three answers of the anchoring service. The anchor
  chain shares no variable with the keys, so a behaviour of the run moves the one or the other (`OneSideSpec`), each of which
  is a behaviour of `HardeningSpec`; `ChainsAreLogs` is proved of all behaviours of `HardeningSpec`, which moves both.
* *Release*: two tenants, three releases, two versions of the 0.9 series and 1.0.0, two versions of everything below, two instants, one
  plan and one checkpoint identity. To keep the run small, one policy, allowlist or profile is superseded per behaviour;
  the second tenant exists in behaviours of one instant without plans; a third release in behaviours of one tenant, one
  instant and no baseline. The readiness evidence is of one instant, or its surface, its review or its scope is younger
  than the rest, or its policy is younger than its surface (which must be refused); in the uneven cases nothing
  is superseded. The theorems of section 5 hold without any of these bounds. Assurance: one deployment
  with two contexts, two references of different frameworks, two assertions, one piece of evidence, two entries, one package.
* Symmetry is used over interchangeable captures, bindings, leases, workers, resolvers, keys, releases, assertions and entries, in
  safety runs only (the run with the liveness property has none). No definition chooses among them.
* MaxVersion, MaxStopVersion, MaxOutcomes, MaxLeases, MaxReceipts, MaxRequirements,
  MaxStatements, MaxProfileVersion, MaxKeys, MaxStateVersion, MaxSigned, MaxEnvelopes, MaxBatches, MaxAnswers, MaxGrants and the
  Max…Version of the deployment bound counters the code leaves unbounded; where there are theorems, they hold for
  all values.

## 4 Fairness

Only `FairExecSpec` (of `execution_race` and `halt_commit`) has any: weak fairness of `RedeemStep(w)` per worker. A redemption that
has started is a running Python call without a wait in it, so it takes its next step or raises
(`CallRaises`, the crash of its process or a locked database included). Nothing obliges
a caller to start, an operator to register, or an approver to sign, and no such fairness is assumed.
SQLite's lock is bounded by the connection's timeout, after which the call raises.
`HaltDrains` needs no more. The approval gate has no liveness property: `resolve`
may legitimately never be called. The same is true of the registries: each call is short
and returns, and nobody has to make the next one. The anchoring service owes no answer.

## 5 The proofs

TLAPS checks the theorems below for every value of the constants that satisfies the named
assumptions: `RegistryAssumption`, `StopAssumption`, `ExecutionAssumption`, `ApprovalAssumption`,
`IsolationAssumption`, `DeploymentAssumption`, `KeyAssumption` (which leaves room for the first state of a key),
`ChangeAssumption`, `AnchorAssumption`, `AssuranceAssumption`, `DelegationAssumption`, `PolicyAssumption`. These
say only that bounds and times are natural numbers, that risks and effects are known ones, that a rule has constraints exactly
when its effect is to allow with constraints, and that the escalation minimums are those `ApprovalEscalationPolicy` accepts. TLC evaluates them in every run.

| theorem | statement |
|---|---|
| `McpTypeCorrect`, `HistoriesStayWellFormed`, `BindingsStayPinned`, `BindingsNeverMove` | `McpSpec => []` of the registry's invariants |
| `DriftIsFinal`, `ToolsMoveForward` | `McpSpec =>` the two action properties |
| `RegistryIsLogs` | `McpSpec => ImplementsAppendOnlyLog`: a refinement, one log per identity |
| `ExecTypeCorrect`, `LeasesAreRedeemedOnce`, `EveryRowIsGoverned`, `AuthorityStaysBounded`, `RowsStayReceiptable` | `RestartSpec => []` of the boundary's invariants, restarts included |
| `DrainedHaltHolds` | `RestartSpec => HaltHolds` |
| `LeaseLedgerIsOneTime` | `RestartSpec => LeasesAreOneTime`: the lease ledger refines `OneTimeLedger` |
| `LeaseDriftHolds` | `ExecSpec => LeaseDriftIsFinal`, without restarts |
| `ApprovalTypeCorrect`, `OneVerdict`, `ContinuationsAreEarned`, `QuorumsFollowRisk` | `ApprovalSpec => []` of the gate's invariants, under any policy layer |
| `ReplayLedgerIsOneTime` | `ApprovalSpec => RequirementsAreOneTime`: the replay ledger refines it too |
| `ActionImplementsGate` | `ActionSpec => ApprovalSpec`: the execution boundary is one of the policy layers just mentioned |
| `EveryRedemptionIsApproved`, `NoOutcomeIsStranded`, `ApprovalExtendsNothing` | `ActionSpec => []` of the properties of the whole path |
| `ApprovedRowsAreGoverned`, `HaltOutranksApproval`, `BothLedgersAreOneTime` | with approvals, the boundary keeps its own promises: `RowsAreGoverned`, `OneRedemptionPerLease`, `AuthorityIsBounded`, `AlwaysReceiptable`; `HaltHolds`; both refinements |
| `DataTypeCorrect`, `EveryRowIsDataGoverned`, `HandlingStaysSafe` | `GovernedSpec => []` of the wrapper's invariants |
| `DataDriftIsFinal` | `GovernedSpec => DataDriftHolds` |
| `DataGovernedRowsAreGoverned`, `HaltHoldsBehindWrapper`, `WrappedLedgerIsOneTime` | behind the wrapper, too, the boundary keeps its promises |
| `ReleaseTypeCorrect`, `DatesAgreeAlongTheChain`, `UpgradesCanBeUndone`, `BaselineStaysGrounded` | `ReleaseSpec => []` of the release registries' invariants |
| `ReleasesNeverRevive`, `BaselineNeverRevives` | `ReleaseSpec => ReleaseDriftIsFinal`, `BaselineDriftIsFinal` |
| `CryptoTypeCorrect`, `ChainsHaveNoForks` | `CryptoSpec => []` of the invariants of keys and changes |
| `RefusalsAreFinal`, `RetirementIsHarmless` | `CryptoSpec =>` the two action properties |
| `AnchorsStayLinked` | `AnchorSpec => []AnchorsAreLinked` |
| `ChainsAreLogs` | `HardeningSpec => ChainsImplementLogs`: changes and anchors as logs |
| `PackagesVerifyForEver` | `AssuranceSpec => []PackagesStayVerifiable` |
| `AuthorityOnlyShrinks` | `DelegationSpec => []AuthorityIsInherited`, chains of any length |
| `AddedRulesTighten` | `PolicySpec => RulesOnlyTighten` |

The argument:

* **`McpInv`** adds to the registry's properties `SnapshotsArePinned`: what
  `register_binding` relies on was checked two calls earlier, by `register_snapshot`. Each
  operation adds one record to one of three sets (`StepGrows`), whence drift is final
  (`CurrentWasCurrent`): what is current after a step and was stored before was current before.
  `NextResolution` gives forward movement: a binding can become current over an
  existing one only as its next version over the same capture.
* **`ExecInv`** = type invariant, `McpInv`, `StopsWellFormed`, `ArtifactsSound`, `OneHolder`.
  - `CallSound` says what a call knows after each of its reads. The delicate part is
    `evaluate` and `_assert_current_governance`, which read digest and binding apart: the call
    knows only "*if* the registry is still the one I digested, then it supports the outcome",
    and the registry it digested is a *past* of the present one (`GrownIntoPast`). Since
    what grew cannot come back, the conditional survives every registration, and the last
    comparison discharges it. Without the conditional the invariant is not inductive; with
    the unconditional form it is false.
  - `OneHolder` says that the row of a lease is held by the call that committed it or by the
    redemption returned for it, never by two. A restart drops the call and keeps the row,
    so a committed lease without a holder is allowed, a second holder is not.
* **`Remembered`** (for `LeaseDriftHolds`) adds that every registry remembered by an outcome or a
  call, and every stop state in a lease, lies in the past of the present ones. A restart breaks it:
  after one, governance registered anew and identically has the same digest, and a lease stale
  before it may be fresh after it. This is why the theorem is about `ExecSpec`.
* **`ApprovalInv`** adds that a resolver past its checks still holds a checked package
  (its facts are immutable, so nothing read before the transaction can go stale), and `RowHeldOnce`, the
  counterpart of `OneHolder` for the replay ledger.
* **The ledgers as one-time ledgers.** A step maps to `Spend`, to `Tell` or to a stutter (`LedgerStep`, `ReplayStep`).
  That a commit is a `Spend` is the primary key. That a return is a `Tell` needs `OneHolder` (`RowHeldOnce`): the caller that returns
  holds a row that is there, and nobody was answered for it. The step lemmas speak of the boundary's steps with any artifacts
  given to `issue_lease`, so both compositions cite them.
* **`ActionInv`** = `ExecInv`, `ApprovalInv`, `authorizations = AuthorizationsOf(outcomes)` and, for every lease, `LeaseApproved`: its
  outcome, requirement and resolution passed `_validate_approval_chain` at `issued_at`, and the latter two are on the gate's table. The
  middle equation makes every step of the boundary a step of the gate's policy layer (`ActionImplementsGate`), which
  is how `ApprovalInv`, proved once for every policy layer, holds here. `RedemptionsAreApproved` then joins the lease of a row (`LeaseApproved`) with what the gate
  knows of its resolution (`ContinuationIsEarned`). Leases and the gate's artifacts outlive a restart, so it needs no case of its own.
* **`DataInv`** = `ExecInv` and what the wrapper knows after each of its reads (`CallGoverned`). When `evaluate` has read
  profile and snapshot apart, nothing says that they belong together; `Decided` says it, and holds only of calls that both comparisons let through.
  A lease is issued by such calls alone, and what they compared is inside the immutable outcome, which makes the last
  conjunct, on leases, inductive.
* **`LogInv`** adds to `McpInv` that histories are `Counted`: finite, with the versions `1 .. Cardinality(H)`. Then the
  version `Appendable` demands is the length of the log plus one, and every older index chooses the record it chose before (`AppendExtends`). With
  `WellFormedHistory` alone the log of an infinite history would be undefined.
* **`ReleaseInv`** adds three facts to the properties. `Attributed`: dates are numbers and tenants are
  tenants. `WorkersAreDated`: what `register_worker_profile` compared stays compared. `LatestReleaseExists`:
  `register_release` compares its date with the release of the *highest* version, and to conclude anything about all the
  others there has to be one; keeping this as an invariant takes the place of an induction over finite sets.
  Chronology then goes down the chain by `AfterIsTransitive`. `NotCurrentAgain` is drift: the four
  artifacts `assert_release_current` looks at stand in histories that only grow, and what is not the latest of a history never
  becomes it (`OldStaysOld`). That the baseline's releases share a worker is `LatestIsUnique`.
* **`CryptoInv`** is the type invariant, the type of the chain, and `ChainIsIntact`, which is inductive with them: that `configured`
  is what the *last* change of an object proposed is what lets the next change of it be compared with a single value.
  For the key states, `StatesOfAKey` says what a step may do to them (nothing, or one new last state), and `StatusAfter` what
  that changes: the status at every time from the new state's date on, and at none before. Refusals are final because a
  new state is never ACTIVE, and never follows a DISABLED one even when it is back-dated onto it.
* **`AnchorInv`**: the head comparison alone makes the chain; the external service is unconstrained.
* **`AssuranceInv`** adds to the packages what their parts agreed on when they were registered (`EntriesAgree`) and that a
  scope and reference have one verdict and a verdict one entry (`VerdictsAreSingle`), from which follows that no package
  answers for a reference twice.
* **Authority** goes up a chain of unknown length without an induction: for a grant `g` in force, the grants of the bundle that are
  `g` or may be passed on and are at least as wide form a set that holds `g` and the parents of its members. `Ancestors(g)` is the
  least such set, hence part of this one.
* **Added rules** matter through two things only, the effects and the constraints that match. Both grow, and
  `Combined` is monotone in them once something matches.

Only model-checked: `HaltDrains` (liveness under fairness, out of the prover's reach) and the four violations.
`HistoriesWellFormed`, `BaselineDriftIsFinal` and `RequirementsAreOneTime` are proved, and checked by no run of their own.
`PolicySpec`, `DelegationSpec` and `ActionSpec` are
proved apart and share no variable; `MCGovernedAction` only lets TLC run the three together.

## 6 Disagreements between code and documents

1. *Halt and commit* (`halt_commit`). `docs/EXECUTION_RECEIPTS.md:63`: "A halted state blocks
   lease issuance and redemption." `redeem_lease` reads the stop state and commits later; a halt
   registered in between is in force while the row is written. `HaltHolds` and `HaltDrains` are
   what holds instead.
2. *Retry under one lease* (`receipt_retry`). `docs/EXECUTION_RECEIPTS.md:85`: "Completion may
   follow start, including a failed execution, but the same lease cannot be retried."
   `build_receipt` keeps no record and accepts a second receipt of one consumption, for an
   execution that starts after the first one failed.
3. *Denial* (`approval_denial`). `docs/APPROVALS.md:114`: "To retry after a denial, the caller must
   obtain a new approval requirement through a new governed decision flow." `build_requirement`
   is a static function of request, authorization and time; called again with the same
   authorization at another second it makes a new requirement, which can be approved. No new
   decision is needed.

4. *Row-level-security policies* (`rls_policy`). `docs/PRODUCTION_REFERENCE.md:88`: "A policy or
   RLS/tenant-isolation change therefore requires a new worker/release binding instead of silently reusing a
   stale release manifest." `assert_release_current` compares the isolation *profile*; a new version of a policy
   that the profile names changes no profile, and the release stays current. The property is about steps: in the trace a
   release is registered and current, the second version of its policy is registered after it and dated after it, and
   `assert_release_current` still accepts it.

## 7 What is not modelled, and why

* Cryptography, canonical JSON, hashing: assumed ideal.
* Stateless checks: receipt and identity signatures, OIDC tokens, workload
  attestations. Their verdicts are free choices here, or parts of the sets an instance gives.
* Constructor checks that look at one value only (fixed checklists of reviews, threat models, surfaces, SQL of
  row-level-security policies): a unit test settles them.
* Parsing, schema validation, CLI, HTTP: input and output without state.
* Calls of the in-memory registries other than the gate's reads are single steps. CPython runs them without a lock; two
  threads that register at once could interleave inside one, which no document promises to support.
* Statements left out of a package: the gate sees only what it is handed and keeps no record of
  the others, so nothing can be said of them.
* Several leases of one outcome: `issue_lease` keeps no record, so they can exist
  (`MaxLeases`); no document promises one redemption per outcome and no property claims it.
* Several institutions, and several tenants of the key, change and anchor registries: every lookup filters by them and nothing is shared.

## 8 The plan

Done: the path from governed metadata to receipt, the human approval inside it, data-purpose governance around
it; delegated authority and the policy's decision behind it; keys, configuration changes, envelopes, anchors; releases, the stable baseline, assurance.

Proved: every safety property of every passing run, the composed ones and the refinements included.

Next, most important first:

1. One composition of `GovernedAction` and `DataGovernedExecution`: approvals behind the wrapper, which passes them on unchanged.
2. Receipt signatures over `KeyLifecycle`, with what a verifier of a receipt may conclude.
3. The identity registries (`oidc.py`, `workload_identity.py`), as far as they decide who a request is from.

---- MODULE ResourceManagement ----
(***************************************************************************)
(* The management API's set, delete and get of one resource, composed with *)
(* the Kubernetes provider of ResourceController.                          *)
(*                                                                         *)
(* The API is stateless and its requests run concurrently: between the     *)
(* calls of one request to the repository and to the actor the calls of    *)
(* another may come.  There is no lock and no transaction over the two.    *)
(***************************************************************************)
EXTENDS ResourceController

CONSTANTS
    MaxConcurrent, \* requests that may be in flight at once, a bound
    Providers,     \* the services that each version of the provider defines
    FirstProvider  \* the version that is installed

ASSUME ResourceAssumption ==
    /\ Definitions \in [Services -> Definition]
    /\ \A s \in Services : Objects[s] \subseteq Kinds
    /\ Versions = 1..MaxEvents
    /\ Providers \subseteq SUBSET Services
    /\ {} \notin Providers
    /\ FirstProvider \in Providers
    /\ {MaxQueue, MaxEvents} \subseteq Nat \ {0}
    /\ {MaxInstances, MaxConcurrent} \subseteq Nat

VARIABLES
    provider,      \* the provider's services in its repository, {} if none
    stored,        \* the specification in the resource's repository
    revision,      \* specifications that clients have written so far
    requests,      \* the requests that write and are in flight
    trusted        \* the last request that ended ran alone and succeeded

apiVars == <<provider, stored, revision, requests, trusted>>
vars == <<providerVars, apiVars>>

NoSpec == [version |-> 0, services |-> {}]
Specification == [version : Versions \cup {0}, services : SUBSET Services]
Request == [id : 1..MaxEvents, op : {"set", "delete"},
            at : {"store", "call", "erase"},
            spec : Specification, alone : BOOLEAN]

\* The same of the management API and the provider together.
ApiTypeOK ==
    /\ TypeOK
    /\ provider \in Providers \cup {{}}
    /\ stored \in Specification
    /\ revision \in 0..MaxEvents
    /\ requests \subseteq Request
    /\ trusted \in BOOLEAN

Init ==
    /\ ProviderInit
    /\ provider = FirstProvider
    /\ stored = NoSpec
    /\ revision = 0
    /\ requests = {}
    /\ trusted = TRUE

\* A request begins: the ones it runs beside are no longer alone.
Begin(op, at, spec) ==
    /\ Cardinality(requests) < MaxConcurrent
    /\ Spend
    /\ requests' = {[r EXCEPT !.alone = FALSE] : r \in requests} \cup
                   {[id |-> spent + 1, op |-> op, at |-> at, spec |-> spec,
                     alone |-> requests = {}]}

\* A request goes on with its next call.
GoesOn(r, at) == requests' = (requests \ {r}) \cup {[r EXCEPT !.at = at]}

\* A request ends, with or without an error.
End(r, ok) ==
    /\ requests' = requests \ {r}
    /\ trusted' = (ok /\ r.alone)

\* populate_default_values: what the client gives for a service is merged
\* with what the provider defines, and services only the provider has are
\* added.  The validators then refuse a service the provider does not have.
MergeSpec(given) == given \cup provider
Validate(services) == services \subseteq provider

\* set, up to the repository: the schema of the provider is read, merged into
\* the specification and validated.  A kind without a provider, or a
\* specification the validators refuse, is an error and changes nothing.
BeginSet ==
    /\ provider # {}
    /\ \E given \in SUBSET Services :
         /\ Validate(MergeSpec(given))
         /\ Begin("set", "store",
                  [version |-> revision + 1, services |-> MergeSpec(given)])
    /\ revision' = revision + 1
    /\ UNCHANGED <<providerState, provider, stored, trusted>>

\* repo.set.
StoreSpec(r) ==
    /\ r.at = "store"
    /\ stored' = r.spec
    /\ GoesOn(r, "call")
    /\ UNCHANGED <<providerVars, provider, revision, trusted>>

\* delete, up to the invocation of the actor: the specification is read, and
\* the deprovision handlers are called, whose errors are logged.
BeginDelete ==
    /\ stored # NoSpec
    /\ Begin("delete", "call", stored)
    /\ UNCHANGED <<providerState, provider, stored, revision, trusted>>

\* get, list and wait_for_ready ask the actor for its status, which for the
\* actor is a call like any other.
GetStatus ==
    /\ stored # NoSpec
    /\ Activate
    /\ UNCHANGED apiVars

\* The invocation of configure: after an error the request ends with an
\* error, and the specification stays stored.
CallConfigure(r, o) ==
    /\ r.op = "set" /\ r.at = "call"
    /\ Configure(r.spec, o)
    /\ End(r, o \in {"ok", "instance unread"})
    /\ UNCHANGED <<provider, stored, revision>>

\* Mutant: an error of deprovision does not stop the deletion.
CallDeprovisionIgnoringErrors(r, o) ==
    /\ r.op = "delete" /\ r.at = "call"
    /\ Deprovision(o)
    /\ GoesOn(r, "erase")
    /\ UNCHANGED <<provider, stored, revision, trusted>>

\* The invocation of deprovision: after an error the specification is kept.
CallDeprovision(r, o) ==
    /\ r.op = "delete" /\ r.at = "call"
    /\ Deprovision(o)
    /\ IF o \in {"ok", "instance kept"}
         THEN /\ GoesOn(r, "erase")
              /\ UNCHANGED trusted
         ELSE End(r, FALSE)
    /\ UNCHANGED <<provider, stored, revision>>

\* repo.delete.
EraseSpec(r) ==
    /\ r.at = "erase"
    /\ stored' = NoSpec
    /\ End(r, TRUE)
    /\ UNCHANGED <<providerVars, provider, revision>>

\* A call to the repository or to the actor fails, or the API's process
\* dies, at any point of a request; the rest of it never happens.
RequestFails(r) ==
    /\ Spend
    /\ End(r, FALSE)
    /\ UNCHANGED <<providerState, provider, stored, revision>>

\* set and delete of the provider itself: nobody asks whether a resource
\* uses it.
SetProvider ==
    \E p \in (Providers \cup {{}}) \ {provider} :
      /\ Spend
      /\ provider' = p
      /\ UNCHANGED <<providerState, stored, revision, requests, trusted>>

\* Dapr activates an actor when it is called.
ActivateOnCall ==
    /\ podEvent \/ debounced \/ \E r \in requests : r.at = "call"
    /\ Activate
    /\ UNCHANGED apiVars

ProviderStep ==
    /\ \/ Activated
       \/ \E s \in Services, k \in Slots : WorkerStep(s, k)
       \/ MonitorStep
    /\ UNCHANGED apiVars

ProviderFault ==
    /\ \/ Deactivate
       \/ \E s \in Services, k \in Slots, kind \in Kinds : CallFails(s, k, kind)
       \/ \E s \in Services : DeleteOutside(s)
       \/ PodChanges
       \/ WatchFails
       \/ InvokeFails
       \/ Crash
    /\ UNCHANGED apiVars

RequestStep(r) ==
    \/ StoreSpec(r)
    \/ EraseSpec(r)
    \/ \E o \in ConfigureOutcomes : CallConfigure(r, o)
    \/ \E o \in DeprovisionOutcomes : CallDeprovision(r, o)

Next ==
    \/ BeginSet
    \/ BeginDelete
    \/ \E r \in requests : RequestStep(r)
    \/ \E r \in requests : RequestFails(r)
    \/ SetProvider
    \/ GetStatus
    \/ ActivateOnCall
    \/ ProviderStep
    \/ ProviderFault

\* The tasks of both processes are scheduled and Dapr delivers calls: the
\* system does not stop while one of them can take a step.
Fairness ==
    WF_vars(ActivateOnCall \/ ProviderStep \/ \E r \in requests : RequestStep(r))

Spec == Init /\ [][Next]_vars /\ Fairness

-----------------------------------------------------------------------------
(* Properties.                                                             *)

\* After a set or delete that ran alone and was answered without an error,
\* and as long as no other is under way, the repository and the actor agree,
\* whatever earlier requests left behind when they failed or overlapped.
\* (standard/mod.rs and extensible/mod.rs, set and delete)
Agreement ==
    trusted /\ requests = {} =>
      IF stored = NoSpec THEN specs = NoSpecs \/ specs.removed
      ELSE /\ ~ specs.removed
           /\ specs.version = stored.version
           /\ specs.services = stored.services

\* Reconciliation ends: requests are answered, channels drained and pod
\* events used up, so that the loop from a reconciliation over the pods it
\* replaces back to a reconciliation does not turn for ever.
\* (monitor/mod.rs spawn_handler_task, reconciler.rs reconcile_deployment)
ReconciliationEnds == <>[](Quiet /\ requests = {})
====

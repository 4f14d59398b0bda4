--------------------------- MODULE AdmissionServer ---------------------------
(***************************************************************************)
(* The admission server: how its pods start (cmd/webhook/main.go and       *)
(* pkg/webhook/configuration.go), what of an earlier release they upgrade, *)
(* the one object they must agree on (the ValidatingWebhookConfiguration,  *)
(* whose CA bundle has to sign the certificate every pod presents), the    *)
(* removal of the namespace, and the judgement of a PVC's deletion.        *)
(*                                                                         *)
(* Every call to the API server is a step.  An object is compared by value *)
(* where the code relies on its resourceVersion: a label only moves to the *)
(* current version, so a value, once left, never comes back.               *)
(***************************************************************************)
EXTENDS Naturals, Sequences, FiniteSets, FiniteSetsExt

CONSTANTS
    Pod,          \* the pods of the admission Deployment
    Current,      \* version.Current(), a sequence of numbers
    Earlier,      \* the releases whose objects an upgrade may find
    PolicyEnv,    \* ADMISSION_WEBHOOK_FAILURE_POLICY
    Calm,         \* whether the namespace's removal is asked for only while
                  \* every pod listens, and none restarts until it is over
    MaxFaults,    \* bound on failed API calls and crashes, together
    MaxRemovals   \* bound on requests to remove the namespace

ASSUME AdmissionAssumption ==
    /\ Pod # {} /\ Calm \in BOOLEAN
    /\ MaxFaults \in Nat /\ MaxRemovals \in Nat
    /\ Current \in Seq(Nat) /\ Len(Current) = 3
    /\ \A v \in Earlier : v \in Seq(Nat) /\ Len(v) \in 1..3 /\ v # Current

VARIABLES
    ns,       \* the openebs namespace: "no", "yes"; with its removal under
              \* way "asked" (of a pod), "agreed" (by the pod), "closing"
              \* (admitted); "dropped" when it stays though the pod agreed
    secret,   \* the Secret with the certificates, or None
    service,  \* the Service in front of the pods, or None
    config,   \* the ValidatingWebhookConfiguration, or None
    pc,       \* what each pod does next; "serve" once it listens
    seen,     \* the object a starting pod listed or read last
    cert,     \* the CA of the certificates a pod holds, 0 for none
    cas,      \* how many CAs have been made
    clone,    \* the clone of the PVC's volume: "none", "claim" (its CVC
              \* exists) or "volume" (its CV too)
    pvc,      \* the PVC: "there", "judged" (deleted, the server agreed) or
              \* "unasked" (deleted, no server was registered)
    call,     \* the judgement under way: what it reads next, or "none"
    judge,    \* the pod that judges
    kept,     \* whether a clone has been there since the judgement began
    faults,   \* failures so far
    removals  \* requests to remove the namespace so far

podVars == <<pc, seen, cert>>
objVars == <<secret, service, config>>
pvcVars == <<clone, pvc, call, judge, kept>>
vars == <<ns, objVars, podVars, cas, pvcVars, faults, removals>>

None == [none |-> TRUE]

(* util.go, with the comparison stopping at the first difference. *)
IsCurrentLessThanNewVersion(old, new) ==
    LET differing == {i \in 1..Len(old) : old[i] # new[i]}
    IN  differing # {} /\ old[Min(differing)] < new[Min(differing)]

FailurePolicy == IF PolicyEnv \in {"no", "false", "ignore"} THEN "Ignore" ELSE "Fail"

Labelled(version) == [label |-> version]
Certs(ca, version) == [ca |-> ca, label |-> version]
Validator(ca, version, ruled) == [ca |-> ca, label |-> version, nsRule |-> ruled]

(***************************************************************************)
(* Init: nothing yet, or the objects an earlier release left behind.  The  *)
(* rule for namespaces came with 2.5.0.                                    *)
(***************************************************************************)
Init ==
    /\ \/ secret = None /\ service = None /\ config = None /\ cas = 0
       \/ \E v \in Earlier :
             /\ secret = Certs(1, v)
             /\ service = Labelled(v)
             /\ config = Validator(1, v, ~IsCurrentLessThanNewVersion(v, <<2, 5, 0>>))
             /\ cas = 1
    /\ ns = "yes"
    /\ pc = [p \in Pod |-> "down"]
    /\ seen = [p \in Pod |-> None]
    /\ cert = [p \in Pod |-> 0]
    /\ clone = "none" /\ pvc = "there" /\ call = "none" /\ kept = FALSE
    /\ judge = CHOOSE p \in Pod : TRUE
    /\ faults = 0 /\ removals = 0

-----------------------------------------------------------------------------
(* A pod's program counter moves to `to`, having seen `object`. *)
Go(p, to, object) ==
    /\ pc' = [pc EXCEPT ![p] = to]
    /\ seen' = [seen EXCEPT ![p] = object]

Die(p) ==
    /\ Go(p, "down", None)
    /\ cert' = [cert EXCEPT ![p] = 0]

(* A container may run, exit or start again. *)
Runs == ns \in {"yes", "dropped"} \/ (ns # "no" /\ ~Calm)

(* main: the kubelet (re)starts the container, which finds its Deployment. *)
GetAdmissionReference(p) ==
    /\ Runs /\ pc[p] = "down"
    /\ Go(p, "secrets", None)
    /\ UNCHANGED <<ns, objVars, cert, cas, pvcVars, faults, removals>>

(* preUpgrade, the lists: an object of this release is passed over. *)
Listed(p, object, up, next) ==
    IF object = None \/ object.label = Current THEN Go(p, next, None) ELSE Go(p, up, object)

ListOld(p) ==
    /\ Runs
    /\ \/ pc[p] = "secrets" /\ Listed(p, secret, "secretUp", "services")
       \/ pc[p] = "services" /\ Listed(p, service, "serviceUp", "configs")
       \/ pc[p] = "configs" /\ Listed(p, config, "configUp", "secret")
    /\ UNCHANGED <<ns, objVars, cert, cas, pvcVars, faults, removals>>

(* preUpgrade, the Updates of the Secret and of the Service: refused, and  *)
(* the process exits, when the object is no longer the one that was listed. *)
UpdateOld(p) ==
    /\ Runs
    /\ \/ /\ pc[p] = "secretUp"
          /\ IF secret = seen[p]
             THEN secret' = [secret EXCEPT !.label = Current] /\ Go(p, "services", None) /\ UNCHANGED cert
             ELSE Die(p) /\ UNCHANGED secret
          /\ UNCHANGED service
       \/ /\ pc[p] = "serviceUp"
          /\ IF service = seen[p]
             THEN service' = [service EXCEPT !.label = Current] /\ Go(p, "configs", None) /\ UNCHANGED cert
             ELSE Die(p) /\ UNCHANGED service
          /\ UNCHANGED secret
    /\ UNCHANGED <<ns, config, cas, pvcVars, faults, removals>>

(* addNSWithDeleteRule *)
AddNSWithDeleteRule(c) ==
    [c EXCEPT !.nsRule = @ \/ IsCurrentLessThanNewVersion(c.label, <<2, 5, 0>>)]

(* preUpgrade, the configuration: one older than 2.8.0 is deleted by name, *)
(* whatever stands under that name by then; a later one is relabelled.     *)
UpgradeConfig(p) ==
    /\ Runs /\ pc[p] = "configUp"
    /\ IF IsCurrentLessThanNewVersion(seen[p].label, <<2, 8, 0>>)
       THEN IF config # None
            THEN config' = None /\ Go(p, "secret", None) /\ UNCHANGED cert
            ELSE Die(p) /\ UNCHANGED config
       ELSE IF config = seen[p]
            THEN /\ config' = [AddNSWithDeleteRule(config) EXCEPT !.label = Current]
                 /\ Go(p, "secret", None) /\ UNCHANGED cert
            ELSE Die(p) /\ UNCHANGED config
    /\ UNCHANGED <<ns, secret, service, cas, pvcVars, faults, removals>>

-----------------------------------------------------------------------------
(* InitValidationServer: the Secret is read, or found missing. *)
GetSecret(p) ==
    /\ Runs /\ pc[p] = "secret"
    /\ IF secret # None
       THEN Go(p, "service", None) /\ cert' = [cert EXCEPT ![p] = secret.ca]
       ELSE Go(p, "newSecret", None) /\ UNCHANGED cert
    /\ UNCHANGED <<ns, objVars, cas, pvcVars, faults, removals>>

(* A pod that takes the losing side of the race for the winning one: it    *)
(* goes on with the CA it made itself.                                     *)
CreateCertsSecretOwn(p) ==
    /\ Runs /\ pc[p] = "newSecret"
    /\ cas' = cas + 1
    /\ secret' = IF secret = None THEN Certs(cas + 1, Current) ELSE secret
    /\ Go(p, "service", None)
    /\ cert' = [cert EXCEPT ![p] = cas + 1]
    /\ UNCHANGED <<ns, service, config, pvcVars, faults, removals>>

(* createCertsSecret: a new CA and a key pair it signs; the create is      *)
(* refused, and the process exits, when another pod was faster.            *)
CreateCertsSecret(p) ==
    /\ Runs /\ pc[p] = "newSecret"
    /\ IF secret = None
       THEN /\ cas' = cas + 1
            /\ secret' = Certs(cas + 1, Current)
            /\ Go(p, "service", None)
            /\ cert' = [cert EXCEPT ![p] = cas + 1]
       ELSE Die(p) /\ UNCHANGED <<cas, secret>>
    /\ UNCHANGED <<ns, service, config, pvcVars, faults, removals>>

CreateWebhookServiceStrictly(p) ==
    /\ Runs
    /\ pc[p] = "service"
    /\ IF service = None THEN Go(p, "newService", None) /\ UNCHANGED cert ELSE Die(p)
    /\ UNCHANGED <<ns, objVars, cas, pvcVars, faults, removals>>

(* createWebhookService, the read. *)
GetWebhookService(p) ==
    /\ Runs
    /\ pc[p] = "service"
    /\ Go(p, IF service = None THEN "newService" ELSE "config", None)
    /\ UNCHANGED <<ns, objVars, cert, cas, pvcVars, faults, removals>>

(* createWebhookService, the create. *)
CreateWebhookService(p) ==
    /\ Runs /\ pc[p] = "newService"
    /\ IF service = None
       THEN service' = Labelled(Current) /\ Go(p, "config", None) /\ UNCHANGED cert
       ELSE Die(p) /\ UNCHANGED service
    /\ UNCHANGED <<ns, secret, config, cas, pvcVars, faults, removals>>

(* createAdmissionValidatingConfig, the read: one that exists stays as it is. *)
GetValidatorWebhook(p) ==
    /\ Runs /\ pc[p] = "config"
    /\ Go(p, IF config = None THEN "newConfig" ELSE "new", None)
    /\ UNCHANGED <<ns, objVars, cert, cas, pvcVars, faults, removals>>

(* createAdmissionValidatingConfig, the create, with the CA read before:   *)
(* it makes good what a dropped removal has deleted.                       *)
CreateAdmissionValidatingConfig(p) ==
    /\ Runs /\ pc[p] = "newConfig"
    /\ IF config = None
       THEN /\ config' = Validator(cert[p], Current, TRUE)
            /\ ns' = IF ns = "dropped" THEN "yes" ELSE ns
            /\ Go(p, "new", None) /\ UNCHANGED cert
       ELSE Die(p) /\ UNCHANGED <<ns, config>>
    /\ UNCHANGED <<secret, service, cas, pvcVars, faults, removals>>

(* New: the Secret is read again, and the server listens. *)
New(p) ==
    /\ Runs /\ pc[p] = "new"
    /\ IF secret # None
       THEN Go(p, "serve", None) /\ cert' = [cert EXCEPT ![p] = secret.ca]
       ELSE Die(p)
    /\ UNCHANGED <<ns, objVars, cas, pvcVars, faults, removals>>

(* A call to the API server fails (klog.Fatal), or the container is killed; *)
(* a judgement it was making is lost, which refuses the request.            *)
Exit(p) ==
    /\ Runs /\ pc[p] # "down" /\ faults < MaxFaults
    /\ faults' = faults + 1
    /\ Die(p)
    /\ IF call # "none" /\ judge = p
       THEN call' = "none" /\ kept' = FALSE
       ELSE UNCHANGED <<call, kept>>
    /\ UNCHANGED <<ns, objVars, cas, clone, pvc, judge, removals>>

-----------------------------------------------------------------------------
(* A pod the API server can call: the Service leads to it, it listens, and *)
(* the registered CA has signed its certificate.                           *)
Reached(p) ==
    /\ pc[p] = "serve" /\ service # None /\ config # None
    /\ cert[p] = config.ca

Unreached == \A p \in Pod : ~Reached(p)

(* What happens to a request no pod answers. *)
PassedUnasked == config = None \/ (Unreached /\ FailurePolicy = "Ignore")

(* The removal of the namespace is put to a pod. *)
NamespaceAsked == config # None /\ config.nsRule /\ ~Unreached

(* The removal is requested; when no pod is asked, it is admitted or, by   *)
(* the failure policy, refused.                                            *)
DeleteNamespace ==
    /\ ns \in {"yes", "dropped"} /\ removals < MaxRemovals
    /\ Calm => \A p \in Pod : pc[p] = "serve"
    /\ ~(config # None /\ config.nsRule /\ Unreached /\ FailurePolicy = "Fail")
    /\ ns' = IF NamespaceAsked THEN "asked" ELSE "closing"
    /\ removals' = removals + 1
    /\ UNCHANGED <<objVars, podVars, cas, pvcVars, faults>>

ValidateNamespaceDeleteAllow ==
    /\ ns = "asked" /\ ns' = "agreed"
    /\ UNCHANGED <<objVars, podVars, cas, pvcVars, faults, removals>>

(* validateNamespaceDeleteRequest: the pod deletes the configuration and   *)
(* agrees, or the Delete fails (there may be none left), and it refuses.   *)
ValidateNamespaceDelete ==
    /\ ns = "asked"
    /\ \/ /\ config # None
          /\ config' = None /\ ns' = "agreed" /\ UNCHANGED faults
       \/ /\ IF config = None THEN UNCHANGED faults
             ELSE faults < MaxFaults /\ faults' = faults + 1
          /\ ns' = "yes" /\ UNCHANGED config
    /\ UNCHANGED <<secret, service, podVars, cas, pvcVars, removals>>

(* The API server goes on with the removal, or drops it: the request was a *)
(* dry run, which SideEffects "None" lets reach the pod, another webhook   *)
(* refuses, the reply comes after the five seconds it is given, or it is a *)
(* refusal because the Delete was carried out and its answer lost.         *)
Conclude ==
    /\ ns = "agreed"
    /\ \/ ns' = "closing"
       \/ ns' = IF config = None THEN "dropped" ELSE "yes"
    /\ UNCHANGED <<objVars, podVars, cas, pvcVars, faults, removals>>

(* Everything the namespace holds goes; the configuration is not in it. *)
NamespaceGone ==
    /\ ns = "closing" /\ ns' = "no"
    /\ secret' = None /\ service' = None
    /\ pc' = [p \in Pod |-> "down"]
    /\ seen' = [p \in Pod |-> None]
    /\ cert' = [p \in Pod |-> 0]
    /\ call' = "none" /\ kept' = (pvc = "judged" /\ kept)
    /\ UNCHANGED <<config, cas, clone, pvc, judge, faults, removals>>

(* cStor is installed again. *)
Install ==
    /\ ns = "no" /\ ns' = "yes"
    /\ UNCHANGED <<objVars, podVars, cas, pvcVars, faults, removals>>

-----------------------------------------------------------------------------
(* The deletion of the PVC is requested: a pod is asked, or none is. *)
AskDelete(p) ==
    /\ pvc = "there" /\ call = "none" /\ Reached(p)
    /\ call' = "pvc" /\ judge' = p /\ kept' = (clone # "none")
    /\ UNCHANGED <<ns, objVars, podVars, cas, clone, pvc, faults, removals>>

DeleteUnasked ==
    /\ pvc = "there" /\ call = "none" /\ PassedUnasked
    /\ pvc' = "unasked"
    /\ UNCHANGED <<ns, objVars, podVars, cas, clone, call, judge, kept, faults, removals>>

Answer(allowed) ==
    /\ call' = "none"
    /\ IF allowed THEN pvc' = "judged" /\ UNCHANGED kept ELSE kept' = FALSE /\ UNCHANGED pvc

ReadOn(next) == call' = next /\ UNCHANGED <<pvc, kept>>

ValidateVolumesOnly ==
    /\ call # "none"
    /\ \/ call = "pvc" /\ ReadOn("volumes") /\ UNCHANGED faults
       \/ call = "volumes" /\ Answer(clone # "volume") /\ UNCHANGED faults
       \/ faults < MaxFaults /\ faults' = faults + 1 /\ Answer(FALSE)
    /\ UNCHANGED <<ns, objVars, podVars, cas, clone, judge, removals>>

(* validatePVCDeleteRequest: reads the PVC, the clones' CVs, the clones'   *)
(* CVCs; a clone, or a read that fails, refuses the request.               *)
ValidatePVCDeleteRequest ==
    /\ call # "none"
    /\ \/ call = "pvc" /\ ReadOn("volumes") /\ UNCHANGED faults
       \/ /\ call = "volumes" /\ UNCHANGED faults
          /\ IF clone = "volume" THEN Answer(FALSE) ELSE ReadOn("claims")
       \/ call = "claims" /\ Answer(clone = "none") /\ UNCHANGED faults
       \/ faults < MaxFaults /\ faults' = faults + 1 /\ Answer(FALSE)
    /\ UNCHANGED <<ns, objVars, podVars, cas, clone, judge, removals>>

(* The clone's life: the CSI driver makes its CVC, the CVC controller its  *)
(* CV; on deletion the CV goes before the CVC's finalizer does.            *)
CloneMoves ==
    /\ clone' \in CASE clone = "none"   -> {"claim"}
                    [] clone = "claim"  -> {"none", "volume"}
                    [] clone = "volume" -> {"claim"}
    /\ kept' = (kept /\ clone' # "none")
    /\ UNCHANGED <<ns, objVars, podVars, cas, pvc, call, judge, faults, removals>>

-----------------------------------------------------------------------------
Starting(p) ==
    \/ GetAdmissionReference(p) \/ ListOld(p) \/ UpdateOld(p) \/ UpgradeConfig(p)
    \/ GetSecret(p) \/ CreateCertsSecret(p)
    \/ GetWebhookService(p) \/ CreateWebhookService(p)
    \/ GetValidatorWebhook(p) \/ CreateAdmissionValidatingConfig(p) \/ New(p)

Next ==
    \/ \E p \in Pod : Starting(p) \/ Exit(p) \/ AskDelete(p)
    \/ DeleteNamespace \/ ValidateNamespaceDelete \/ Conclude \/ NamespaceGone \/ Install
    \/ DeleteUnasked \/ ValidatePVCDeleteRequest \/ CloneMoves

Spec == Init /\ [][Next]_vars

(* The kubelet restarts a container that exited, and a started process     *)
(* goes on; nothing is assumed of the administrators or of the clone.      *)
FairSpec == Spec /\ \A p \in Pod : WF_vars(Starting(p))

-----------------------------------------------------------------------------
Step == {"down", "secrets", "secretUp", "services", "serviceUp", "configs", "configUp",
         "secret", "newSecret", "service", "newService", "config", "newConfig", "new", "serve"}

Version == Earlier \cup {Current}
AnyCA == 1..cas

Secrets == [ca : AnyCA, label : Version]
Services == [label : Version]
Configs == [ca : AnyCA, label : Version, nsRule : BOOLEAN]

(* The type invariant; an object carries the label of a release, and only  *)
(* a CA that was made is stored or held.                                   *)
TypeOK ==
    /\ ns \in {"no", "yes", "asked", "agreed", "dropped", "closing"}
    /\ secret \in {None} \cup Secrets
    /\ service \in {None} \cup Services
    /\ config \in {None} \cup Configs
    /\ pc \in [Pod -> Step]
    /\ seen \in [Pod -> {None} \cup Secrets \cup Services \cup Configs]
    /\ cert \in [Pod -> {0} \cup AnyCA]
    /\ cas \in Nat
    /\ clone \in {"none", "claim", "volume"} /\ pvc \in {"there", "judged", "unasked"}
    /\ call \in {"none", "pvc", "volumes", "claims"} /\ judge \in Pod
    /\ kept \in BOOLEAN
    /\ faults \in 0..MaxFaults /\ removals \in 0..MaxRemovals

(* Every pod that listens presents a certificate the registered CA signed, *)
(* however the pods raced for the Secret (createCertsSecret) and for the   *)
(* configuration (createAdmissionValidatingConfig), and across a removal   *)
(* and a new installation: otherwise the failure policy refuses every PVC, *)
(* pool and volume request of the cluster for good.                        *)
ServersAreTrusted ==
    \A p \in Pod : pc[p] = "serve" /\ config # None => cert[p] = config.ca

(* A removed namespace leaves no configuration behind                      *)
(* (validateNamespaceDeleteRequest): it would refuse requests no pod       *)
(* answers any more, and a later installation would not replace its CA.    *)
RemovedLeavesNoConfig == ns = "no" => config = None

(* The server never agrees to the deletion of a PVC whose volume had a     *)
(* clone from the beginning of the judgement to its end, although its two  *)
(* lists are read one after the other while the clone's CV comes and goes  *)
(* (validatePVCDeleteRequest).                                             *)
ClonedSourceKept == pvc = "judged" => ~kept

(* While cStor is installed, every pod ends up listening, registered and   *)
(* trusted: pods that lost a race or saw an Update refused exit, start     *)
(* again and find what the other one made (InitValidationServer).  What    *)
(* they serve has been brought up to the release (preUpgrade): its label   *)
(* is current and it covers the deletion of namespaces.  A removal refused *)
(* by the pod changes none of this; one that was dropped after the pod had *)
(* agreed does, until some pod restarts: the configuration is deleted, and *)
(* a pod that listens does not register again (validateNamespaceDelete-    *)
(* Request).                                                               *)
ServersSettle ==
    <>[](ns = "yes" => /\ \A p \in Pod : Reached(p)
                       /\ config # None /\ config.label = Current /\ config.nsRule)
=============================================================================

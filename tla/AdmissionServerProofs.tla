------------------------ MODULE AdmissionServerProofs ------------------------
(***************************************************************************)
(* Theorems about AdmissionServer, for any number of pods, any releases    *)
(* and any number of faults and removals of the namespace.  Those on the   *)
(* certificates assume that the namespace is removed only while the pods   *)
(* listen (Calm).                                                          *)
(***************************************************************************)
EXTENDS AdmissionServer, TLAPS

(* A clone that has been there all the time is there now. *)
Seen == (kept => clone # "none") /\ ClonedSourceKept

(* validatePVCDeleteRequest agrees only when the last list shows no clone. *)
THEOREM SourceKept == Spec => []ClonedSourceKept
<1>1. Init => Seen
  BY DEF Init, Seen, ClonedSourceKept
<1>2. Seen /\ [Next]_vars => Seen'
  <2> SUFFICES ASSUME Seen, [Next]_vars PROVE Seen'
    OBVIOUS
  <2> USE DEF Seen, ClonedSourceKept
  <2>1. ASSUME UNCHANGED <<clone, pvc, kept>> PROVE Seen'
    BY <2>1
  <2>2. ASSUME NEW p \in Pod, Starting(p) PROVE Seen'
    BY <2>1, <2>2, Zenon
    DEF Starting, GetAdmissionReference, ListOld, UpdateOld, UpgradeConfig, GetSecret,
        CreateCertsSecret, GetWebhookService, CreateWebhookService, GetValidatorWebhook,
        CreateAdmissionValidatingConfig, New, pvcVars
  <2>3. ASSUME NEW p \in Pod, Exit(p) \/ AskDelete(p) PROVE Seen'
    BY <2>3, Zenon DEF Exit, AskDelete
  <2>4. CASE DeleteNamespace \/ ValidateNamespaceDelete \/ Conclude \/ Install
    BY <2>1, <2>4, Zenon DEF DeleteNamespace, ValidateNamespaceDelete, Conclude, Install, pvcVars
  <2>5. CASE NamespaceGone
    BY <2>5, Zenon DEF NamespaceGone
  <2>6. CASE ValidatePVCDeleteRequest
    BY <2>6 DEF ValidatePVCDeleteRequest, Answer, ReadOn
  <2>7. CASE CloneMoves
    BY <2>7, Zenon DEF CloneMoves
  <2>8. CASE DeleteUnasked
    BY <2>8 DEF DeleteUnasked
  <2>9. CASE UNCHANGED vars
    BY <2>1, <2>9 DEF vars, pvcVars
  <2> QED
    BY <2>2, <2>3, <2>4, <2>5, <2>6, <2>7, <2>8, <2>9 DEF Next
<1>3. Seen => ClonedSourceKept
  BY DEF Seen
<1> QED
  BY <1>1, <1>2, <1>3, PTL DEF Spec

-----------------------------------------------------------------------------
(***************************************************************************)
(* The inductive invariant behind the trust in the servers.  A pod that    *)
(* has read or made the Secret holds its CA, and has the configuration of  *)
(* an earlier release behind it; a configuration carries the CA of the     *)
(* Secret and is gone once a pod has agreed to the namespace's removal.    *)
(***************************************************************************)
Certified == {"service", "newService", "config", "newConfig", "new", "serve"}
Serviced == {"config", "newConfig", "new", "serve"}
Upgraded == {"secret", "newSecret"} \cup Certified

(* What a pod at a step of its start knows. *)
PodInv(p) ==
    /\ pc[p] \in Certified => secret # None /\ cert[p] = secret.ca
    /\ pc[p] \in Serviced => service # None
    /\ pc[p] \in Upgraded => config = None \/ config.label = Current
    /\ pc[p] = "secretUp" => seen[p] \in Secrets
    /\ pc[p] = "serviceUp" => seen[p] \in Services
    /\ pc[p] = "configUp" => seen[p] \in Configs

(* A configuration without the rule for namespaces is older than 2.5.0. *)
ConfigInv ==
    config # None =>
        /\ ns \in {"yes", "asked"}
        /\ secret # None /\ config.ca = secret.ca
        /\ \/ config.nsRule
           \/ config.label # Current /\ IsCurrentLessThanNewVersion(config.label, <<2, 5, 0>>)

IInv == TypeOK /\ ConfigInv /\ \A p \in Pod : PodInv(p)

(* An object that exists is not the absence of one. *)
LEMMA Present ==
    /\ \A o \in Secrets \cup Services \cup Configs : o # None
    /\ \A ca, v : Certs(ca, v) # None
    /\ \A v : Labelled(v) # None
    /\ \A ca, v, r : Validator(ca, v, r) # None
<1> DEFINE Fields(o) == DOMAIN o
<1>1. Fields(None) = {"none"}
  BY DEF None
<1>2. \A o \in Secrets \cup Configs : "ca" \in Fields(o)
  BY DEF Secrets, Configs
<1>3. \A o \in Services : "label" \in Fields(o)
  BY DEF Services
<1>4. \A ca, v, r :
        "label" \in Fields(Certs(ca, v)) \cap Fields(Labelled(v)) \cap Fields(Validator(ca, v, r))
  BY DEF Certs, Labelled, Validator
<1> HIDE DEF Fields
<1> QED
  BY <1>1, <1>2, <1>3, <1>4

(* The objects of a state with more CAs include those of one with fewer. *)
LEMMA Grows ==
    ASSUME cas \in Nat, cas' \in Nat, cas <= cas'
    PROVE  AnyCA \subseteq AnyCA' /\ Secrets \subseteq Secrets' /\ Configs \subseteq Configs'
<1>1. AnyCA \subseteq AnyCA'
  BY DEF AnyCA
<1> QED
  BY <1>1 DEF Secrets, Configs

(* How a pod's step of the program keeps the types of what it holds. *)
LEMMA GoType ==
    ASSUME TypeOK, NEW p \in Pod, NEW to \in Step,
           NEW o \in {None} \cup Secrets \cup Services \cup Configs, Go(p, to, o)
    PROVE  /\ pc' \in [Pod -> Step]
           /\ seen' \in [Pod -> {None} \cup Secrets \cup Services \cup Configs]
BY DEF TypeOK, Go

(* The types of a new certificate. *)
LEMMA DieType ==
    ASSUME TypeOK, NEW p \in Pod, Die(p)
    PROVE  /\ pc' \in [Pod -> Step] /\ cert' \in [Pod -> {0} \cup AnyCA]
           /\ seen' \in [Pod -> {None} \cup Secrets \cup Services \cup Configs]
<1>1. "down" \in Step
  BY DEF Step
<1> QED
  BY <1>1, GoType DEF Die, TypeOK

(* The invariant keeps the types: a new configuration gets the CA its     *)
(* creator holds.                                                          *)
LEMMA TypeStep == IInv /\ [Next]_vars => TypeOK'
<1> SUFFICES ASSUME TypeOK, \A p \in Pod : PodInv(p), [Next]_vars PROVE TypeOK'
  BY DEF IInv
<1> USE AdmissionAssumption
<1>s. Step = {"down", "secrets", "secretUp", "services", "serviceUp", "configs", "configUp",
              "secret", "newSecret", "service", "newService", "config", "newConfig", "new", "serve"}
  BY DEF Step
<1>v. Current \in Version
  BY DEF Version
<1>1. ASSUME NEW p \in Pod, GetAdmissionReference(p) PROVE TypeOK'
  <2>1. "secrets" \in Step
    BY <1>s
  <2> QED
    BY <1>1, <2>1, GoType
    DEF GetAdmissionReference, TypeOK, objVars, pvcVars, Secrets, Services, Configs, AnyCA
<1>2. ASSUME NEW p \in Pod, ListOld(p) PROVE TypeOK'
  <2>1. \E to \in Step, o \in {None} \cup Secrets \cup Services \cup Configs : Go(p, to, o)
    <3> USE <1>2, <1>s DEF ListOld, Listed, TypeOK
    <3>1. CASE pc[p] = "secrets"
      BY <3>1
    <3>2. CASE pc[p] = "services"
      BY <3>2
    <3>3. CASE pc[p] = "configs"
      BY <3>3
    <3> QED
      BY <3>1, <3>2, <3>3
  <2> QED
    BY <1>2, <2>1, GoType DEF ListOld, TypeOK, objVars, pvcVars, Secrets, Services, Configs, AnyCA
<1>3. ASSUME NEW p \in Pod, UpdateOld(p) PROVE TypeOK'
  <2>1. secret' \in {None} \cup Secrets /\ service' \in {None} \cup Services
    BY <1>3, <1>v, Zenon DEF UpdateOld, TypeOK, Secrets, Services, None
  <2>2. \/ Die(p)
        \/ UNCHANGED cert /\ (Go(p, "services", None) \/ Go(p, "configs", None))
    BY <1>3 DEF UpdateOld
  <2>3. "services" \in Step /\ "configs" \in Step
    BY <1>s
  <2>4. /\ pc' \in [Pod -> Step] /\ cert' \in [Pod -> {0} \cup AnyCA]
        /\ seen' \in [Pod -> {None} \cup Secrets \cup Services \cup Configs]
    BY <2>2, <2>3, GoType, DieType DEF TypeOK
  <2> QED
    BY <1>3, <2>1, <2>4 DEF UpdateOld, TypeOK, pvcVars, Secrets, Services, Configs, AnyCA
<1>4. ASSUME NEW p \in Pod, UpgradeConfig(p) PROVE TypeOK'
  <2>1. config' \in {None} \cup Configs
    BY <1>4, <1>v, Zenon DEF UpgradeConfig, AddNSWithDeleteRule, TypeOK, Configs, None
  <2>2. Die(p) \/ (UNCHANGED cert /\ Go(p, "secret", None))
    BY <1>4 DEF UpgradeConfig
  <2>3. "secret" \in Step
    BY <1>s
  <2>4. /\ pc' \in [Pod -> Step] /\ cert' \in [Pod -> {0} \cup AnyCA]
        /\ seen' \in [Pod -> {None} \cup Secrets \cup Services \cup Configs]
    BY <2>2, <2>3, GoType, DieType DEF TypeOK
  <2> QED
    BY <1>4, <2>1, <2>4 DEF UpgradeConfig, TypeOK, pvcVars, Secrets, Services, Configs, AnyCA
<1>5. ASSUME NEW p \in Pod, GetSecret(p) \/ New(p) PROVE TypeOK'
  <2>1. \/ Die(p)
        \/ /\ Go(p, "service", None) \/ Go(p, "newSecret", None) \/ Go(p, "serve", None)
           /\ UNCHANGED cert \/ (secret # None /\ cert' = [cert EXCEPT ![p] = secret.ca])
    BY <1>5 DEF GetSecret, New
  <2>2. "service" \in Step /\ "newSecret" \in Step /\ "serve" \in Step
    BY <1>s
  <2>3. secret # None => secret.ca \in AnyCA
    BY DEF TypeOK, Secrets
  <2>4. /\ pc' \in [Pod -> Step] /\ cert' \in [Pod -> {0} \cup AnyCA]
        /\ seen' \in [Pod -> {None} \cup Secrets \cup Services \cup Configs]
    BY <2>1, <2>2, <2>3, GoType, DieType DEF TypeOK
  <2> QED
    BY <1>5, <2>4 DEF GetSecret, New, TypeOK, objVars, pvcVars, Secrets, Services, Configs, AnyCA
<1>6. ASSUME NEW p \in Pod, CreateCertsSecret(p) PROVE TypeOK'
  <2>1. CASE secret = None
    <3>1. cas' \in Nat /\ cas + 1 \in AnyCA' /\ cas <= cas'
      BY <1>6, <2>1 DEF CreateCertsSecret, TypeOK, AnyCA
    <3>2. AnyCA \subseteq AnyCA' /\ Secrets \subseteq Secrets' /\ Configs \subseteq Configs'
      BY <3>1, Grows DEF TypeOK
    <3>3. secret' \in Secrets'
      BY <1>6, <1>v, <2>1, <3>1 DEF CreateCertsSecret, Certs, Secrets, Version
    <3>4. /\ pc' \in [Pod -> Step] /\ cert' \in [Pod -> {0} \cup AnyCA']
          /\ seen' \in [Pod -> {None} \cup Secrets \cup Services \cup Configs]
      BY <1>6, <1>s, <2>1, <3>1, <3>2, GoType, Zenon DEF CreateCertsSecret, TypeOK
    <3> QED
      BY <1>6, <3>1, <3>2, <3>3, <3>4 DEF CreateCertsSecret, TypeOK, pvcVars, Services
  <2>2. CASE secret # None
    BY <1>6, <2>2, DieType
    DEF CreateCertsSecret, TypeOK, pvcVars, Secrets, Services, Configs, AnyCA
  <2> QED
    BY <2>1, <2>2
<1>7. ASSUME NEW p \in Pod, GetWebhookService(p) \/ GetValidatorWebhook(p) PROVE TypeOK'
  <2>1. \E to \in Step : Go(p, to, None)
    BY <1>7, <1>s DEF GetWebhookService, GetValidatorWebhook
  <2>2. UNCHANGED <<ns, secret, service, config, cert, cas, clone, pvc, call, judge, kept, faults, removals>>
    BY <1>7, Zenon DEF GetWebhookService, GetValidatorWebhook, objVars, pvcVars
  <2>3. pc' \in [Pod -> Step] /\ seen' \in [Pod -> {None} \cup Secrets \cup Services \cup Configs]
    BY <2>1, GoType, Zenon
  <2>4. AnyCA' = AnyCA
    BY <2>2, Zenon DEF AnyCA
  <2>5. Secrets' = Secrets /\ Services' = Services /\ Configs' = Configs
    BY <2>4, Zenon DEF Secrets, Services, Configs
  <2> QED
    BY <2>2, <2>3, <2>4, <2>5, ZenonT(60) DEF TypeOK
<1>8. ASSUME NEW p \in Pod, CreateWebhookService(p) PROVE TypeOK'
  <2>1. service' \in {None} \cup Services
    BY <1>8, <1>v DEF CreateWebhookService, Labelled, Services, TypeOK
  <2>2. Die(p) \/ (UNCHANGED cert /\ Go(p, "config", None))
    BY <1>8 DEF CreateWebhookService
  <2>3. "config" \in Step
    BY <1>s
  <2>4. /\ pc' \in [Pod -> Step] /\ cert' \in [Pod -> {0} \cup AnyCA]
        /\ seen' \in [Pod -> {None} \cup Secrets \cup Services \cup Configs]
    BY <2>2, <2>3, GoType, DieType DEF TypeOK
  <2> QED
    BY <1>8, <2>1, <2>4 DEF CreateWebhookService, TypeOK, pvcVars, Secrets, Services, Configs, AnyCA
<1>9. ASSUME NEW p \in Pod, CreateAdmissionValidatingConfig(p) PROVE TypeOK'
  <2>1. cert[p] \in AnyCA
    BY <1>9 DEF CreateAdmissionValidatingConfig, PodInv, Certified, TypeOK, Secrets
  <2>2. config' \in {None} \cup Configs
    <3>1. Validator(cert[p], Current, TRUE) \in Configs
      BY <1>v, <2>1, Zenon DEF Validator, Configs
    <3> QED
      BY <1>9, <3>1, Zenon DEF CreateAdmissionValidatingConfig, TypeOK
  <2>3. Die(p) \/ (UNCHANGED cert /\ Go(p, "new", None))
    BY <1>9, Zenon DEF CreateAdmissionValidatingConfig
  <2>4. "new" \in Step
    BY <1>s
  <2>5. /\ pc' \in [Pod -> Step] /\ cert' \in [Pod -> {0} \cup AnyCA]
        /\ seen' \in [Pod -> {None} \cup Secrets \cup Services \cup Configs]
    BY <2>3, <2>4, GoType, DieType DEF TypeOK
  <2>6. ns' \in {ns, "yes"}
    BY <1>9, Zenon DEF CreateAdmissionValidatingConfig
  <2> QED
    BY <1>9, <2>2, <2>5, <2>6
    DEF CreateAdmissionValidatingConfig, TypeOK, pvcVars, Secrets, Services, Configs, AnyCA
<1>10. ASSUME NEW p \in Pod, Exit(p) PROVE TypeOK'
  <2>1. kept' \in BOOLEAN
    BY <1>10, Zenon DEF Exit, TypeOK
  <2> QED
    BY <1>10, <2>1, DieType DEF Exit, TypeOK, objVars, Secrets, Services, Configs, AnyCA
<1>11. ASSUME NEW p \in Pod, AskDelete(p) PROVE TypeOK'
  BY <1>11 DEF AskDelete, TypeOK, objVars, podVars, Secrets, Services, Configs, AnyCA
<1>12. CASE DeleteNamespace \/ ValidateNamespaceDelete \/ Conclude
  <2>1. /\ ns' \in {"yes", "asked", "agreed", "dropped", "closing"}
        /\ config' \in {config, None}
        /\ faults' = faults \/ (faults < MaxFaults /\ faults' = faults + 1)
        /\ removals' = removals \/ (removals < MaxRemovals /\ removals' = removals + 1)
        /\ UNCHANGED <<secret, service, pc, seen, cert, cas, clone, pvc, call, judge, kept>>
    BY <1>12, Zenon
    DEF DeleteNamespace, ValidateNamespaceDelete, Conclude, objVars, podVars, pvcVars
  <2> QED
    BY <2>1 DEF TypeOK, Secrets, Services, Configs, AnyCA
<1>13. CASE NamespaceGone
  <2>1. kept' \in BOOLEAN
    BY <1>13, Zenon DEF NamespaceGone, TypeOK
  <2> QED
    BY <1>13, <1>s, <2>1 DEF NamespaceGone, TypeOK, Secrets, Services, Configs, AnyCA
<1>14. CASE Install \/ DeleteUnasked
  BY <1>14
  DEF Install, DeleteUnasked, TypeOK, objVars, podVars, pvcVars, Secrets, Services, Configs, AnyCA
<1>15. CASE ValidatePVCDeleteRequest
  <2>1. kept' \in BOOLEAN
    BY <1>15, Zenon DEF ValidatePVCDeleteRequest, Answer, ReadOn, TypeOK
  <2>2. pvc' \in {"there", "judged", "unasked"} /\ call' \in {"none", "pvc", "volumes", "claims"}
    BY <1>15 DEF ValidatePVCDeleteRequest, Answer, ReadOn, TypeOK
  <2>3. faults' = faults \/ (faults < MaxFaults /\ faults' = faults + 1)
    BY <1>15, Zenon DEF ValidatePVCDeleteRequest
  <2> QED
    BY <1>15, <2>1, <2>2, <2>3
    DEF ValidatePVCDeleteRequest, TypeOK, objVars, podVars, Secrets, Services, Configs, AnyCA
<1>16. CASE CloneMoves
  <2>1. kept' \in BOOLEAN
    BY <1>16, Zenon DEF CloneMoves
  <2> QED
    BY <1>16, <2>1 DEF CloneMoves, TypeOK, objVars, podVars, Secrets, Services, Configs, AnyCA
<1>17. CASE UNCHANGED vars
  BY <1>17 DEF vars, TypeOK, objVars, podVars, pvcVars, Secrets, Services, Configs, AnyCA
<1> QED
  BY <1>1, <1>2, <1>3, <1>4, <1>5, <1>6, <1>7, <1>8, <1>9, <1>10, <1>11, <1>12, <1>13, <1>14,
     <1>15, <1>16, <1>17
  DEF Next, Starting

(* A step that leaves the objects and the pods alone keeps the invariant. *)
LEMMA Frame ==
    ASSUME IInv, UNCHANGED <<ns, secret, service, config, pc, seen, cert, cas>>
    PROVE  ConfigInv' /\ \A q \in Pod : PodInv(q)'
BY Zenon DEF IInv, ConfigInv, PodInv, Secrets, Services, Configs, AnyCA

(* The steps of a starting pod keep the invariant. *)
LEMMA StartingInv ==
    ASSUME IInv, NEW p \in Pod, Starting(p), Runs, Calm
    PROVE  ConfigInv' /\ \A q \in Pod : PodInv(q)'
<1> USE DEF Go, Die
<1>t. TypeOK /\ ConfigInv /\ \A q \in Pod : PodInv(q)
  BY DEF IInv
<1>r. ns \in {"yes", "dropped"}
  BY DEF Runs
<1>c. /\ pc \in [Pod -> Step] /\ cert \in [Pod -> {0} \cup AnyCA]
      /\ seen \in [Pod -> {None} \cup Secrets \cup Services \cup Configs]
      /\ secret \in {None} \cup Secrets /\ service \in {None} \cup Services
      /\ config \in {None} \cup Configs
  BY <1>t DEF TypeOK
<1>o. ASSUME UNCHANGED cas PROVE Secrets' = Secrets /\ Services' = Services /\ Configs' = Configs
  BY <1>o DEF Secrets, Services, Configs, AnyCA
<1>1. CASE GetAdmissionReference(p) \/ GetWebhookService(p) \/ GetValidatorWebhook(p)
  <2> USE <1>1 DEF GetAdmissionReference, GetWebhookService, GetValidatorWebhook, objVars
  <2>1. ConfigInv'
    BY <1>t DEF ConfigInv
  <2>2. ASSUME NEW q \in Pod PROVE PodInv(q)'
    <3>1. PodInv(p) /\ PodInv(q)
      BY <1>t
    <3> QED
      BY <1>c, <1>o, <3>1 DEF PodInv, Certified, Serviced, Upgraded
  <2> QED
    BY <2>1, <2>2
<1>2. CASE ListOld(p)
  <2>1. ConfigInv'
    BY <1>t, <1>2 DEF ConfigInv, ListOld, objVars
  <2>2. ASSUME NEW q \in Pod PROVE PodInv(q)'
    <3>1. PodInv(q)
      BY <1>t
    <3>2. UNCHANGED <<secret, service, config, cert, cas>>
      BY <1>2 DEF ListOld, objVars
    <3> USE <1>c, <1>o, <3>1, <3>2 DEF PodInv, Certified, Serviced, Upgraded, Listed
    <3>3. CASE pc[p] = "secrets" /\ Listed(p, secret, "secretUp", "services")
      BY <3>3
    <3>4. CASE pc[p] = "services" /\ Listed(p, service, "serviceUp", "configs")
      BY <3>4
    <3>5. CASE pc[p] = "configs" /\ Listed(p, config, "configUp", "secret")
      BY <3>5
    <3> QED
      BY <1>2, <3>3, <3>4, <3>5, Zenon DEF ListOld
  <2> QED
    BY <2>1, <2>2
<1>3. CASE UpdateOld(p)
  <2>s. pc[p] = "secretUp" => seen[p] \in Secrets
    BY <1>t DEF PodInv
  <2>f. /\ secret' # None <=> secret # None
        /\ secret # None => secret'.ca = secret.ca
        /\ service' # None <=> service # None
    <3>1. \A o \in Secrets : [o EXCEPT !.label = Current].ca = o.ca
      BY DEF Secrets
    <3>2. \A o \in Secrets : [o EXCEPT !.label = Current] \in Secrets
      BY DEF Secrets, Version
    <3>3. \A o \in Services : [o EXCEPT !.label = Current] \in Services
      BY DEF Services, Version
    <3>4. pc[p] = "serviceUp" => seen[p] \in Services
      BY <1>t DEF PodInv
    <3> QED
      BY <1>3, <2>s, <3>1, <3>2, <3>3, <3>4, Present, Zenon DEF UpdateOld
  <2>1. ConfigInv'
    BY <1>t, <1>3, <2>f DEF ConfigInv, UpdateOld
  <2>2. ASSUME NEW q \in Pod PROVE PodInv(q)'
    <3>1. PodInv(q)
      BY <1>t
    <3>2. pc[p] \in {"secretUp", "serviceUp"} /\ UNCHANGED <<config, cas>>
      BY <1>3 DEF UpdateOld
    <3>3. \/ Die(p)
          \/ UNCHANGED cert /\ (Go(p, "services", None) \/ Go(p, "configs", None))
      BY <1>3 DEF UpdateOld
    <3> QED
      BY <1>c, <1>o, <2>f, <3>1, <3>2, <3>3 DEF PodInv, Certified, Serviced, Upgraded
  <2> QED
    BY <2>1, <2>2
<1>4. CASE UpgradeConfig(p)
  <2>s. seen[p] \in Configs
    BY <1>t, <1>4 DEF PodInv, UpgradeConfig
  <2>f. \/ config' = config /\ Die(p)
        \/ /\ Go(p, "secret", None) /\ UNCHANGED cert
           /\ config' # None =>
                 /\ config # None /\ config'.ca = config.ca /\ config'.label = Current
                 /\ config'.nsRule = (config.nsRule \/ IsCurrentLessThanNewVersion(config.label, <<2, 5, 0>>))
    BY <1>4, <2>s, Present, Zenon DEF UpgradeConfig, AddNSWithDeleteRule, Configs
  <2>1. ConfigInv'
    BY <1>t, <1>4, <2>f, Zenon DEF ConfigInv, UpgradeConfig
  <2>2. ASSUME NEW q \in Pod PROVE PodInv(q)'
    <3>1. PodInv(q)
      BY <1>t
    <3>2. pc[p] = "configUp" /\ UNCHANGED <<secret, service, cas>>
      BY <1>4 DEF UpgradeConfig
    <3> QED
      BY <1>c, <1>o, <2>f, <3>1, <3>2 DEF PodInv, Certified, Serviced, Upgraded
  <2> QED
    BY <2>1, <2>2
<1>5. CASE GetSecret(p) \/ New(p)
  <2>1. ConfigInv'
    BY <1>t, <1>5 DEF ConfigInv, GetSecret, New, objVars
  <2>2. ASSUME NEW q \in Pod PROVE PodInv(q)'
    <3>1. PodInv(p) /\ PodInv(q)
      BY <1>t
    <3> QED
      BY <1>c, <1>o, <1>5, <3>1 DEF PodInv, Certified, Serviced, Upgraded, GetSecret, New, objVars
  <2> QED
    BY <2>1, <2>2
<1>6. CASE CreateCertsSecret(p) /\ secret = None
  <2>f. secret' # None /\ secret'.ca = cas + 1
    BY <1>6, Present DEF CreateCertsSecret, Certs
  <2>1. ConfigInv'
    BY <1>t, <1>6 DEF ConfigInv, CreateCertsSecret
  <2>2. ASSUME NEW q \in Pod PROVE PodInv(q)'
    <3>1. PodInv(p) /\ PodInv(q)
      BY <1>t
    <3>2. Secrets \subseteq Secrets' /\ Services' = Services /\ Configs \subseteq Configs'
      BY <1>t, <1>6, Grows DEF CreateCertsSecret, TypeOK, Services
    <3> QED
      BY <1>c, <1>6, <2>f, <3>1, <3>2 DEF PodInv, Certified, Serviced, Upgraded, CreateCertsSecret
  <2> QED
    BY <2>1, <2>2
<1>7. CASE CreateCertsSecret(p) /\ secret # None
  <2>1. ConfigInv'
    BY <1>t, <1>7 DEF ConfigInv, CreateCertsSecret
  <2>2. ASSUME NEW q \in Pod PROVE PodInv(q)'
    <3>1. PodInv(q)
      BY <1>t
    <3> QED
      BY <1>c, <1>o, <1>7, <3>1 DEF PodInv, Certified, Serviced, Upgraded, CreateCertsSecret
  <2> QED
    BY <2>1, <2>2
<1>8. CASE CreateWebhookService(p)
  <2>f. service' # None \/ (Die(p) /\ UNCHANGED service)
    BY <1>8, Present DEF CreateWebhookService
  <2>1. ConfigInv'
    BY <1>t, <1>8 DEF ConfigInv, CreateWebhookService
  <2>2. ASSUME NEW q \in Pod PROVE PodInv(q)'
    <3>1. PodInv(p) /\ PodInv(q)
      BY <1>t
    <3> QED
      BY <1>c, <1>o, <1>8, <2>f, <3>1 DEF PodInv, Certified, Serviced, Upgraded, CreateWebhookService
  <2> QED
    BY <2>1, <2>2
<1>9. CASE CreateAdmissionValidatingConfig(p)
  <2>1. PodInv(p)
    BY <1>t
  <2>f. \/ Die(p) /\ UNCHANGED <<ns, config>>
        \/ /\ config' # None /\ config'.ca = cert[p] /\ config'.label = Current /\ config'.nsRule
           /\ Go(p, "new", None) /\ UNCHANGED cert
           /\ ns' = IF ns = "dropped" THEN "yes" ELSE ns
    BY <1>9, Present DEF CreateAdmissionValidatingConfig, Validator
  <2>2. ConfigInv'
    <3>1. UNCHANGED secret /\ pc[p] = "newConfig"
      BY <1>9, Zenon DEF CreateAdmissionValidatingConfig
    <3>2. secret # None /\ cert[p] = secret.ca
      BY <2>1, <3>1, Zenon DEF PodInv, Certified
    <3> QED
      BY <1>r, <1>t, <2>f, <3>1, <3>2, Zenon DEF ConfigInv
  <2>3. ASSUME NEW q \in Pod PROVE PodInv(q)'
    <3>1. PodInv(q)
      BY <1>t
    <3> QED
      BY <1>c, <1>o, <1>9, <2>1, <2>f, <3>1, Zenon
      DEF PodInv, Certified, Serviced, Upgraded, CreateAdmissionValidatingConfig
  <2> QED
    BY <2>2, <2>3
<1> QED
  BY <1>1, <1>2, <1>3, <1>4, <1>5, <1>6, <1>7, <1>8, <1>9 DEF Starting

(* The invariant is inductive, the namespace being removed with care. *)
LEMMA InvStep == ASSUME Calm PROVE IInv /\ [Next]_vars => IInv'
<1> SUFFICES ASSUME IInv, [Next]_vars PROVE ConfigInv' /\ \A q \in Pod : PodInv(q)'
  BY TypeStep DEF IInv
<1>t. TypeOK /\ ConfigInv /\ \A q \in Pod : PodInv(q)
  BY DEF IInv
<1>1. ASSUME NEW p \in Pod, Starting(p) PROVE ConfigInv' /\ \A q \in Pod : PodInv(q)'
  <2>1. Runs
    BY <1>1, Zenon
    DEF Starting, GetAdmissionReference, ListOld, UpdateOld, UpgradeConfig, GetSecret,
        CreateCertsSecret, GetWebhookService, CreateWebhookService, GetValidatorWebhook,
        CreateAdmissionValidatingConfig, New
  <2> QED
    BY <1>1, <2>1, StartingInv
<1>2. ASSUME NEW p \in Pod, Exit(p) PROVE ConfigInv' /\ \A q \in Pod : PodInv(q)'
  <2>1. ConfigInv'
    BY <1>t, <1>2 DEF ConfigInv, Exit, objVars
  <2>2. ASSUME NEW q \in Pod PROVE PodInv(q)'
    <3>1. PodInv(q)
      BY <1>t
    <3>2. Secrets' = Secrets /\ Services' = Services /\ Configs' = Configs
      BY <1>2 DEF Exit, Secrets, Services, Configs, AnyCA
    <3> QED
      BY <1>t, <1>2, <3>1, <3>2
      DEF PodInv, Certified, Serviced, Upgraded, Exit, Die, Go, objVars, TypeOK
  <2> QED
    BY <2>1, <2>2
<1>3. CASE DeleteNamespace \/ ValidateNamespaceDelete \/ Conclude
  <2>1. ConfigInv'
    <3>1. CASE DeleteNamespace
      <4>1. config # None => NamespaceAsked
        <5> SUFFICES ASSUME config # None PROVE NamespaceAsked
          OBVIOUS
        <5>1. PICK p \in Pod : pc[p] = "serve"
          BY <3>1, AdmissionAssumption DEF DeleteNamespace
        <5>2. PodInv(p)
          BY <1>t
        <5> QED
          BY <1>t, <5>1, <5>2
          DEF PodInv, Certified, Serviced, Upgraded, ConfigInv, NamespaceAsked, Unreached, Reached
      <4> QED
        BY <1>t, <3>1, <4>1 DEF DeleteNamespace, ConfigInv, objVars
    <3>2. CASE ValidateNamespaceDelete
      BY <1>t, <3>2, Zenon DEF ValidateNamespaceDelete, ConfigInv
    <3>3. CASE Conclude
      BY <1>t, <3>3 DEF Conclude, ConfigInv, objVars
    <3> QED
      BY <1>3, <3>1, <3>2, <3>3
  <2>2. UNCHANGED <<secret, service, pc, seen, cert, cas>> /\ config' \in {config, None}
    BY <1>3, Zenon DEF DeleteNamespace, ValidateNamespaceDelete, Conclude, objVars, podVars
  <2>3. Secrets' = Secrets /\ Services' = Services /\ Configs' = Configs
    BY <2>2 DEF Secrets, Services, Configs, AnyCA
  <2> QED
    BY <1>t, <2>1, <2>2, <2>3 DEF PodInv
<1>4. CASE NamespaceGone
  BY <1>t, <1>4, Zenon DEF NamespaceGone, ConfigInv, PodInv, Certified, Serviced, Upgraded
<1>5. CASE Install
  <2>1. UNCHANGED <<secret, service, config, pc, seen, cert, cas>>
    BY <1>5 DEF Install, objVars, podVars
  <2>2. Secrets' = Secrets /\ Services' = Services /\ Configs' = Configs
    BY <2>1 DEF Secrets, Services, Configs, AnyCA
  <2> QED
    BY <1>t, <1>5, <2>1, <2>2, Zenon DEF Install, ConfigInv, PodInv
<1>6. ASSUME NEW p \in Pod, AskDelete(p) PROVE ConfigInv' /\ \A q \in Pod : PodInv(q)'
  BY <1>6, Frame DEF AskDelete, objVars, podVars
<1>7. CASE DeleteUnasked \/ ValidatePVCDeleteRequest \/ CloneMoves
  BY <1>7, Frame, Zenon DEF DeleteUnasked, ValidatePVCDeleteRequest, CloneMoves, objVars, podVars
<1>8. CASE UNCHANGED vars
  BY <1>8, Frame DEF vars, objVars, podVars
<1> QED
  BY <1>1, <1>2, <1>3, <1>4, <1>5, <1>6, <1>7, <1>8 DEF Next

(* The objects an earlier release left behind satisfy the invariant. *)
LEMMA InvInit == Init => IInv
<1> SUFFICES ASSUME Init PROVE IInv
  OBVIOUS
<1>j. judge \in Pod
  BY AdmissionAssumption DEF Init
<1>k. kept \in BOOLEAN
  BY Zenon DEF Init
<1>p. pc = [p \in Pod |-> "down"] /\ seen = [p \in Pod |-> None] /\ cert = [p \in Pod |-> 0]
  BY DEF Init
<1>1. CASE secret = None /\ service = None /\ config = None /\ cas = 0
  <2>1. TypeOK
    BY <1>1, <1>j, <1>k, <1>p, AdmissionAssumption DEF Init, TypeOK, Step
  <2> QED
    BY <1>1, <1>p, <2>1 DEF IInv, ConfigInv, PodInv, Certified, Serviced, Upgraded
<1>2. ASSUME NEW v \in Earlier,
             secret = Certs(1, v), service = Labelled(v), cas = 1,
             config = Validator(1, v, ~IsCurrentLessThanNewVersion(v, <<2, 5, 0>>))
      PROVE  IInv
  <2>1. secret \in Secrets /\ service \in Services
    BY <1>2 DEF Secrets, Services, Certs, Labelled, AnyCA, Version
  <2>2. config \in Configs
    <3>1. 1 \in AnyCA /\ v \in Version
      BY <1>2 DEF AnyCA, Version
    <3>2. (~IsCurrentLessThanNewVersion(v, <<2, 5, 0>>)) \in BOOLEAN
      BY Zenon DEF IsCurrentLessThanNewVersion
    <3> HIDE DEF IsCurrentLessThanNewVersion
    <3> QED
      BY <1>2, <3>1, <3>2, Zenon DEF Configs, Validator
  <2>3. TypeOK
    BY <1>2, <1>j, <1>k, <1>p, <2>1, <2>2, AdmissionAssumption DEF Init, TypeOK, Step
  <2>4. ConfigInv
    BY <1>2, Present, AdmissionAssumption, Zenon DEF Init, ConfigInv, Certs, Validator
  <2> QED
    BY <1>p, <2>3, <2>4, Zenon DEF IInv, PodInv, Certified, Serviced, Upgraded
<1> QED
  BY <1>1, <1>2 DEF Init

(* The invariant holds of every pod, object and removal of an instance     *)
(* whose namespace is removed while the pods listen.                       *)
THEOREM Invariant == ASSUME Calm PROVE Spec => []IInv
BY InvInit, InvStep, PTL DEF Spec

(* createCertsSecret and createAdmissionValidatingConfig: whoever wins the *)
(* races, a pod that listens holds a certificate of the registered CA.     *)
THEOREM Trusted == ASSUME Calm PROVE Spec => []ServersAreTrusted
<1>1. IInv => ServersAreTrusted
  BY Zenon DEF IInv, ConfigInv, PodInv, Certified, ServersAreTrusted
<1> QED
  BY <1>1, Invariant, PTL

(* validateNamespaceDeleteRequest: a listening pod is asked, and deletes   *)
(* the configuration before the namespace goes.                            *)
THEOREM RemovedClean == ASSUME Calm PROVE Spec => []RemovedLeavesNoConfig
<1>1. IInv => RemovedLeavesNoConfig
  BY DEF IInv, ConfigInv, RemovedLeavesNoConfig
<1> QED
  BY <1>1, Invariant, PTL
=============================================================================

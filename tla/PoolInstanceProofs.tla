-------------------------- MODULE PoolInstanceProofs -------------------------
(***************************************************************************)
(* Theorems about PoolInstance, for any devices and raid groups and any    *)
(* number of edits and faults: the shape of the state, and what a pool     *)
(* that was reported is destroyed for.  PoolReplacementProofs builds on    *)
(* the steps proved here.                                                  *)
(***************************************************************************)
EXTENDS PoolInstance, TLAPS

Cleaning == {"resilver", "unfinalize", "unclaim", "unmark"}

(* The raid groups the worker goes by. *)
Held == IF at = "idle" THEN {} ELSE w.groups

(***************************************************************************)
(* Why a reported pool is kept: until the pool is there nobody but the     *)
(* worker gives the CSPI a phase, and what it read is still true.          *)
(***************************************************************************)
Starting ==
  {"finalize", "import", "importable", "zimport", "create", "zcreate", "zadd", "undo", "lost"}

PhaseInv ==
  /\ at \in Starting => w.phase = cspi.phase /\ w.life = "live"
  /\ at \in {"create", "zcreate", "zadd", "undo"} => w.phase = ""
  /\ at = "delete" => cspi.life = "deleting"

(* The worker and the devices it goes through. *)
LoopInv ==
  /\ at \notin {"device"} \cup Cleaning => todo = {}
  /\ at \in Cleaning => cur \in Devices(w.groups) \ todo /\ listed[cur].mark # NoBD
  /\ todo \subseteq Devices(Held)
  /\ fresh => w.groups = cspi.groups /\ at # "idle"

-----------------------------------------------------------------------------
(* A write of the CSPI, or of the worker's copy, that leaves these alone. *)
Keeps(r, q) ==
  q \in CSPIs /\ q.life = r.life /\ q.fin = r.fin /\ q.phase = r.phase /\ q.groups = r.groups

LEMMA CopyKeeps ==
  ASSUME NEW r \in CSPIs
  PROVE  /\ Keeps(r, [r EXCEPT !.lost = TRUE]) /\ Keeps(r, [r EXCEPT !.comp = 1])
         /\ \A b \in BOOLEAN : Keeps(r, [r EXCEPT !.rename = b])
         /\ \A d \in BD : Keeps(r, [r EXCEPT !.linked = @ \cup {d}])
         /\ \A x \in {"True", "False"} : Keeps(r, [r EXCEPT !.replaced = x])
         /\ \A x \in {"True", "False"} : Keeps(r, [r EXCEPT !.expanded = x])
BY Zenon DEF CSPIs, Keeps

(* The writes that do not. *)
LEMMA CopyType ==
  ASSUME NEW r \in CSPIs
  PROVE  /\ \A b \in BOOLEAN : LET q == [r EXCEPT !.fin = b]
                               IN q \in CSPIs /\ q.life = r.life /\ q.phase = r.phase /\ q.groups = r.groups
         /\ \A b \in BOOLEAN : LET q == [r EXCEPT !.phase = "ONLINE", !.ro = b]
                               IN q \in CSPIs /\ q.life = r.life /\ q.fin = r.fin /\ q.groups = r.groups
         /\ \A x \in {"Offline", "DeletionFailed"} :
              LET q == [r EXCEPT !.phase = x]
              IN q \in CSPIs /\ q.life = r.life /\ q.fin = r.fin /\ q.groups = r.groups /\ q.phase = x
         /\ \A x \in {"deleting", "gone"} :
              LET q == [r EXCEPT !.life = x]
              IN q \in CSPIs /\ q.life = x /\ q.fin = r.fin /\ q.phase = r.phase /\ q.groups = r.groups
         /\ \A gs \in SUBSET SUBSET BD :
              LET q == [r EXCEPT !.groups = gs]
              IN q \in CSPIs /\ q.life = r.life /\ q.fin = r.fin /\ q.phase = r.phase /\ q.groups = gs
         /\ \A gs \in SUBSET SUBSET BD, old \in BD :
              LET q == [r EXCEPT !.groups = gs, !.linked = @ \ {old}]
              IN q \in CSPIs /\ q.life = r.life /\ q.fin = r.fin /\ q.phase = r.phase /\ q.groups = gs
BY ZenonT(60) DEF CSPIs

(* What the API server stores. *)
LEMMA StoredType ==
  ASSUME NEW r \in CSPIs
  PROVE  /\ Stored(r) \in CSPIs /\ Stored(r).groups = r.groups /\ Stored(r).phase = r.phase
         /\ Stored(r).life = "deleting" => Stored(r).fin
         /\ r.life = "deleting" /\ r.fin => Stored(r).life = "deleting"
BY CopyType, Zenon DEF Stored

LEMMA NewType == ASSUME NEW old \in BOOLEAN
                 PROVE  NewCSPI(old) \in CSPIs /\ NewCSPI(old).life = "live" /\ NewCSPI(old).groups = InitialGroups
                        /\ NewCSPI(old).phase = ""
BY PoolAssumption DEF NewCSPI, CSPIs

(* TypeOK, in parts. *)
PassOK ==
  /\ at \in Places /\ w \in CSPIs
  /\ fresh \in BOOLEAN /\ made \in BOOLEAN /\ err \in BOOLEAN
  /\ cached \subseteq {0, 1}

LoopOK ==
  /\ listed \in [BD -> Claims]
  /\ todo \subseteq BD /\ replacing \subseteq BD /\ cur \in BD \cup {NoBD}
  /\ cur # NoBD <=> at \in Cleaning
  /\ triggered \in BOOLEAN /\ changed \in BOOLEAN

ZpoolOK ==
  /\ poolName \in {"none", "old", "new"} /\ imported \in BOOLEAN
  /\ members \subseteq BD /\ swap \subseteq BD \X BD
  /\ scan \in [BD -> {"none", "started", "running", "done"}]
  /\ poolRO \in BOOLEAN /\ comp \in {0, 1}

CountOK == edits \in Nat /\ faults \in Nat /\ edits + faults <= MaxEvents

CSPIOK == cspi \in CSPIs /\ (cspi.life = "deleting" => cspi.fin)

UserOK == spec \subseteq SUBSET BD /\ bdc \in [BD -> Claims] /\ full \in BOOLEAN

LEMMA TypeParts ==
  /\ TypeOK <=> PassOK /\ LoopOK /\ ZpoolOK /\ CountOK /\ CSPIOK /\ UserOK
  /\ TypeOK' <=> PassOK' /\ LoopOK' /\ ZpoolOK' /\ CountOK' /\ CSPIOK' /\ UserOK'
BY Zenon DEF TypeOK, PassOK, LoopOK, ZpoolOK, CountOK, CSPIOK, UserOK, Cleaning

(* What is left alone keeps its shape. *)
LEMMA Alone ==
  ASSUME TypeOK
  PROVE  /\ UNCHANGED loop /\ at \notin Cleaning /\ at' \notin Cleaning => LoopOK'
         /\ UNCHANGED zpool => ZpoolOK'
         /\ UNCHANGED cspi => CSPIOK'
         /\ UNCHANGED <<spec, bdc, full>> => UserOK'
<1>1. UNCHANGED loop /\ at \notin Cleaning /\ at' \notin Cleaning => LoopOK'
  BY TypeParts DEF LoopOK, loop
<1>2. UNCHANGED zpool => ZpoolOK'
  BY TypeParts DEF ZpoolOK, zpool
<1>3. UNCHANGED cspi => CSPIOK'
  BY TypeParts DEF CSPIOK
<1>4. UNCHANGED <<spec, bdc, full>> => UserOK'
  BY TypeParts DEF UserOK
<1> QED
  BY <1>1, <1>2, <1>3, <1>4

LEMMA FaultType ==
  ASSUME TypeOK, UNCHANGED edits, NEW k, NoFault \/ Fault(k)
  PROVE  CountOK'
BY TypeParts, PoolAssumption DEF CountOK, NoFault, Fault

(* The worker moves on. *)
LEMMA GotoType ==
  ASSUME TypeOK, NEW place \in Places, NEW copy \in CSPIs, NEW failed \in BOOLEAN, Goto(place, copy, failed)
  PROVE  /\ PassOK' /\ at' = place /\ (place # "idle" => w' = copy)
         /\ fresh' => fresh /\ place # "idle"
<1>1. (place # "idle" /\ failed) \in BOOLEAN /\ (place # "idle" /\ fresh) \in BOOLEAN
      /\ (place # "idle" /\ made) \in BOOLEAN
  BY Zenon
<1>2. err' \in BOOLEAN /\ fresh' \in BOOLEAN /\ made' \in BOOLEAN
  BY <1>1, Zenon DEF Goto
<1>3. fresh' => fresh /\ place # "idle"
  BY Zenon DEF Goto
<1>4. NoCopy \in CSPIs
  BY NewType, Zenon DEF NoCopy
<1> QED
  BY <1>2, <1>3, <1>4 DEF Goto, PassOK, TypeOK

(* The worker writes the CSPI, or fails to. *)
LEMMA UpdateType ==
  ASSUME TypeOK, NEW obj \in CSPIs, NEW kept \in CSPIs, NEW ok \in Places, NEW bad \in Places,
         NEW failed \in BOOLEAN, UpdateCSPI(obj, ok, bad, kept, failed), UNCHANGED edits
  PROVE  /\ PassOK' /\ CSPIOK' /\ CountOK' /\ (fresh' => fresh /\ at' # "idle")
         /\ \/ /\ fresh /\ cspi'.groups = obj.groups /\ cspi'.phase = obj.phase
               /\ at' = ok /\ (ok # "idle" => w' = obj)
            \/ cspi' = cspi /\ at' = bad /\ (bad # "idle" => w' = kept)
<1>1. CASE fresh /\ cspi' = Stored(obj) /\ NoFault /\ Goto(ok, obj, err)
  <2>1. err \in BOOLEAN
    BY DEF TypeOK
  <2> QED
    BY <1>1, <2>1, FaultType, GotoType, StoredType DEF CSPIOK
<1>2. CASE (NoFault \/ Fault("call")) /\ UNCHANGED cspi /\ Goto(bad, kept, failed)
  BY <1>2, FaultType, GotoType, Alone
<1> QED
  BY <1>1, <1>2 DEF UpdateCSPI

-----------------------------------------------------------------------------
(* The shape of the state, and the phase, step by step.  Most steps leave the raid groups and *)
(* the replacements alone: the worker goes on with its copy of the raid groups, takes a fresh *)
(* one or drops it, outside of the devices' loop.                                             *)
Quiet ==
  /\ UNCHANGED <<spec, bdc, members, swap, scan>>
  /\ cspi'.groups = cspi.groups
  /\ Held' \in {{}, Held, cspi.groups}
  /\ fresh' => w'.groups = cspi.groups /\ at' # "idle"
  /\ \/ at' \notin {"device"} \cup Cleaning /\ todo' = {}
     \/ UNCHANGED <<at, w, listed, todo, cur>>

LEMMA TypeStart ==
  ASSUME TypeOK, PhaseInv, LoopInv,
         \/ Reconcile \/ AddPoolProtectionFinalizer \/ Import \/ CheckImportable \/ ZpoolImport
         \/ Create \/ MarkLost
  PROVE  TypeOK' /\ PhaseInv' /\ Quiet
<1>w. w \in CSPIs /\ cspi \in CSPIs /\ TRUE \in BOOLEAN /\ FALSE \in BOOLEAN
  BY DEF TypeOK
<1>1. CASE Reconcile
  <2>1. at' \in {"delete", "finalize", "import"} /\ (at' = "delete" => cspi.life = "deleting")
        /\ (at' # "delete" => cspi.life = "live")
    BY <1>1 DEF Reconcile
  <2>2. TypeOK' /\ PhaseInv'
    BY <1>1, <2>1 DEF Reconcile, TypeOK, PhaseInv, Starting, Places, users, zpool, loop
  <2>3. Quiet
    BY <1>1, <2>1 DEF Reconcile, Quiet, LoopInv, Held, Cleaning, users, zpool, loop
  <2> QED
    BY <2>2, <2>3
<1>2. CASE AddPoolProtectionFinalizer
  <2> DEFINE obj == [w EXCEPT !.fin = TRUE]
  <2>1. obj \in CSPIs /\ obj.life = w.life /\ obj.phase = w.phase /\ obj.groups = w.groups
    BY <1>w, CopyType, Zenon
  <2>2. UpdateCSPI(obj, "import", "idle", w, FALSE) /\ UNCHANGED <<users, bdc, zpool, full, loop>> /\ at = "finalize"
    BY <1>2, Zenon DEF AddPoolProtectionFinalizer
  <2> HIDE DEF obj
  <2>3. UNCHANGED edits /\ UNCHANGED <<spec, bdc, full>>
    BY <2>2 DEF users
  <2>4. /\ PassOK' /\ CSPIOK' /\ CountOK' /\ (fresh' => fresh /\ at' # "idle")
        /\ \/ fresh /\ cspi'.phase = obj.phase /\ cspi'.groups = obj.groups /\ at' = "import" /\ w' = obj
           \/ at' = "idle" /\ cspi' = cspi
    <3>1. "import" \in Places /\ "idle" \in Places
      BY DEF Places
    <3> QED
      BY <1>w, <2>1, <2>2, <2>3, <3>1, UpdateType, Zenon
  <2>5. TypeOK'
    BY <2>2, <2>3, <2>4, Alone, TypeParts DEF Cleaning
  <2>6. PhaseInv'
    BY <2>1, <2>2, <2>4, <2>5, Zenon DEF PhaseInv, Starting
  <2>7. Quiet
    BY <2>1, <2>2, <2>3, <2>4 DEF Quiet, LoopInv, Held, Cleaning, zpool, loop
  <2> QED
    BY <2>5, <2>6, <2>7
<1>3. CASE Import
  <2>1. PICK found \in BOOLEAN :
          /\ CheckIfPoolPresent(found)
          /\ CASE found -> Goto("list", [w EXCEPT !.rename = FALSE], FALSE)
               [] ~found /\ w.rename -> Goto("importable", w, FALSE)
               [] OTHER -> Goto("zimport", w, FALSE)
    BY <1>3, Zenon DEF Import
  <2> DEFINE copy == [w EXCEPT !.rename = FALSE]
  <2>c. copy \in CSPIs /\ copy.groups = w.groups
    BY <1>w, CopyKeeps, Zenon DEF Keeps
  <2>g. \/ Goto("list", copy, FALSE) \/ Goto("importable", w, FALSE) \/ Goto("zimport", w, FALSE)
    BY <2>1, Zenon
  <2> HIDE DEF copy
  <2>2. /\ PassOK' /\ w'.groups = w.groups /\ (fresh' => fresh)
        /\ (at' = "list" \/ (at' \in {"importable", "zimport"} /\ w' = w))
    BY <1>w, <2>c, <2>g, GotoType, Zenon DEF Places
  <2>3. CountOK' /\ UNCHANGED <<bdc, cspi, zpool, full, loop, spec, edits>> /\ at = "import"
    BY <1>3, <2>1, FaultType DEF Import, CheckIfPoolPresent, users
  <2>4. TypeOK'
    BY <2>2, <2>3, Alone, TypeParts DEF Cleaning
  <2>5. PhaseInv'
    BY <2>2, <2>3, <2>4, Zenon DEF PhaseInv, Starting
  <2>6. Quiet
    BY <2>2, <2>3 DEF Quiet, LoopInv, Held, Cleaning, zpool, loop
  <2> QED
    BY <2>4, <2>5, <2>6
<1>4. CASE CheckImportable
  <2>1. /\ UNCHANGED <<bdc, cspi, zpool, full, loop, spec, edits>> /\ at = "importable"
        /\ \/ NoFault /\ Goto("zimport", [w EXCEPT !.rename = w.rename /\ ~Importable], FALSE)
           \/ Fault("zpool") /\ Goto(NotImported, w, FALSE)
    BY <1>4, Zenon DEF CheckImportable, users
  <2>2. (w.rename /\ ~Importable) \in BOOLEAN /\ NotImported \in {"create", "lost"}
        /\ (NotImported = "create" => w.phase = "")
    BY Zenon DEF NotImported
  <2>3. PassOK' /\ CountOK' /\ w'.phase = w.phase /\ w'.life = w.life /\ w'.groups = w.groups /\ (fresh' => fresh)
        /\ (at' = "zimport" \/ at' = NotImported)
    <3>1. CASE NoFault /\ Goto("zimport", [w EXCEPT !.rename = w.rename /\ ~Importable], FALSE)
      <4> DEFINE copy == [w EXCEPT !.rename = w.rename /\ ~Importable]
      <4>1. Keeps(w, copy)
        BY <1>w, <2>2, CopyKeeps, Zenon
      <4> HIDE DEF copy
      <4>2. Goto("zimport", copy, FALSE) /\ copy \in CSPIs
        BY <3>1, <4>1, Zenon DEF copy, Keeps
      <4>3. PassOK' /\ w' = copy /\ at' = "zimport" /\ (fresh' => fresh)
        BY <1>w, <4>2, GotoType, Zenon DEF Places
      <4> QED
        BY <2>1, <3>1, <4>1, <4>3, FaultType DEF Keeps
    <3>2. CASE Fault("zpool") /\ Goto(NotImported, w, FALSE)
      BY <1>w, <2>1, <2>2, <3>2, GotoType, FaultType, Zenon DEF Places
    <3> QED
      BY <2>1, <3>1, <3>2, Zenon
  <2>4. TypeOK'
    BY <2>1, <2>2, <2>3, Alone, TypeParts, Zenon DEF Cleaning
  <2>5. PhaseInv'
    BY <2>1, <2>2, <2>3, <2>4, Zenon DEF PhaseInv, Starting
  <2>6. Quiet
    BY <2>1, <2>2, <2>3, Zenon DEF Quiet, LoopInv, Held, Cleaning, zpool, loop
  <2> QED
    BY <2>4, <2>5, <2>6
<1>5. CASE ZpoolImport
  <2>1. /\ UNCHANGED <<bdc, cspi, members, swap, scan, poolRO, comp, full, loop, spec, edits>> /\ at = "zimport"
        /\ \/ NoFault /\ poolName' = "new" /\ imported' = TRUE /\ Goto("list", [w EXCEPT !.rename = FALSE], FALSE)
           \/ (NoFault \/ Fault("zpool")) /\ UNCHANGED <<poolName, imported>> /\ Goto(NotImported, w, FALSE)
    BY <1>5, Zenon DEF ZpoolImport, users
  <2>2. NotImported \in {"create", "lost"} /\ (NotImported = "create" => w.phase = "")
    BY Zenon DEF NotImported
  <2>3. PassOK' /\ CountOK' /\ w'.phase = w.phase /\ w'.life = w.life /\ w'.groups = w.groups /\ (fresh' => fresh)
        /\ (at' = "list" \/ at' = NotImported)
    <3>1. CASE Goto("list", [w EXCEPT !.rename = FALSE], FALSE)
      <4> DEFINE copy == [w EXCEPT !.rename = FALSE]
      <4>1. Keeps(w, copy)
        BY <1>w, CopyKeeps, Zenon
      <4> HIDE DEF copy
      <4>2. Goto("list", copy, FALSE) /\ copy \in CSPIs
        BY <3>1, <4>1, Zenon DEF copy, Keeps
      <4>3. PassOK' /\ w' = copy /\ at' = "list" /\ (fresh' => fresh)
        BY <1>w, <4>2, GotoType, Zenon DEF Places
      <4> QED
        BY <2>1, <4>1, <4>3, FaultType, Zenon DEF Keeps
    <3>2. CASE Goto(NotImported, w, FALSE)
      BY <1>w, <2>1, <2>2, <3>2, GotoType, FaultType, Zenon DEF Places
    <3> QED
      BY <2>1, <3>1, <3>2, Zenon
  <2>4. ZpoolOK'
    BY <2>1, TypeParts, Zenon DEF ZpoolOK
  <2>5. TypeOK'
    BY <2>1, <2>2, <2>3, <2>4, Alone, TypeParts, Zenon DEF Cleaning
  <2>6. PhaseInv'
    BY <2>1, <2>2, <2>3, <2>5, Zenon DEF PhaseInv, Starting
  <2>7. Quiet
    BY <2>1, <2>2, <2>3, Zenon DEF Quiet, LoopInv, Held, Cleaning, loop
  <2> QED
    BY <2>5, <2>6, <2>7
<1>6. CASE Create
  <2>1. /\ UNCHANGED <<bdc, cspi, zpool, full, loop, spec, edits>> /\ at = "create"
        /\ \/ NoFault /\ Goto(IF Importable THEN "undo" ELSE "zcreate", w, FALSE)
           \/ Fault("zpool") /\ Goto("undo", w, FALSE)
    BY <1>6, Zenon DEF Create, users
  <2>2. PassOK' /\ CountOK' /\ w' = w /\ at' \in {"undo", "zcreate"} /\ (fresh' => fresh)
    BY <1>w, <2>1, GotoType, FaultType, Zenon DEF Places
  <2>3. TypeOK'
    BY <2>1, <2>2, Alone, TypeParts DEF Cleaning
  <2>4. PhaseInv'
    BY <2>1, <2>2, <2>3, Zenon DEF PhaseInv, Starting
  <2>5. Quiet
    BY <2>1, <2>2 DEF Quiet, LoopInv, Held, Cleaning, zpool, loop
  <2> QED
    BY <2>3, <2>4, <2>5
<1>7. CASE MarkLost
  <2>1. /\ UNCHANGED <<bdc, zpool, full, loop, spec, edits>> /\ at = "lost" /\ Goto("idle", w, FALSE)
        /\ \/ NoFault /\ cspi' = [(IF fresh THEN w ELSE cspi) EXCEPT !.lost = TRUE]
           \/ Fault("call") /\ UNCHANGED cspi
    BY <1>7, Zenon DEF MarkLost, users
  <2>2. PassOK' /\ CountOK' /\ at' = "idle" /\ ~fresh'
    BY <1>w, <2>1, GotoType, FaultType, Zenon DEF Places
  <2>3. CSPIOK' /\ cspi'.groups = cspi.groups
    <3>1. CASE UNCHANGED cspi
      BY <3>1, Alone
    <3>2. CASE fresh /\ cspi' = [w EXCEPT !.lost = TRUE]
      BY <1>w, <2>1, <3>2, CopyKeeps, Zenon DEF Keeps, CSPIOK, PhaseInv, Starting, LoopInv
    <3>3. CASE cspi' = [cspi EXCEPT !.lost = TRUE]
      <4>1. CSPIOK /\ Keeps(cspi, cspi')
        BY <1>w, <3>3, TypeParts, CopyKeeps, Zenon
      <4> QED
        BY <4>1 DEF Keeps, CSPIOK
    <3> QED
      BY <2>1, <3>1, <3>2, <3>3
  <2>4. TypeOK'
    BY <2>1, <2>2, <2>3, Alone, TypeParts DEF Cleaning
  <2>5. PhaseInv'
    BY <2>2, <2>4, Zenon DEF PhaseInv, Starting
  <2>6. Quiet
    BY <2>1, <2>2, <2>3 DEF Quiet, LoopInv, Held, Cleaning, zpool, loop
  <2> QED
    BY <2>4, <2>5, <2>6
<1> QED
  BY <1>1, <1>2, <1>3, <1>4, <1>5, <1>6, <1>7

LEMMA DeleteType ==
  ASSUME TypeOK, NEW ok \in Places, NEW bad \in Places, Delete(ok, bad), UNCHANGED edits
  PROVE  /\ PassOK' /\ CountOK' /\ ZpoolOK' /\ at' \in {ok, bad} /\ (at' # "idle" => w' = w)
         /\ (fresh' => fresh /\ at' # "idle")
         /\ UNCHANGED <<members, swap, scan>> \/ (members' = {} /\ swap' = {} /\ UNCHANGED scan)
<1>1. w \in CSPIs /\ FALSE \in BOOLEAN
  BY DEF TypeOK
<1>2. CASE Goto(ok, w, FALSE) /\ \E found \in BOOLEAN :
             /\ CheckIfPoolPresent(found)
             /\ IF found
                THEN /\ poolName' = "none" /\ imported' = FALSE
                     /\ members' = {} /\ swap' = {}
                     /\ UNCHANGED <<scan, poolRO, comp>>
                ELSE UNCHANGED zpool
  <2>1. CountOK'
    BY <1>2, FaultType DEF CheckIfPoolPresent
  <2>2. ZpoolOK' /\ (UNCHANGED <<members, swap, scan>> \/ (members' = {} /\ swap' = {} /\ UNCHANGED scan))
    <3>1. CASE UNCHANGED zpool
      BY <3>1, Alone DEF zpool
    <3>2. CASE poolName' = "none" /\ imported' = FALSE /\ members' = {} /\ swap' = {}
               /\ UNCHANGED <<scan, poolRO, comp>>
      BY <3>2, TypeParts, Zenon DEF ZpoolOK
    <3> QED
      BY <1>2, <3>1, <3>2, Zenon
  <2> QED
    BY <1>1, <1>2, <2>1, <2>2, GotoType, Zenon
<1>3. CASE Fault("zpool") /\ UNCHANGED zpool /\ Goto(bad, w, FALSE)
  BY <1>1, <1>3, GotoType, FaultType, Alone, Zenon DEF zpool
<1> QED
  BY <1>2, <1>3, Zenon DEF Delete

(* Creating the pool, and destroying it. *)
LEMMA TypeCreate ==
  ASSUME TypeOK, PhaseInv, CreatePool \/ AddOtherGroups \/ UndoCreate \/ DestroyPool
  PROVE  TypeOK' /\ PhaseInv'
<1>w. w \in CSPIs /\ cspi \in CSPIs /\ TRUE \in BOOLEAN /\ FALSE \in BOOLEAN
  BY DEF TypeOK
<1>p. {"idle", "undo", "zadd", "release", "delfailed"} \subseteq Places
  BY DEF Places
<1>1. CASE CreatePool
  <2>1. UNCHANGED <<bdc, cspi, full, loop, spec, edits>> /\ at = "zcreate"
    BY <1>1 DEF CreatePool, users
  <2>2. CASE /\ poolName # "new" /\ NoFault /\ (\E g \in w.groups : members' = g)
             /\ poolName' = "new" /\ imported' = TRUE /\ comp' = w.comp
             /\ scan' = [d \in BD |-> "none"] /\ swap' = {} /\ poolRO' = FALSE
             /\ Goto("zadd", w, FALSE)
    <3>1. PassOK' /\ CountOK' /\ at' = "zadd" /\ w' = w
      BY <1>w, <1>p, <2>1, <2>2, GotoType, FaultType, Zenon
    <3>2. ZpoolOK'
      <4>1. w.groups \in SUBSET SUBSET BD /\ w.comp \in {0, 1}
        BY <1>w, Zenon DEF CSPIs
      <4>2. members' \subseteq BD
        BY <2>2, <4>1
      <4>3. scan' \in [BD -> {"none", "started", "running", "done"}] /\ swap' \subseteq BD \X BD
        BY <2>2
      <4> QED
        BY <2>2, <4>1, <4>2, <4>3, Zenon DEF ZpoolOK
    <3>3. TypeOK'
      BY <2>1, <3>1, <3>2, Alone, TypeParts DEF Cleaning
    <3> QED
      BY <2>1, <3>1, <3>3, Zenon DEF PhaseInv, Starting
  <2>3. CASE (NoFault \/ Fault("zpool")) /\ UNCHANGED zpool /\ Goto("undo", w, FALSE)
    <3>1. PassOK' /\ CountOK' /\ at' = "undo" /\ w' = w
      BY <1>w, <1>p, <2>1, <2>3, GotoType, FaultType, Zenon
    <3>2. TypeOK'
      BY <2>1, <2>3, <3>1, Alone, TypeParts DEF Cleaning
    <3> QED
      BY <2>1, <3>1, <3>2, Zenon DEF PhaseInv, Starting
  <2> QED
    BY <1>1, <2>2, <2>3, Zenon DEF CreatePool
<1>2. CASE AddOtherGroups
  <2> DEFINE new == {g \in w.groups : g \cap members = {}}
  <2>1. /\ UNCHANGED <<bdc, cspi, poolName, imported, swap, scan, poolRO, comp, full, w, fresh, loop, err,
                        cached, spec, edits>>
        /\ at = "zadd" /\ at' \in {"undo", "list"}
    BY <1>2, Zenon DEF AddOtherGroups, users
  <2>2. UNION new \subseteq BD
    BY <1>w, Zenon DEF CSPIs
  <2>3. made' \in BOOLEAN
    BY <1>2, Zenon DEF AddOtherGroups
  <2>4. members \subseteq members' /\ members' \subseteq BD
    BY <1>2, <2>2, SMTT(30) DEF AddOtherGroups, AddRaidGroups, TypeOK
  <2>5. CountOK'
    BY <1>2, <2>1, FaultType, Zenon DEF AddOtherGroups, AddRaidGroups
  <2>6. PassOK'
    BY <2>1, <2>3, TypeParts DEF PassOK, Places
  <2>7. ZpoolOK'
    BY <2>1, <2>4, TypeParts DEF ZpoolOK
  <2>8. TypeOK'
    BY <2>1, <2>5, <2>6, <2>7, Alone, TypeParts DEF Cleaning
  <2> QED
    BY <2>1, <2>8, Zenon DEF PhaseInv, Starting
<1>3. CASE UndoCreate \/ DestroyPool
  <2>1. UNCHANGED <<bdc, cspi, full, loop, spec, edits>> /\ at \in {"undo", "delete"}
        /\ (Delete("idle", "idle") \/ Delete("release", "delfailed"))
    BY <1>3 DEF UndoCreate, DestroyPool, users
  <2>2. PassOK' /\ CountOK' /\ ZpoolOK' /\ at' \in {"idle", "release", "delfailed"}
    BY <1>p, <2>1, DeleteType
  <2>3. TypeOK'
    BY <2>1, <2>2, Alone, TypeParts DEF Cleaning
  <2> QED
    BY <2>2, <2>3, Zenon DEF PhaseInv, Starting
<1> QED
  BY <1>1, <1>2, <1>3

(* What Update does for one device. *)
Replaces(old, d) ==
  /\ d \notin members /\ old \in members /\ \A x \in swap : x[1] # old
  /\ members' = members \cup {d} /\ swap' = swap \cup {<<old, d>>}
  /\ scan' = [scan EXCEPT ![d] = "started"]

LEMMA DeviceStep ==
  ASSUME TypeOK, UpdateDevice
  PROVE  /\ PassOK' /\ LoopOK' /\ ZpoolOK' /\ CountOK'
         /\ UNCHANGED <<users, bdc, cspi, full, listed>> /\ w'.groups = w.groups /\ (fresh' => fresh)
         /\ at = "device" /\ at' \in {"device", "resilver", "unfinalize"}
         /\ at' = "unfinalize" => BlankVdev
         /\ \E d \in todo :
              /\ todo' = todo \ {d} /\ (at' # "device" => cur' = d /\ listed[d].mark # NoBD)
              /\ UNCHANGED <<members, swap, scan>> \/ Replaces(listed[d].mark, d)
<1>w. w \in CSPIs /\ TRUE \in BOOLEAN /\ FALSE \in BOOLEAN /\ cur = NoBD /\ at = "device"
      /\ UNCHANGED <<users, bdc, cspi, full, listed, edits>>
  BY DEF TypeOK, UpdateDevice, users
<1>p. "device" \in Places /\ "resilver" \in Places /\ "unfinalize" \in Places
  BY DEF Places
<1>1. PICK d \in todo : LET old == listed[d].mark IN
       /\ todo' = todo \ {d}
       /\ \/ /\ IF listed[d].st = "none" THEN NoFault ELSE old # NoBD /\ Fault("call")
             /\ UNCHANGED <<zpool, changed, cur, triggered, replacing>>
             /\ Goto("device", w, TRUE)
          \/ /\ listed[d].st # "none" /\ Fault("call")
             /\ CountReplacement(old, d)
             /\ UNCHANGED <<zpool, changed>>
             /\ \E over \in {FALSE, BlankVdev /\ imported /\ old # NoBD} :
                  /\ cur' = IF over THEN d ELSE NoBD
                  /\ Goto(IF over THEN "unfinalize" ELSE "device", w, TRUE)
          \/ /\ listed[d].st # "none"
             /\ CountReplacement(old, d)
             /\ UNCHANGED <<poolName, imported, poolRO, comp>>
             /\ \E path, failed \in BOOLEAN :
                  /\ ReplacePoolVdev(old, d, path, failed)
                  /\ changed' = (changed \/ (path /\ d \notin w.linked))
                  /\ cur' = IF path /\ old # NoBD THEN d ELSE NoBD
                  /\ Goto(IF path /\ old # NoBD THEN "resilver" ELSE "device",
                          IF path THEN [w EXCEPT !.linked = @ \cup {d}] ELSE w, err \/ failed)
  BY Zenon DEF UpdateDevice
<1> DEFINE old == listed[d].mark
<1>2. d \in BD /\ todo' = todo \ {d} /\ todo' \subseteq BD /\ replacing' \subseteq BD
  <2>1. d \in BD /\ replacing \subseteq BD /\ todo \subseteq BD
    BY DEF TypeOK
  <2>2. todo' = todo \ {d}
    BY <1>1, Zenon
  <2>3. replacing' = replacing \cup {d} \/ replacing' = replacing
    BY <1>1, Zenon DEF CountReplacement
  <2> QED
    BY <2>1, <2>2, <2>3
<1>3. CASE /\ NoFault \/ Fault("call")
           /\ UNCHANGED <<zpool, changed, cur, triggered>>
           /\ Goto("device", w, TRUE)
  <2>1. CountOK'
    BY <1>w, <1>3, FaultType, SMTT(30)
  <2>2. PassOK' /\ at' = "device" /\ w' = w /\ (fresh' => fresh)
    BY <1>w, <1>p, <1>3, GotoType, Zenon
  <2>3. LoopOK'
    BY <1>w, <1>2, <1>3, <2>2 DEF LoopOK, TypeOK, Cleaning
  <2>4. ZpoolOK' /\ UNCHANGED <<members, swap, scan>>
    BY <1>3, Alone, Zenon DEF zpool
  <2> QED
    BY <1>w, <1>2, <2>1, <2>2, <2>3, <2>4
<1>4. ASSUME NEW over \in {FALSE, BlankVdev /\ imported /\ old # NoBD},
             Fault("call"), triggered' = (triggered \/ old # NoBD), UNCHANGED <<zpool, changed>>,
             cur' = IF over THEN d ELSE NoBD,
             Goto(IF over THEN "unfinalize" ELSE "device", w, TRUE)
      PROVE  /\ PassOK' /\ LoopOK' /\ ZpoolOK' /\ CountOK' /\ w' = w /\ (fresh' => fresh)
             /\ at' \in {"device", "unfinalize"} /\ (at' = "unfinalize" => BlankVdev)
             /\ at' # "device" => cur' = d /\ old # NoBD
             /\ UNCHANGED <<members, swap, scan>>
  <2>1. triggered' \in BOOLEAN
    BY <1>4, Zenon
  <2>2. CountOK'
    BY <1>w, <1>4, FaultType, SMTT(30)
  <2> DEFINE place == IF over THEN "unfinalize" ELSE "device"
  <2>3. place \in Places /\ place # "idle" /\ Goto(place, w, TRUE)
        /\ (place = "device" \/ (place = "unfinalize" /\ over))
    BY <1>p, <1>4, Zenon
  <2>4. (place = "device" => cur' = NoBD) /\ (place = "unfinalize" => cur' = d)
    BY <1>4, Zenon
  <2> HIDE DEF place
  <2>5. PassOK' /\ at' = place /\ w' = w /\ (fresh' => fresh)
    BY <1>w, <2>3, GotoType, Zenon
  <2>6. over => BlankVdev /\ old # NoBD
    BY <1>4, Zenon
  <2>7. LoopOK'
    BY <1>w, <1>2, <1>4, <2>1, <2>3, <2>4, <2>5, TypeParts, PoolAssumption, SMTT(30) DEF LoopOK, Cleaning
  <2>8. ZpoolOK' /\ UNCHANGED <<members, swap, scan>>
    BY <1>4, Alone, Zenon DEF zpool
  <2> QED
    BY <2>2, <2>3, <2>4, <2>5, <2>6, <2>7, <2>8, Zenon
<1>5. ASSUME NEW path \in BOOLEAN, NEW failed \in BOOLEAN,
             triggered' = (triggered \/ old # NoBD),
             UNCHANGED <<poolName, imported, poolRO, comp>>,
             ReplacePoolVdev(old, d, path, failed),
             changed' = (changed \/ (path /\ d \notin w.linked)),
             cur' = IF path /\ old # NoBD THEN d ELSE NoBD,
             Goto(IF path /\ old # NoBD THEN "resilver" ELSE "device",
                  IF path THEN [w EXCEPT !.linked = @ \cup {d}] ELSE w, err \/ failed)
      PROVE  /\ PassOK' /\ LoopOK' /\ ZpoolOK' /\ CountOK' /\ w'.groups = w.groups /\ (fresh' => fresh)
             /\ at' \in {"device", "resilver"} /\ (at' = "resilver" => cur' = d /\ old # NoBD)
             /\ UNCHANGED <<members, swap, scan>> \/ Replaces(old, d)
  <2>1. triggered' \in BOOLEAN /\ changed' \in BOOLEAN /\ (err \/ failed) \in BOOLEAN
    BY <1>5, Zenon
  <2>2. CountOK'
    BY <1>w, <1>5, FaultType DEF ReplacePoolVdev
  <2>3. UNCHANGED <<members, swap, scan>> \/ Replaces(old, d)
    BY <1>5 DEF ReplacePoolVdev, Replaces
  <2>4. ZpoolOK'
    <3>1. CASE UNCHANGED <<members, swap, scan>>
      BY <1>5, <3>1, TypeParts DEF ZpoolOK
    <3>2. CASE Replaces(old, d)
      BY <1>2, <1>5, <3>2, TypeParts DEF ZpoolOK, Replaces
    <3> QED
      BY <2>3, <3>1, <3>2
  <2> DEFINE copy == IF path THEN [w EXCEPT !.linked = @ \cup {d}] ELSE w
             place == IF path /\ old # NoBD THEN "resilver" ELSE "device"
             bad == err \/ failed
  <2>5. copy \in CSPIs /\ copy.groups = w.groups /\ place \in Places
    BY <1>w, <1>p, <1>2, CopyKeeps, Zenon DEF Keeps
  <2>6. Goto(place, copy, bad) /\ bad \in BOOLEAN /\ place # "idle"
    BY <1>5, <2>1
  <2> HIDE DEF copy, place, bad
  <2>7. PassOK' /\ at' = place /\ w' = copy /\ (fresh' => fresh)
    BY <2>5, <2>6, GotoType
  <2>8. at' \in {"device", "resilver"} /\ (at' = "resilver" => cur' = d /\ old # NoBD)
        /\ (at' = "device" => cur' = NoBD) /\ d # NoBD
    BY <1>2, <1>5, <2>7, PoolAssumption DEF place
  <2>9. LoopOK'
    BY <1>w, <1>2, <2>1, <2>8, TypeParts, SMTT(30) DEF LoopOK, Cleaning
  <2> QED
    BY <2>2, <2>3, <2>4, <2>5, <2>7, <2>8, <2>9
<1>6. \/ /\ NoFault \/ Fault("call")
         /\ UNCHANGED <<zpool, changed, cur, triggered>>
         /\ Goto("device", w, TRUE)
      \/ \E over \in {FALSE, BlankVdev /\ imported /\ old # NoBD} :
           /\ Fault("call") /\ triggered' = (triggered \/ old # NoBD) /\ UNCHANGED <<zpool, changed>>
           /\ cur' = IF over THEN d ELSE NoBD
           /\ Goto(IF over THEN "unfinalize" ELSE "device", w, TRUE)
      \/ \E path, failed \in BOOLEAN :
           /\ triggered' = (triggered \/ old # NoBD)
           /\ UNCHANGED <<poolName, imported, poolRO, comp>>
           /\ ReplacePoolVdev(old, d, path, failed)
           /\ changed' = (changed \/ (path /\ d \notin w.linked))
           /\ cur' = IF path /\ old # NoBD THEN d ELSE NoBD
           /\ Goto(IF path /\ old # NoBD THEN "resilver" ELSE "device",
                   IF path THEN [w EXCEPT !.linked = @ \cup {d}] ELSE w, err \/ failed)
  BY <1>1, Zenon DEF CountReplacement
<1> QED
  BY <1>w, <1>2, <1>3, <1>4, <1>5, <1>6, Zenon

(* One call of cleanUpReplacementMarks. *)
LEMMA CleanUpStep ==
  ASSUME TypeOK, at \in Cleaning, NEW possible, NEW claims \in [BD -> Claims],
         NEW next \in {"unclaim", "unmark", "device"}, CleanUp(possible, claims, next), UNCHANGED edits
  PROVE  /\ PassOK' /\ CountOK' /\ bdc' \in [BD -> Claims] /\ w' = w /\ (fresh' => fresh)
         /\ cur' \in BD \cup {NoBD} /\ (cur' # NoBD <=> at' \in Cleaning)
         /\ \/ possible /\ bdc' = claims /\ at' = next /\ (next # "device" => cur' = cur)
            \/ bdc' = bdc /\ at' = "device"
<1>1. w \in CSPIs /\ err \in BOOLEAN /\ TRUE \in BOOLEAN /\ cur \in BD /\ bdc \in [BD -> Claims]
  BY DEF TypeOK, Cleaning
<1>2. {"unclaim", "unmark", "device"} \subseteq Places
  BY DEF Places
<1>3. CASE /\ possible /\ NoFault /\ bdc' = claims /\ Goto(next, w, err)
           /\ cur' = IF next = "device" THEN NoBD ELSE cur
  BY <1>1, <1>2, <1>3, GotoType, FaultType, PoolAssumption DEF Cleaning
<1>4. CASE /\ (NoFault \/ Fault("call")) /\ UNCHANGED bdc /\ Goto("device", w, TRUE) /\ cur' = NoBD
  <2>1. PassOK' /\ at' = "device" /\ w' = w /\ (fresh' => fresh)
    BY <1>1, <1>2, <1>4, GotoType, Zenon
  <2> QED
    BY <1>1, <1>4, <2>1, FaultType DEF Cleaning
<1> QED
  BY <1>3, <1>4, Zenon DEF CleanUp

(* The claims after each of them. *)
Opened(o) == [bdc EXCEPT ![o].st = "open"]
Unclaimed(o) == [bdc EXCEPT ![o] = NoClaim]
Unmarked(d) == [bdc EXCEPT ![d].mark = NoBD]

LEMMA ClaimsType ==
  ASSUME TypeOK, NEW d \in BD
  PROVE  Opened(d) \in [BD -> Claims] /\ Unclaimed(d) \in [BD -> Claims] /\ Unmarked(d) \in [BD -> Claims]
<1>1. bdc \in [BD -> Claims] /\ bdc[d] \in Claims
  BY DEF TypeOK
<1>2. [bdc[d] EXCEPT !.st = "open"] \in Claims /\ NoClaim \in Claims /\ [bdc[d] EXCEPT !.mark = NoBD] \in Claims
  BY <1>1 DEF Claims, NoClaim
<1> QED
  BY <1>1, <1>2 DEF Opened, Unclaimed, Unmarked

(* What cleanUpReplacementMarks and the end of the resilver are for the state. *)
LEMMA CleaningStep ==
  ASSUME TypeOK, LoopInv, CheckResilver \/ RemoveClaimFinalizer \/ UnclaimPredecessor \/ RemoveMark
  PROVE  /\ PassOK' /\ LoopOK' /\ CountOK' /\ UserOK' /\ w' = w /\ (fresh' => fresh)
         /\ UNCHANGED <<users, cspi, zpool, full, listed, todo>>
         /\ LET old == listed[cur].mark IN
            \/ bdc' = bdc /\ at' = "device"
            \/ /\ at = "resilver" /\ bdc' = bdc /\ at' = "unfinalize" /\ cur' = cur
               /\ cur \in members /\ (scan[cur] \in {"none", "done"} \/ ScanLag)
            \/ /\ at = "unfinalize" /\ listed[old].st = "none" /\ bdc' = bdc /\ at' = "unmark" /\ cur' = cur
            \/ /\ at = "unfinalize" /\ listed[old].st # "none" /\ bdc' \in {bdc, Opened(old)}
               /\ at' = "unclaim" /\ cur' = cur
            \/ /\ at = "unclaim" /\ bdc' = Unclaimed(old) /\ at' = "unmark" /\ cur' = cur
            \/ /\ at = "unmark" /\ bdc' = Unmarked(cur) /\ at' = "device"
<1>w. /\ w \in CSPIs /\ err \in BOOLEAN /\ TRUE \in BOOLEAN /\ bdc \in [BD -> Claims]
      /\ UNCHANGED <<users, cspi, zpool, full, listed, todo, edits, spec, triggered, changed>>
      /\ at \in Cleaning
  BY Zenon
  DEF TypeOK, CheckResilver, RemoveClaimFinalizer, UnclaimPredecessor, RemoveMark, users, Cleaning
<1>c. cur \in BD /\ listed[cur].mark \in BD
  BY <1>w DEF TypeOK, LoopInv, Cleaning, Claims
<1> DEFINE old == listed[cur].mark
<1>p. {"device", "unfinalize"} \subseteq Places
  BY DEF Places
<1>f. ASSUME bdc' \in [BD -> Claims]
      PROVE  UserOK'
  BY <1>w, <1>f, TypeParts DEF UserOK
<1>g. ASSUME cur' \in BD \cup {NoBD}, cur' # NoBD <=> at' \in Cleaning, replacing' \subseteq BD
      PROVE  LoopOK'
  BY <1>w, <1>g, TypeParts DEF LoopOK
<1>1. CASE CheckResilver
  <2>1. PICK result \in BOOLEAN : /\ IsResilveringInProgress(cur, result)
                                  /\ Goto(IF result THEN "device" ELSE "unfinalize", w, err)
                                  /\ cur' = IF result THEN NoBD ELSE cur
    BY <1>1 DEF CheckResilver
  <2>2. at = "resilver" /\ UNCHANGED <<bdc, replacing>> /\ CountOK'
    BY <1>w, <1>1, <2>1, FaultType, SMTT(30) DEF CheckResilver, IsResilveringInProgress
  <2>3. PassOK' /\ w' = w /\ (fresh' => fresh) /\ at' = IF result THEN "device" ELSE "unfinalize"
    BY <1>w, <1>p, <2>1, GotoType
  <2>4. LoopOK' /\ UserOK'
    BY <1>c, <1>f, <1>g, <1>w, <2>1, <2>2, <2>3, TypeParts, PoolAssumption, Zenon DEF Cleaning, LoopOK
  <2> QED
    BY <1>w, <2>1, <2>2, <2>3, <2>4, SMTT(30) DEF IsResilveringInProgress
<1>2. CASE RemoveClaimFinalizer
  <2>1. at = "unfinalize" /\ UNCHANGED replacing
        /\ \/ listed[old].st = "none" /\ CleanUp(TRUE, bdc, "unmark")
           \/ listed[old].st # "none" /\ CleanUp(TRUE, bdc, "unclaim")
           \/ listed[old].st # "none" /\ CleanUp(bdc[old] = listed[old], Opened(old), "unclaim")
    BY <1>2, Zenon DEF RemoveClaimFinalizer, Opened
  <2>2. /\ PassOK' /\ CountOK' /\ bdc' \in [BD -> Claims] /\ w' = w /\ (fresh' => fresh)
        /\ cur' \in BD \cup {NoBD} /\ (cur' # NoBD <=> at' \in Cleaning)
        /\ \/ bdc' = bdc /\ at' = "device"
           \/ listed[old].st = "none" /\ bdc' = bdc /\ at' = "unmark" /\ cur' = cur
           \/ listed[old].st # "none" /\ bdc' \in {bdc, Opened(old)} /\ at' = "unclaim" /\ cur' = cur
    <3>1. CASE listed[old].st = "none" /\ CleanUp(TRUE, bdc, "unmark")
      BY <1>w, <3>1, CleanUpStep, Zenon
    <3>2. CASE listed[old].st # "none" /\ CleanUp(TRUE, bdc, "unclaim")
      BY <1>w, <3>2, CleanUpStep, Zenon
    <3>3. CASE listed[old].st # "none" /\ CleanUp(bdc[old] = listed[old], Opened(old), "unclaim")
      BY <1>c, <1>w, <3>3, CleanUpStep, ClaimsType, Zenon
    <3> QED
      BY <2>1, <3>1, <3>2, <3>3, Zenon
  <2>3. LoopOK' /\ UserOK'
    BY <1>f, <1>g, <2>1, <2>2, TypeParts, Zenon DEF LoopOK
  <2> QED
    BY <1>w, <2>1, <2>2, <2>3, Zenon
<1>3. CASE UnclaimPredecessor
  <2>1. at = "unclaim" /\ UNCHANGED replacing /\ CleanUp(bdc[old].st # "none", Unclaimed(old), "unmark")
    BY <1>3 DEF UnclaimPredecessor, Unclaimed
  <2>2. /\ PassOK' /\ CountOK' /\ bdc' \in [BD -> Claims] /\ w' = w /\ (fresh' => fresh)
        /\ cur' \in BD \cup {NoBD} /\ (cur' # NoBD <=> at' \in Cleaning)
        /\ \/ bdc' = bdc /\ at' = "device"
           \/ bdc' = Unclaimed(old) /\ at' = "unmark" /\ cur' = cur
    BY <1>c, <1>w, <2>1, CleanUpStep, ClaimsType, Zenon
  <2>3. LoopOK' /\ UserOK'
    BY <1>f, <1>g, <2>1, <2>2, TypeParts, SMTT(30) DEF LoopOK
  <2> QED
    BY <1>w, <2>1, <2>2, <2>3, Zenon
<1>4. CASE RemoveMark
  <2>1. at = "unmark" /\ replacing' \in {replacing, replacing \ {cur}}
        /\ CleanUp(bdc[cur] = listed[cur], Unmarked(cur), "device")
    BY <1>4 DEF RemoveMark, Unmarked
  <2>2. /\ PassOK' /\ CountOK' /\ bdc' \in [BD -> Claims] /\ w' = w /\ (fresh' => fresh)
        /\ cur' \in BD \cup {NoBD} /\ (cur' # NoBD <=> at' \in Cleaning)
        /\ at' = "device" /\ bdc' \in {bdc, Unmarked(cur)}
    BY <1>c, <1>w, <2>1, CleanUpStep, ClaimsType, Zenon
  <2>3. LoopOK' /\ UserOK'
    BY <1>f, <1>g, <2>1, <2>2, TypeParts DEF LoopOK
  <2> QED
    BY <1>w, <2>1, <2>2, <2>3, Zenon
<1> QED
  BY <1>1, <1>2, <1>3, <1>4, Zenon

(* Places the worker goes to once it is through with the devices, or with the pool. *)
After == {"idle", "expand", "expanded", "status", "report", "sync", "delfailed"}

LEMMA AfterType ==
  ASSUME TypeOK
  PROVE  /\ After \subseteq Places
         /\ \A failed \in BOOLEAN : AfterUpdate(failed) \in After
         /\ AfterPass(made) \in After
BY DEF After, Places, AfterUpdate, AfterPass

LEMMA QuietGoto ==
  ASSUME TypeOK, LoopInv, at # "idle", NEW place \in After, NEW copy \in CSPIs, copy.groups = w.groups,
         NEW failed \in BOOLEAN, Goto(place, copy, failed), todo' = {},
         UNCHANGED <<cspi, spec, bdc, members, swap, scan>>
  PROVE  PassOK' /\ PhaseInv' /\ Quiet /\ at' \in After
<1>1. PassOK' /\ at' = place /\ (place # "idle" => w' = copy) /\ (fresh' => fresh /\ place # "idle")
  BY AfterType, GotoType
<1>2. PhaseInv'
  BY <1>1, Zenon DEF PhaseInv, After, Starting
<1> QED
  BY <1>1, <1>2, Zenon DEF Quiet, Held, LoopInv, After, Cleaning

LEMMA QuietUpdate ==
  ASSUME TypeOK, LoopInv, at # "idle", NEW ok \in After, NEW bad \in After,
         NEW obj \in CSPIs, obj.groups = w.groups, NEW kept \in CSPIs, kept.groups = w.groups,
         NEW failed \in BOOLEAN, UpdateCSPI(obj, ok, bad, kept, failed), todo' = {},
         UNCHANGED <<spec, bdc, members, swap, scan, edits>>
  PROVE  PassOK' /\ CSPIOK' /\ CountOK' /\ PhaseInv' /\ Quiet /\ at' \in After
<1>1. /\ PassOK' /\ CSPIOK' /\ CountOK' /\ (fresh' => fresh /\ at' # "idle")
      /\ \/ fresh /\ cspi'.groups = obj.groups /\ at' = ok /\ (ok # "idle" => w' = obj)
         \/ cspi' = cspi /\ at' = bad /\ (bad # "idle" => w' = kept)
  BY AfterType, UpdateType, SMTT(30)
<1>2. PhaseInv'
  BY <1>1, Zenon DEF PhaseInv, After, Starting
<1> QED
  BY <1>1, <1>2, Zenon DEF Quiet, Held, LoopInv, After, Cleaning

(* The worker, when it is through with the devices or with the pool. *)
LEMMA TypeAfter ==
  ASSUME TypeOK, PhaseInv, LoopInv,
         \/ RecordReplacement \/ RecordExpansion \/ UpdateStatus \/ WriteStatus \/ SetPoolProperties
         \/ RemoveFinalizer \/ MarkDeletionFailed
  PROVE  TypeOK' /\ PhaseInv' /\ Quiet
<1>w. /\ w \in CSPIs /\ err \in BOOLEAN /\ TRUE \in BOOLEAN /\ FALSE \in BOOLEAN /\ AfterPass(made) \in After
      /\ AfterUpdate(err) \in After /\ AfterUpdate(TRUE) \in After /\ {"idle", "delfailed", "expand", "report"} \subseteq After
  BY AfterType, Zenon DEF TypeOK, After
<1>l. ASSUME at \notin Cleaning, at' \in After, UNCHANGED <<listed, todo, cur, replacing, changed>>,
             triggered' \in BOOLEAN
      PROVE  LoopOK'
  BY <1>l, TypeParts DEF LoopOK, After, Cleaning
<1>1. CASE RecordReplacement
  <2> DEFINE obj == IF triggered THEN [w EXCEPT !.replaced = IF replacing # {} THEN "True" ELSE "False"] ELSE w
  <2>1. obj \in CSPIs /\ obj.groups = w.groups
    <3> DEFINE x == IF replacing # {} THEN "True" ELSE "False"
    <3>1. x \in {"True", "False"}
      OBVIOUS
    <3> HIDE DEF x
    <3>2. Keeps(w, [w EXCEPT !.replaced = x])
      BY <1>w, <3>1, CopyKeeps, Zenon
    <3> QED
      BY <1>w, <3>2, Zenon DEF Keeps, x
  <2>2. /\ at = "device" /\ todo = {} /\ UNCHANGED <<bdc, zpool, full, todo, cur, spec, edits>>
        /\ listed' = [d \in BD |-> NoClaim] /\ triggered' = FALSE /\ replacing' = {} /\ changed' = FALSE
        /\ \/ UpdateCSPI(obj, "expand", "expand", obj, TRUE)
           \/ Goto("expand", w, err) /\ NoFault /\ UNCHANGED cspi
    BY <1>1, Zenon DEF RecordReplacement, users
  <2> HIDE DEF obj
  <2>3. PassOK' /\ CSPIOK' /\ CountOK' /\ PhaseInv' /\ Quiet /\ at' \in After
    <3>1. UNCHANGED <<members, swap, scan>>
      BY <2>2 DEF zpool
    <3>2. CASE UpdateCSPI(obj, "expand", "expand", obj, TRUE)
      BY <1>w, <2>1, <2>2, <3>1, <3>2, QuietUpdate, Zenon
    <3>3. CASE Goto("expand", w, err) /\ NoFault /\ UNCHANGED cspi
      BY <1>w, <2>2, <3>1, <3>3, QuietGoto, FaultType, Alone, SMTT(30)
    <3> QED
      BY <2>2, <3>2, <3>3, Zenon
  <2>4. LoopOK'
    <3>1. NoClaim \in Claims
      BY DEF NoClaim, Claims
    <3> QED
      BY <2>2, <2>3, <3>1, TypeParts, Zenon DEF LoopOK, After, Cleaning
  <2> QED
    BY <2>2, <2>3, <2>4, Alone, TypeParts
<1>2. CASE RecordExpansion
  <2> DEFINE obj == [w EXCEPT !.expanded = IF triggered THEN "True" ELSE "False"]
  <2>1. obj \in CSPIs /\ obj.groups = w.groups
    <3> DEFINE x == IF triggered THEN "True" ELSE "False"
    <3>1. x \in {"True", "False"}
      OBVIOUS
    <3> HIDE DEF x
    <3>2. Keeps(w, [w EXCEPT !.expanded = x])
      BY <1>w, <3>1, CopyKeeps, Zenon
    <3> QED
      BY <1>w, <3>2, Zenon DEF Keeps, x
  <2>2. /\ at = "expanded" /\ UNCHANGED <<bdc, zpool, full, listed, todo, cur, replacing, changed, spec, edits>>
        /\ triggered' = FALSE /\ UpdateCSPI(obj, AfterUpdate(err), AfterUpdate(TRUE), w, TRUE)
    BY <1>2, Zenon DEF RecordExpansion, users
  <2> HIDE DEF obj
  <2>3. UNCHANGED <<members, swap, scan>> /\ todo' = {}
    BY <2>2, Zenon DEF zpool, LoopInv, Cleaning
  <2>4. PassOK' /\ CSPIOK' /\ CountOK' /\ PhaseInv' /\ Quiet /\ at' \in After
    BY <1>w, <2>1, <2>2, <2>3, QuietUpdate, Zenon
  <2>5. LoopOK'
    BY <1>l, <2>2, <2>4, Zenon DEF Cleaning
  <2> QED
    BY <2>2, <2>4, <2>5, Alone, TypeParts, SMTT(30)
<1>3. CASE UpdateStatus
  <2>1. /\ at = "status" /\ UNCHANGED <<bdc, cspi, poolName, imported, members, swap, scan, comp, full, loop, spec, edits>>
    BY <1>3, Zenon DEF UpdateStatus, users
  <2>2. todo' = {}
    BY <2>1, Zenon DEF loop, LoopInv, Cleaning
  <2>3. CASE \E mode \in BOOLEAN :
               /\ UpdateROMode(mode)
               /\ poolRO' = mode
               /\ LET obj == [w EXCEPT !.phase = "ONLINE", !.ro = mode]
                  IN Goto(IF obj = w THEN AfterPass(made) ELSE "report", obj, FALSE)
    <3>1. PICK mode \in BOOLEAN :
               /\ UpdateROMode(mode)
               /\ poolRO' = mode
               /\ LET obj == [w EXCEPT !.phase = "ONLINE", !.ro = mode]
                  IN Goto(IF obj = w THEN AfterPass(made) ELSE "report", obj, FALSE)
      BY <2>3, Zenon
    <3> DEFINE obj == [w EXCEPT !.phase = "ONLINE", !.ro = mode]
               place == IF obj = w THEN AfterPass(made) ELSE "report"
    <3>2. obj \in CSPIs /\ obj.groups = w.groups /\ place \in After
      <4>1. place \in After
        BY <1>w
      <4>2. obj \in CSPIs /\ obj.groups = w.groups
        BY <1>w, Zenon DEF CSPIs
      <4> QED
        BY <4>1, <4>2
    <3>3. Goto(place, obj, FALSE)
      BY <3>1, Zenon
    <3> HIDE DEF obj, place
    <3>4. PassOK' /\ PhaseInv' /\ Quiet /\ at' \in After
      BY <1>w, <2>1, <2>2, <3>2, <3>3, QuietGoto, Zenon
    <3>5. CountOK'
      BY <2>1, <3>1, FaultType DEF UpdateROMode
    <3>6. ZpoolOK'
      BY <2>1, <3>1, TypeParts DEF ZpoolOK
    <3>7. LoopOK'
      BY <2>1, <3>4, Alone DEF After, Cleaning
    <3> QED
      BY <2>1, <3>4, <3>5, <3>6, <3>7, Alone, TypeParts, SMTT(30)
  <2>4. CASE (NoFault \/ Fault("zpool")) /\ UNCHANGED poolRO /\ Goto(AfterPass(made), w, FALSE)
    <3>1. PassOK' /\ PhaseInv' /\ Quiet /\ at' \in After
      BY <1>w, <2>1, <2>2, <2>4, QuietGoto, Zenon
    <3>2. CountOK'
      BY <2>1, <2>4, FaultType
    <3>3. ZpoolOK'
      BY <2>1, <2>4, TypeParts DEF ZpoolOK
    <3>4. LoopOK'
      BY <2>1, <3>1, Alone DEF After, Cleaning
    <3> QED
      BY <2>1, <3>1, <3>2, <3>3, <3>4, Alone, TypeParts
  <2> QED
    BY <1>3, <2>3, <2>4, Zenon DEF UpdateStatus
<1>4. CASE WriteStatus \/ RemoveFinalizer \/ MarkDeletionFailed
  <2>1. at \in {"report", "release", "delfailed"} /\ UNCHANGED <<bdc, zpool, full, loop, spec, edits>>
    BY <1>4, Zenon DEF WriteStatus, RemoveFinalizer, MarkDeletionFailed, users
  <2>2. todo' = {} /\ UNCHANGED <<members, swap, scan>>
    BY <2>1, Zenon DEF loop, zpool, LoopInv, Cleaning
  <2>3. PassOK' /\ CSPIOK' /\ CountOK' /\ PhaseInv' /\ Quiet /\ at' \in After
    <3>1. CASE WriteStatus
      <4>1. UpdateCSPI(w, AfterPass(made), AfterPass(made), w, FALSE)
        BY <3>1, Zenon DEF WriteStatus
      <4> QED
        BY <1>w, <2>1, <2>2, <4>1, QuietUpdate, Zenon
    <3>2. CASE RemoveFinalizer
      <4> DEFINE obj == [w EXCEPT !.fin = FALSE]
      <4>1. UpdateCSPI(obj, "idle", "delfailed", obj, FALSE)
        BY <3>2, Zenon DEF RemoveFinalizer
      <4>2. obj \in CSPIs /\ obj.groups = w.groups
        BY <1>w, CopyType, Zenon
      <4> HIDE DEF obj
      <4> QED
        BY <1>w, <2>1, <2>2, <4>1, <4>2, QuietUpdate, Zenon
    <3>3. CASE MarkDeletionFailed
      <4> DEFINE obj == [w EXCEPT !.phase = "DeletionFailed"]
      <4>1. UpdateCSPI(obj, "idle", "idle", w, FALSE)
        BY <3>3, Zenon DEF MarkDeletionFailed
      <4>2. obj \in CSPIs /\ obj.groups = w.groups
        BY <1>w, CopyType, Zenon
      <4> HIDE DEF obj
      <4> QED
        BY <1>w, <2>1, <2>2, <4>1, <4>2, QuietUpdate, Zenon
    <3> QED
      BY <1>4, <3>1, <3>2, <3>3
  <2>4. LoopOK'
    BY <2>1, <2>3, Alone DEF After, Cleaning
  <2> QED
    BY <2>1, <2>3, <2>4, Alone, TypeParts
<1>5. CASE SetPoolProperties
  <2>1. /\ at = "sync" /\ UNCHANGED <<bdc, cspi, poolName, imported, members, swap, scan, poolRO, full, loop, spec, edits>>
        /\ at' = "idle" /\ w' = NoCopy /\ fresh' = FALSE /\ made' = FALSE /\ err' = FALSE
        /\ (NoFault \/ Fault("zpool"))
        /\ comp' \in {comp, w.comp} /\ cached' \in {cached, {w.comp}}
    BY <1>5, Zenon DEF SetPoolProperties, users
  <2>2. NoCopy \in CSPIs /\ w.comp \in {0, 1}
    BY <1>w, NewType, Zenon DEF NoCopy, CSPIs
  <2>3. PassOK'
    BY <2>1, <2>2, TypeParts, Zenon DEF PassOK, Places
  <2>4. ZpoolOK'
    BY <2>1, <2>2, TypeParts, SMTT(30) DEF ZpoolOK
  <2>5. CountOK'
    BY <2>1, FaultType
  <2>6. LoopOK'
    BY <2>1, Alone DEF Cleaning
  <2>7. PhaseInv' /\ Quiet
    BY <2>1, Zenon DEF PhaseInv, Starting, Quiet, Held, LoopInv, Cleaning, loop
  <2> QED
    BY <2>1, <2>3, <2>4, <2>5, <2>6, <2>7, Alone, TypeParts, SMTT(30)
<1> QED
  BY <1>1, <1>2, <1>3, <1>4, <1>5

LEMMA EditType ==
  ASSUME TypeOK, UNCHANGED faults, NEW k, Edit(k)
  PROVE  CountOK'
BY TypeParts, PoolAssumption DEF CountOK, Edit

(* Somebody else writes the CSPI: the worker is where it was, with its copy. *)
LEMMA OtherType ==
  ASSUME TypeOK, PhaseInv, NEW obj \in CSPIs, WriteByOther(obj), obj.phase = cspi.phase,
         cspi.life = "deleting" => obj.life = "deleting" /\ obj.fin
  PROVE  PassOK' /\ LoopOK' /\ CSPIOK' /\ PhaseInv' /\ cspi'.groups = obj.groups /\ ~fresh'
         /\ UNCHANGED <<at, w, listed, todo, cur>>
<1>1. CSPIOK' /\ cspi'.groups = obj.groups /\ cspi'.phase = obj.phase
      /\ (cspi.life = "deleting" => cspi'.life = "deleting")
  BY StoredType, SMTT(30) DEF WriteByOther, CSPIOK
<1>2. PassOK' /\ ~fresh'
  BY TypeParts, Zenon DEF WriteByOther, PassOK
<1>3. LoopOK' /\ UNCHANGED <<at, w, listed, todo, cur>>
  BY TypeParts, Zenon DEF WriteByOther, LoopOK, loop
<1>4. PhaseInv'
  BY <1>1, <1>3, Zenon DEF PhaseInv
<1> QED
  BY <1>1, <1>2, <1>3, <1>4, Zenon

LEMMA WorkerAlone ==
  ASSUME TypeOK, PhaseInv, UNCHANGED worker
  PROVE  PassOK' /\ LoopOK' /\ UNCHANGED <<at, w, fresh, listed, todo, cur>>
         /\ (UNCHANGED cspi => PhaseInv')
<1>1. PassOK' /\ UNCHANGED <<at, w, fresh, listed, todo, cur>>
  BY TypeParts DEF PassOK, worker, loop
<1>2. LoopOK'
  BY TypeParts DEF LoopOK, worker, loop
<1> QED
  BY <1>1, <1>2, Zenon DEF PhaseInv

(* Others who leave the raid groups alone. *)
LEMMA TypeBystanders ==
  ASSUME TypeOK, PhaseInv, LoopInv,
         DeleteCSPI \/ SetCompression \/ UsePool \/ ContainerRestarts \/ ManagerRestarts
  PROVE  TypeOK' /\ PhaseInv' /\ Quiet
<1>c. cspi \in CSPIs
  BY Zenon DEF TypeOK
<1>1. CASE DeleteCSPI \/ SetCompression
  <2> DEFINE obj == IF DeleteCSPI THEN [cspi EXCEPT !.life = "deleting"] ELSE [cspi EXCEPT !.comp = 1]
  <2>1. obj \in CSPIs /\ obj.phase = cspi.phase /\ obj.groups = cspi.groups
    BY <1>c, CopyKeeps, CopyType, ZenonT(60) DEF Keeps
  <2>2. /\ WriteByOther(obj) /\ cspi.life = "live" /\ UNCHANGED <<spec, bdc, zpool, full, faults>>
        /\ (Edit("delete") \/ Edit("compress"))
    BY <1>1 DEF DeleteCSPI, SetCompression
  <2> HIDE DEF obj
  <2>3. PassOK' /\ LoopOK' /\ CSPIOK' /\ PhaseInv' /\ cspi'.groups = obj.groups /\ ~fresh'
        /\ UNCHANGED <<at, w, listed, todo, cur>>
    BY <2>1, <2>2, OtherType, Zenon
  <2>4. CountOK'
    BY <2>2, EditType
  <2>5. TypeOK'
    BY <2>2, <2>3, <2>4, Alone, TypeParts, Zenon
  <2>6. Quiet
    BY <2>1, <2>2, <2>3, Zenon DEF Quiet, Held, zpool
  <2> QED
    BY <2>3, <2>5, <2>6
<1>2. CASE UsePool
  <2>1. UNCHANGED <<spec, bdc, cspi, zpool, worker, faults>> /\ Edit("fill") /\ full' = ~full
    BY <1>2 DEF UsePool
  <2>2. full' \in BOOLEAN
    BY <2>1, Zenon
  <2>3. PassOK' /\ LoopOK' /\ PhaseInv' /\ UNCHANGED <<at, w, fresh, listed, todo, cur>>
    BY <2>1, WorkerAlone
  <2>4. CountOK' /\ UserOK'
    BY <2>1, <2>2, EditType, TypeParts DEF UserOK
  <2>5. TypeOK'
    BY <2>1, <2>3, <2>4, Alone, TypeParts
  <2>6. Quiet
    BY <2>1, <2>3, Zenon DEF Quiet, Held, zpool, LoopInv
  <2> QED
    BY <2>3, <2>5, <2>6
<1>3. CASE ContainerRestarts
  <2>1. UNCHANGED <<spec, edits, bdc, cspi, poolName, members, swap, scan, poolRO, comp, full, worker>>
        /\ Fault("container") /\ imported' = FALSE
    BY <1>3 DEF ContainerRestarts, users
  <2>2. PassOK' /\ LoopOK' /\ PhaseInv' /\ UNCHANGED <<at, w, fresh, listed, todo, cur>>
    BY <2>1, WorkerAlone
  <2>3. CountOK' /\ ZpoolOK'
    BY <2>1, FaultType, TypeParts, Zenon DEF ZpoolOK
  <2>4. TypeOK'
    BY <2>1, <2>2, <2>3, Alone, TypeParts, Zenon
  <2>5. Quiet
    BY <2>1, <2>2, Zenon DEF Quiet, Held, LoopInv
  <2> QED
    BY <2>2, <2>4, <2>5
<1>4. CASE ManagerRestarts
  <2>1. /\ UNCHANGED <<spec, edits, bdc, poolName, members, swap, scan, poolRO, comp, full>>
        /\ ForgetPass /\ imported' \in {imported, FALSE} /\ (Fault("manager") \/ Fault("pod"))
        /\ cspi' \in {cspi, [cspi EXCEPT !.phase = "Offline"]}
    BY <1>4, Zenon DEF ManagerRestarts, users
  <2>2. CSPIOK' /\ cspi'.groups = cspi.groups
    <3>1. CASE UNCHANGED cspi
      BY <3>1, Alone
    <3>2. CASE cspi' = [cspi EXCEPT !.phase = "Offline"]
      BY <3>2, Zenon DEF CSPIOK, TypeOK, CSPIs
    <3> QED
      BY <2>1, <3>1, <3>2
  <2>3. PassOK'
    BY NewType, <2>1, Zenon DEF ForgetPass, PassOK, NoCopy, Places
  <2>4. LoopOK'
    <3>1. NoClaim \in Claims
      BY DEF NoClaim, Claims
    <3> QED
      BY <2>1, <3>1, Zenon DEF ForgetPass, LoopOK, Cleaning
  <2>5. CountOK' /\ ZpoolOK'
    BY <2>1, FaultType, TypeParts, Zenon DEF ZpoolOK
  <2>6. TypeOK'
    BY <2>1, <2>2, <2>3, <2>4, <2>5, Alone, TypeParts
  <2>7. PhaseInv' /\ Quiet
    BY <2>1, <2>2, Zenon DEF PhaseInv, Starting, Quiet, Held, ForgetPass, Cleaning
  <2> QED
    BY <2>6, <2>7
<1> QED
  BY <1>1, <1>2, <1>3, <1>4

(* The claims are listed; then the worker goes through the devices of its copy. *)
LEMMA ListStep ==
  ASSUME TypeOK, PhaseInv, LoopInv, ListClaims
  PROVE  /\ TypeOK' /\ PhaseInv'
         /\ \/ Quiet
            \/ /\ at' = "device" /\ w' = w /\ (fresh' => fresh) /\ listed' = bdc /\ todo' = Devices(w.groups)
               /\ UNCHANGED <<spec, bdc, cspi, members, swap, scan>>
<1>w. w \in CSPIs /\ TRUE \in BOOLEAN /\ FALSE \in BOOLEAN /\ AfterUpdate(TRUE) \in After
  BY AfterType, Zenon DEF TypeOK
<1>1. /\ at = "list" /\ UNCHANGED <<bdc, cspi, zpool, full, cur, triggered, replacing, changed, spec, edits>>
      /\ UNCHANGED <<members, swap, scan>>
  BY DEF ListClaims, users, zpool
<1>2. CASE NoFault /\ Goto("device", w, FALSE) /\ listed' = bdc /\ todo' = Devices(w.groups)
  <2>1. PassOK' /\ at' = "device" /\ w' = w /\ (fresh' => fresh)
    BY <1>w, <1>2, GotoType, Zenon DEF Places
  <2>2. Devices(w.groups) \subseteq BD /\ bdc \in [BD -> Claims]
    BY Zenon DEF TypeOK, CSPIs, Devices
  <2>3. LoopOK'
    BY <1>1, <1>2, <2>1, <2>2, TypeParts, Zenon DEF LoopOK, Cleaning
  <2>4. TypeOK'
    BY <1>1, <1>2, <2>1, <2>3, FaultType, Alone, TypeParts, SMTT(30)
  <2> QED
    BY <1>1, <1>2, <2>1, <2>4, Zenon DEF PhaseInv, Starting
<1>3. CASE Fault("call") /\ Goto(AfterUpdate(TRUE), w, TRUE) /\ UNCHANGED <<listed, todo>>
  <2>1. todo' = {} /\ UNCHANGED loop
    BY <1>1, <1>3, Zenon DEF LoopInv, Cleaning, loop
  <2>2. PassOK' /\ PhaseInv' /\ Quiet /\ at' \in After
    BY <1>w, <1>1, <1>3, <2>1, QuietGoto, Zenon
  <2>3. LoopOK'
    BY <1>1, <2>1, <2>2, Alone DEF After, Cleaning
  <2> QED
    BY <1>1, <1>3, <2>2, <2>3, FaultType, Alone, TypeParts, SMTT(30)
<1> QED
  BY <1>2, <1>3, Zenon DEF ListClaims

(* Raid groups of the worker's copy that the pool has nothing of are added to it. *)
Growth ==
  /\ UNCHANGED <<spec, bdc, cspi, swap, scan>>
  /\ Held' \in {{}, Held} /\ at' \notin {"device"} \cup Cleaning /\ todo' = {}
  /\ fresh' => w'.groups = cspi.groups /\ at' # "idle"
  /\ \E some \in SUBSET NewVdevs : members' = members \cup UNION some

LEMMA ExpandStep ==
  ASSUME TypeOK, PhaseInv, LoopInv, UpdateNewVdevFromCSPI
  PROVE  TypeOK' /\ PhaseInv' /\ Growth
<1>w. w \in CSPIs /\ err \in BOOLEAN /\ TRUE \in BOOLEAN /\ FALSE \in BOOLEAN /\ AfterUpdate(TRUE) \in After
      /\ AfterUpdate(err) \in After /\ "expanded" \in After
  BY AfterType, Zenon DEF TypeOK, After
<1>1. /\ at = "expand"
      /\ UNCHANGED <<bdc, cspi, poolName, imported, swap, scan, poolRO, comp, full, listed, todo, cur, replacing,
                      changed, spec, edits>>
      /\ todo' = {}
  BY Zenon DEF UpdateNewVdevFromCSPI, users, LoopInv, Cleaning
<1>2. triggered' \in BOOLEAN
  BY Zenon DEF UpdateNewVdevFromCSPI
<1>3. UNION NewVdevs \subseteq BD
  <2>1. \A g \in w.groups : g \subseteq BD
    BY <1>w, Zenon DEF CSPIs
  <2>2. \A v \in NewVdevs : \E g \in w.groups : v \subseteq g
    BY DEF NewVdevs
  <2> QED
    BY <2>1, <2>2, Zenon
<1>4. /\ CountOK' /\ (\E some \in SUBSET NewVdevs : members' = members \cup UNION some)
      /\ \E place \in After, failed \in BOOLEAN : Goto(place, w, failed)
  <2>1. CASE \E failed \in BOOLEAN : AddRaidGroups(NewVdevs, failed) /\ Goto("expanded", w, err \/ failed)
    <3>1. PICK failed \in BOOLEAN : AddRaidGroups(NewVdevs, failed) /\ Goto("expanded", w, err \/ failed)
      BY <2>1
    <3>2. (err \/ failed) \in BOOLEAN
      BY Zenon
    <3>3. CountOK' /\ \E some \in SUBSET NewVdevs : members' = members \cup UNION some
      BY <1>1, <3>1, FaultType, SMTT(30) DEF AddRaidGroups
    <3> QED
      BY <1>w, <3>1, <3>2, <3>3
  <2>2. CASE /\ NoFault /\ UNCHANGED members
             /\ Goto(IF w.expanded = "True" THEN "expanded" ELSE AfterUpdate(err), w, err)
    <3>1. (IF w.expanded = "True" THEN "expanded" ELSE AfterUpdate(err)) \in After
      BY <1>w
    <3>2. {} \in SUBSET NewVdevs /\ members = members \cup UNION {}
      OBVIOUS
    <3> QED
      BY <1>w, <1>1, <2>2, <3>1, <3>2, FaultType
  <2>3. CASE (NoFault \/ Fault("zpool")) /\ UNCHANGED members /\ Goto(AfterUpdate(TRUE), w, TRUE)
    <3>1. {} \in SUBSET NewVdevs /\ members = members \cup UNION {}
      OBVIOUS
    <3> QED
      BY <1>w, <1>1, <2>3, <3>1, FaultType, Zenon
  <2> QED
    BY <2>1, <2>2, <2>3, Zenon DEF UpdateNewVdevFromCSPI
<1>5. PICK place \in After, failed \in BOOLEAN : Goto(place, w, failed)
  BY <1>4
<1>6. PassOK' /\ at' = place /\ (place # "idle" => w' = w) /\ (fresh' => fresh /\ place # "idle")
  BY <1>w, <1>5, AfterType, GotoType
<1>7. ZpoolOK'
  BY <1>1, <1>3, <1>4, TypeParts, Zenon DEF ZpoolOK
<1>8. LoopOK'
  BY <1>1, <1>2, <1>6, TypeParts, Zenon DEF LoopOK, After, Cleaning
<1>9. TypeOK'
  BY <1>1, <1>4, <1>6, <1>7, <1>8, Alone, TypeParts, Zenon
<1>10. PhaseInv'
  BY <1>6, Zenon DEF PhaseInv, After, Starting
<1>11. Growth
  BY <1>1, <1>4, <1>6, Zenon DEF Growth, Held, LoopInv, After, Cleaning
<1> QED
  BY <1>9, <1>10, <1>11

(* Those who change the layout, the claims or the pool. *)
LEMMA TypeEdits ==
  ASSUME TypeOK, PhaseInv,
         \/ ReplaceDevice \/ ExpandPool \/ ReplaceExistingBlockDevice \/ ClaimAdded \/ ExpandCSPI
         \/ (\E d \in BD : BindClaim(d)) \/ (\E x \in swap : Resilver(x))
  PROVE  TypeOK' /\ PhaseInv' /\ UNCHANGED <<at, w, listed, todo, cur>> /\ (fresh' => fresh /\ UNCHANGED cspi)
<1>t. /\ cspi \in CSPIs /\ bdc \in [BD -> Claims] /\ spec \subseteq SUBSET BD /\ cspi.groups \subseteq SUBSET BD
      /\ (cspi.life = "deleting" => cspi.fin)
  BY Zenon DEF TypeOK, CSPIs
<1>1. CASE ReplaceDevice
  <2>1. /\ UNCHANGED <<cspi, zpool, full, worker, faults>> /\ (Edit("replace") \/ Edit("reject"))
        /\ \E g \in spec, old \in BD, new \in BD : 
             /\ bdc' = ClaimBD(new, old) /\ spec' \in {spec, (spec \ {g}) \cup {(g \ {old}) \cup {new}}}
    BY <1>1, <1>t, Zenon DEF ReplaceDevice
  <2>2. PICK g \in spec, old \in BD, new \in BD : 
             /\ bdc' = ClaimBD(new, old) /\ spec' \in {spec, (spec \ {g}) \cup {(g \ {old}) \cup {new}}}
    BY <2>1
  <2>3. bdc' \in [BD -> Claims]
    <3>1. [st |-> "new", mark |-> old] \in Claims /\ [bdc[new] EXCEPT !.mark = old] \in Claims
      BY <1>t DEF Claims
    <3> QED
      BY <1>t, <2>2, <3>1 DEF ClaimBD
  <2>4. spec' \subseteq SUBSET BD
    BY <1>t, <2>2, SMTT(30)
  <2>5. CountOK' /\ UserOK'
    BY <2>1, <2>3, <2>4, EditType, TypeParts, Zenon DEF UserOK
  <2> QED
    BY <2>1, <2>5, WorkerAlone, Alone, TypeParts, SMTT(30)
<1>2. CASE ExpandPool
  <2>1. /\ UNCHANGED <<bdc, cspi, zpool, full, worker, faults>> /\ Edit("expand")
        /\ \E g \in SUBSET BD : spec' = spec \cup {g} \/ \E s \in spec : spec' = (spec \ {s}) \cup {s \cup g}
    BY <1>2, Zenon DEF ExpandPool
  <2>2. spec' \subseteq SUBSET BD
    <3>1. PICK g \in SUBSET BD : spec' = spec \cup {g} \/ \E s \in spec : spec' = (spec \ {s}) \cup {s \cup g}
      BY <2>1, Zenon
    <3>2. CASE spec' = spec \cup {g}
      BY <1>t, <3>2, Zenon
    <3>3. ASSUME NEW s \in spec, spec' = (spec \ {s}) \cup {s \cup g}
          PROVE  spec' \subseteq SUBSET BD
      <4>1. s \cup g \in SUBSET BD
        BY <1>t, Zenon
      <4> QED
        BY <1>t, <3>3, <4>1, Zenon
    <3> QED
      BY <3>1, <3>2, <3>3, Zenon
  <2>3. CountOK' /\ UserOK'
    BY <2>1, <2>2, EditType, TypeParts DEF UserOK
  <2> QED
    BY <2>1, <2>3, WorkerAlone, Alone, TypeParts, SMTT(30)
<1>3. CASE ReplaceExistingBlockDevice
  <2>1. /\ UNCHANGED <<spec, edits, bdc, zpool, full, faults>>
        /\ \E s \in spec, c \in cspi.groups : \E old \in c, new \in s :
              WriteByOther([cspi EXCEPT !.groups = (@ \ {c}) \cup {(c \ {old}) \cup {new}}, !.linked = @ \ {old}])
    BY <1>3, Zenon DEF ReplaceExistingBlockDevice, users
  <2>2. PICK s \in spec, c \in cspi.groups : \E old \in c, new \in s :
              WriteByOther([cspi EXCEPT !.groups = (@ \ {c}) \cup {(c \ {old}) \cup {new}}, !.linked = @ \ {old}])
    BY <2>1, Zenon
  <2>3. PICK old \in c, new \in s :
              WriteByOther([cspi EXCEPT !.groups = (@ \ {c}) \cup {(c \ {old}) \cup {new}}, !.linked = @ \ {old}])
    BY <2>2, Zenon
  <2> DEFINE gs == (cspi.groups \ {c}) \cup {(c \ {old}) \cup {new}}
             obj == [cspi EXCEPT !.groups = gs, !.linked = @ \ {old}]
  <2>4. gs \subseteq SUBSET BD /\ old \in BD
    BY <1>t, Zenon
  <2>5. WriteByOther(obj)
    BY <2>3
  <2> HIDE DEF gs
  <2>6. obj \in CSPIs /\ obj.phase = cspi.phase /\ obj.life = cspi.life /\ obj.fin = cspi.fin
    BY <1>t, <2>4, Zenon DEF CSPIs
  <2> HIDE DEF obj
  <2>7. PassOK' /\ LoopOK' /\ CSPIOK' /\ PhaseInv' /\ ~fresh' /\ UNCHANGED <<at, w, listed, todo, cur>>
    BY <1>t, <2>5, <2>6, OtherType, Zenon
  <2>8. CountOK'
    BY <2>1, FaultType DEF NoFault
  <2> QED
    BY <2>1, <2>7, <2>8, Alone, TypeParts
<1>4. CASE ClaimAdded
  <2>1. /\ UNCHANGED <<spec, edits, cspi, zpool, full, worker, faults>>
        /\ \E d \in UNION Added : bdc' = [bdc EXCEPT ![d] = [st |-> "new", mark |-> NoBD]]
    BY <1>4, Zenon DEF ClaimAdded, users
  <2>2. [st |-> "new", mark |-> NoBD] \in Claims
    BY DEF Claims
  <2>3. UserOK' /\ CountOK'
    BY <1>t, <2>1, <2>2, FaultType, TypeParts, Zenon DEF UserOK, NoFault
  <2> QED
    BY <2>1, <2>3, WorkerAlone, Alone, TypeParts, SMTT(30)
<1>5. CASE ExpandCSPI
  <2>1. /\ UNCHANGED <<spec, edits, bdc, zpool, full, faults>>
        /\ \E gs \in SUBSET SUBSET BD : WriteByOther([cspi EXCEPT !.groups = gs])
    <3>1. \A g \in Added : g \subseteq BD
      BY <1>t DEF Added, Devices
    <3>2. PICK g \in Added :
            IF Striped
            THEN \E c \in cspi.groups : WriteByOther([cspi EXCEPT !.groups = (@ \ {c}) \cup {c \cup g}])
            ELSE WriteByOther([cspi EXCEPT !.groups = @ \cup {g}])
      BY <1>5, Zenon DEF ExpandCSPI
    <3>3. cspi.groups \cup {g} \in SUBSET SUBSET BD
          /\ \A c \in cspi.groups : (cspi.groups \ {c}) \cup {c \cup g} \in SUBSET SUBSET BD
      BY <1>t, <3>1, <3>2
    <3> QED
      BY <1>5, <3>2, <3>3, Zenon DEF ExpandCSPI, users
  <2>2. PICK gs \in SUBSET SUBSET BD : WriteByOther([cspi EXCEPT !.groups = gs])
    BY <2>1, Zenon
  <2> DEFINE obj == [cspi EXCEPT !.groups = gs]
  <2>3. WriteByOther(obj)
    BY <2>2
  <2>4. obj \in CSPIs /\ obj.phase = cspi.phase /\ obj.life = cspi.life /\ obj.fin = cspi.fin
    BY <1>t, Zenon DEF CSPIs
  <2> HIDE DEF obj
  <2>5. PassOK' /\ LoopOK' /\ CSPIOK' /\ PhaseInv' /\ ~fresh' /\ UNCHANGED <<at, w, listed, todo, cur>>
    BY <1>t, <2>3, <2>4, OtherType, Zenon
  <2>6. CountOK'
    BY <2>1, FaultType DEF NoFault
  <2> QED
    BY <2>1, <2>5, <2>6, Alone, TypeParts
<1>6. CASE \E d \in BD : BindClaim(d)
  <2>1. PICK d \in BD : BindClaim(d)
    BY <1>6
  <2>2. UNCHANGED <<spec, edits, cspi, zpool, full, worker, faults>> /\ bdc' = [bdc EXCEPT ![d].st = "held"]
    BY <2>1 DEF BindClaim, users
  <2>3. [bdc[d] EXCEPT !.st = "held"] \in Claims
    BY <1>t DEF Claims
  <2>4. UserOK' /\ CountOK'
    BY <1>t, <2>2, <2>3, FaultType, TypeParts DEF UserOK, NoFault
  <2> QED
    BY <2>2, <2>4, WorkerAlone, Alone, TypeParts
<1>7. CASE \E x \in swap : Resilver(x)
  <2>1. PICK x \in swap : Resilver(x)
    BY <1>7
  <2>2. /\ UNCHANGED <<spec, edits, bdc, cspi, poolName, imported, poolRO, comp, full, worker, faults>>
        /\ \E to \in {"running", "done"} : scan' = [scan EXCEPT ![x[2]] = to]
        /\ UNCHANGED <<members, swap>> \/ (members' = members \ {x[1]} /\ swap' = swap \ {x})
    BY <2>1, Zenon DEF Resilver, users
  <2>3. ZpoolOK'
    <3>1. x[2] \in BD
      BY <2>1, TypeParts DEF ZpoolOK
    <3>2. scan' \in [BD -> {"none", "started", "running", "done"}]
      BY <2>2, <3>1, TypeParts, Zenon DEF ZpoolOK
    <3> QED
      BY <2>2, <3>2, TypeParts, Zenon DEF ZpoolOK
  <2>4. CountOK'
    BY <2>2, FaultType DEF NoFault
  <2> QED
    BY <2>2, <2>3, <2>4, WorkerAlone, Alone, TypeParts, SMTT(30)
<1> QED
  BY <1>1, <1>2, <1>3, <1>4, <1>5, <1>6, <1>7, Zenon

(* The loop over the devices. *)
LEMMA QuietLoop ==
  ASSUME LoopInv, Quiet
  PROVE  LoopInv'
<1>1. CASE at' \notin {"device"} \cup Cleaning /\ todo' = {}
  BY <1>1, Zenon DEF Quiet, LoopInv
<1>2. CASE UNCHANGED <<at, w, listed, todo, cur>>
  BY <1>2, Zenon DEF Quiet, LoopInv, Held
<1> QED
  BY <1>1, <1>2, Zenon DEF Quiet

LEMMA LoopStep ==
  ASSUME TypeOK, PhaseInv, LoopInv, [Next]_vars
  PROVE  TypeOK' /\ PhaseInv' /\ LoopInv'
<1>1. CASE \/ Reconcile \/ AddPoolProtectionFinalizer \/ Import \/ CheckImportable \/ ZpoolImport
           \/ Create \/ MarkLost
  BY <1>1, TypeStart, QuietLoop
<1>2. CASE CreatePool \/ AddOtherGroups \/ UndoCreate \/ DestroyPool
  <2>1. TypeOK' /\ PhaseInv'
    BY <1>2, TypeCreate
  <2>2. CASE CreatePool
    <3>1. /\ at = "zcreate" /\ UNCHANGED <<cspi, todo>> /\ at' \in {"zadd", "undo"} /\ w' = w
          /\ (fresh' => fresh)
      BY <2>2, Zenon DEF CreatePool, Goto, loop
    <3> QED
      BY <2>1, <3>1, Zenon DEF LoopInv, Held, Cleaning
  <2>3. CASE AddOtherGroups
    <3>1. at = "zadd" /\ UNCHANGED <<cspi, todo, w, fresh>> /\ at' \in {"list", "undo"}
      BY <2>3, Zenon DEF AddOtherGroups, loop
    <3> QED
      BY <2>1, <3>1, Zenon DEF LoopInv, Held, Cleaning
  <2>4. CASE UndoCreate \/ DestroyPool
    <3>1. UNCHANGED <<cspi, loop, edits>> /\ at \in {"undo", "delete"}
          /\ (Delete("idle", "idle") \/ Delete("release", "delfailed"))
      BY <2>4 DEF UndoCreate, DestroyPool, users
    <3>2. {"idle", "release", "delfailed"} \subseteq Places
      BY DEF Places
    <3>3. at' \in {"idle", "release", "delfailed"} /\ (at' # "idle" => w' = w)
          /\ (fresh' => fresh /\ at' # "idle")
      BY <3>1, <3>2, DeleteType, Zenon
    <3> QED
      BY <2>1, <3>1, <3>3, Zenon DEF LoopInv, Held, Cleaning, loop
  <2> QED
    BY <1>2, <2>1, <2>2, <2>3, <2>4
<1>3. CASE ListClaims
  <2>1. CASE Quiet
    BY <1>3, <2>1, ListStep, QuietLoop
  <2>2. CASE /\ at' = "device" /\ w' = w /\ (fresh' => fresh) /\ todo' = Devices(w.groups)
             /\ UNCHANGED cspi
    <3>1. TypeOK' /\ PhaseInv'
      BY <1>3, ListStep
    <3> QED
      BY <2>2, <3>1, Zenon DEF LoopInv, Held, Cleaning
  <2> QED
    BY <1>3, <2>1, <2>2, ListStep, Zenon
<1>4. CASE UpdateDevice
  <2>1. /\ PassOK' /\ LoopOK' /\ ZpoolOK' /\ CountOK'
        /\ UNCHANGED <<users, bdc, cspi, full, listed>> /\ w'.groups = w.groups /\ (fresh' => fresh)
        /\ at = "device" /\ at' \in {"device", "resilver", "unfinalize"}
        /\ \E d \in todo : todo' = todo \ {d} /\ (at' # "device" => cur' = d /\ listed[d].mark # NoBD)
    BY <1>4, DeviceStep, Zenon
  <2>2. TypeOK'
    BY <2>1, Alone, TypeParts, Zenon DEF users
  <2>3. PhaseInv'
    BY <2>1, Zenon DEF PhaseInv, Starting
  <2>4. LoopInv'
    BY <2>1, Zenon DEF LoopInv, Held, Cleaning
  <2> QED
    BY <2>2, <2>3, <2>4
<1>5. CASE CheckResilver \/ RemoveClaimFinalizer \/ UnclaimPredecessor \/ RemoveMark
  <2>1. /\ PassOK' /\ LoopOK' /\ CountOK' /\ UserOK' /\ w' = w /\ (fresh' => fresh)
        /\ UNCHANGED <<cspi, zpool, listed, todo>>
        /\ (at' = "device" \/ (at' \in {"unfinalize", "unclaim", "unmark"} /\ cur' = cur)) 
    BY <1>5, CleaningStep, Zenon
  <2>2. TypeOK'
    BY <2>1, Alone, TypeParts, SMTT(30)
  <2>3. PhaseInv'
    BY <2>1, Zenon DEF PhaseInv, Starting
  <2>4. at \in Cleaning
    BY <1>5, Zenon DEF CheckResilver, RemoveClaimFinalizer, UnclaimPredecessor, RemoveMark, Cleaning
  <2>5. LoopInv'
    BY <2>1, <2>4, Zenon DEF LoopInv, Held, Cleaning
  <2> QED
    BY <2>2, <2>3, <2>5
<1>6. CASE \/ RecordReplacement \/ RecordExpansion \/ UpdateStatus \/ WriteStatus \/ SetPoolProperties
           \/ RemoveFinalizer \/ MarkDeletionFailed
  BY <1>6, TypeAfter, QuietLoop
<1>7. CASE UpdateNewVdevFromCSPI
  <2>1. TypeOK' /\ PhaseInv' /\ Growth
    BY <1>7, ExpandStep
  <2> QED
    BY <2>1, Zenon DEF Growth, LoopInv
<1>8. CASE DeleteCSPI \/ SetCompression \/ UsePool \/ ContainerRestarts \/ ManagerRestarts
  BY <1>8, TypeBystanders, QuietLoop
<1>9. CASE \/ ReplaceDevice \/ ExpandPool \/ ReplaceExistingBlockDevice \/ ClaimAdded \/ ExpandCSPI
           \/ (\E d \in BD : BindClaim(d)) \/ (\E x \in swap : Resilver(x))
  <2>1. TypeOK' /\ PhaseInv' /\ UNCHANGED <<at, w, listed, todo, cur>> /\ (fresh' => fresh /\ UNCHANGED cspi)
    BY <1>9, TypeEdits
  <2> QED
    BY <2>1, Zenon DEF LoopInv, Held
<1>10. CASE UNCHANGED vars
  <2>1. TypeOK'
    <3>1. UNCHANGED <<users, bdc, cspi, full, zpool, worker, faults>>
      BY <1>10, Zenon DEF vars
    <3>2. PassOK' /\ LoopOK'
      BY <3>1, WorkerAlone, Zenon
    <3>3. ZpoolOK' /\ CSPIOK' /\ UserOK'
      BY <3>1, Alone, Zenon DEF users
    <3>4. CountOK'
      BY <3>1, TypeParts, Zenon DEF CountOK, users
    <3> QED
      BY <3>2, <3>3, <3>4, TypeParts, Zenon
  <2> QED
    BY <1>10, <2>1, Zenon DEF vars, worker, loop, PhaseInv, LoopInv, Held
<1> QED
  BY <1>1, <1>2, <1>3, <1>4, <1>5, <1>6, <1>7, <1>8, <1>9, <1>10, Zenon DEF Next, Work

LEMMA InitType == Init => TypeOK /\ PhaseInv /\ LoopInv
<1> SUFFICES ASSUME Init PROVE TypeOK /\ PhaseInv /\ LoopInv
  OBVIOUS
<1>1. PICK old \in Migrated :
        /\ cspi = NewCSPI(old)
        /\ poolName = IF old THEN "old" ELSE "none"
        /\ members = IF old THEN Devices(spec) ELSE {}
  BY DEF Init
<1>2. old \in BOOLEAN /\ NoCopy \in CSPIs /\ cspi \in CSPIs /\ cspi.life = "live"
  BY <1>1, NewType, PoolAssumption, Zenon DEF NoCopy
<1>3. NoClaim \in Claims /\ [NoClaim EXCEPT !.st = "held"] \in Claims
  BY DEF NoClaim, Claims
<1>4. spec \subseteq SUBSET BD /\ members \subseteq BD
  BY <1>1, PoolAssumption DEF Init, Devices
<1>5. bdc \in [BD -> Claims] /\ listed \in [BD -> Claims]
  BY <1>3 DEF Init
<1>6. PassOK /\ LoopOK /\ UserOK
  BY <1>2, <1>4, <1>5, Zenon DEF Init, PassOK, LoopOK, UserOK, Places, Cleaning
<1>7. ZpoolOK /\ CountOK /\ CSPIOK
  <2>1. poolName \in {"none", "old", "new"}
    BY <1>1
  <2>2. ZpoolOK
    BY <1>4, <2>1, Zenon DEF Init, ZpoolOK
  <2>3. CountOK
    BY PoolAssumption DEF Init, CountOK
  <2>4. CSPIOK
    BY <1>2 DEF CSPIOK
  <2> QED
    BY <2>2, <2>3, <2>4
<1>8. TypeOK
  BY <1>6, <1>7, TypeParts
<1> QED
  BY <1>8 DEF Init, PhaseInv, LoopInv, Starting, Cleaning

(* The shape of the state holds, whatever users do and whatever fails; the phase that the       *)
(* worker of cspi-controller has read stays that of the CSPI until the pool is there, and it    *)
(* goes through the devices of its own copy.                                                    *)
THEOREM TypeCorrect == Spec => [](TypeOK /\ PhaseInv /\ LoopInv)
<1>1. Init => TypeOK /\ PhaseInv /\ LoopInv
  BY InitType
<1>2. TypeOK /\ PhaseInv /\ LoopInv /\ [Next]_vars => TypeOK' /\ PhaseInv' /\ LoopInv'
  BY LoopStep
<1> QED
  BY <1>1, <1>2, PTL DEF Spec

(* A pool that was reported is not destroyed unless its CSPI is deleted: the worker that        *)
(* undoes a creation has seen an empty phase, which only it could have written since.           *)
THEOREM Kept == Spec => ReportedPoolKept
<1> DEFINE Safe == poolName = "new" /\ cspi.phase # "" /\ poolName' # "new" => cspi.life = "deleting"
<1>1. ASSUME TypeOK, PhaseInv, [Next]_vars
      PROVE  Safe
  <2>1. CASE UndoCreate
    BY <1>1, <2>1, Zenon DEF UndoCreate, PhaseInv, Starting
  <2>2. CASE DestroyPool
    BY <1>1, <2>2, Zenon DEF DestroyPool, PhaseInv
  <2>3. CASE CreatePool
    BY <2>3, Zenon DEF CreatePool, zpool
  <2>4. CASE ZpoolImport
    BY <2>4, Zenon DEF ZpoolImport
  <2>5. CASE UNCHANGED poolName
    BY <2>5, Zenon
  <2>6. \/ UndoCreate \/ DestroyPool \/ CreatePool \/ ZpoolImport \/ UNCHANGED poolName
    <3>1. CASE \/ Reconcile \/ AddPoolProtectionFinalizer \/ Import \/ CheckImportable \/ Create
               \/ AddOtherGroups \/ MarkLost \/ ListClaims \/ CheckResilver
               \/ RemoveClaimFinalizer \/ UnclaimPredecessor \/ RemoveMark
      BY <3>1, Zenon
      DEF Reconcile, AddPoolProtectionFinalizer, Import, CheckImportable, Create, AddOtherGroups,
                  MarkLost, ListClaims, CheckResilver, RemoveClaimFinalizer, UnclaimPredecessor,
                  RemoveMark, zpool
    <3>2. CASE UpdateDevice
      BY <3>2, Zenon DEF UpdateDevice, zpool
    <3>3. CASE \/ RecordReplacement \/ UpdateNewVdevFromCSPI \/ RecordExpansion
               \/ UpdateStatus \/ WriteStatus \/ SetPoolProperties \/ RemoveFinalizer \/ MarkDeletionFailed
      BY <3>3, Zenon
      DEF RecordReplacement, UpdateNewVdevFromCSPI, RecordExpansion, UpdateStatus, WriteStatus,
                  SetPoolProperties, RemoveFinalizer, MarkDeletionFailed, zpool
    <3>4. CASE \/ ReplaceDevice \/ ExpandPool \/ DeleteCSPI \/ SetCompression \/ UsePool
               \/ ReplaceExistingBlockDevice \/ ClaimAdded \/ ExpandCSPI
      BY <3>4, Zenon DEF ReplaceDevice, ExpandPool, DeleteCSPI, SetCompression, UsePool,
                  ReplaceExistingBlockDevice, ClaimAdded, ExpandCSPI, zpool
    <3>5. CASE \/ (\E d \in BD : BindClaim(d)) \/ (\E x \in swap : Resilver(x))
               \/ ContainerRestarts \/ ManagerRestarts
      BY <3>5, Zenon DEF BindClaim, Resilver, ContainerRestarts, ManagerRestarts, zpool
    <3>6. CASE UNCHANGED vars
      BY <3>6 DEF vars, zpool
    <3> QED
      BY <1>1, <3>1, <3>2, <3>3, <3>4, <3>5, <3>6, Zenon DEF Next, Work
  <2> QED
    BY <2>1, <2>2, <2>3, <2>4, <2>5, <2>6, Zenon
<1>2. TypeOK /\ PhaseInv /\ [Next]_vars => [Safe]_vars
  BY <1>1, Zenon
<1> QED
  BY <1>2, TypeCorrect, PTL DEF Spec, ReportedPoolKept
=============================================================================

------------------------ MODULE PoolReplacementProofs ------------------------
(***************************************************************************)
(* Theorems about the replacement of a pool's devices in PoolInstance, for *)
(* any devices and raid groups and any number of edits and faults.  They   *)
(* assume that a resilver that has begun shows, that no vdev is found by   *)
(* an empty path, and that an edit the webhook has let pass is stored.     *)
(***************************************************************************)
EXTENDS PoolInstanceProofs

(* Replacements are stored once they are let through, and seen once begun. *)
Orderly == ~ScanLag /\ ~BlankVdev /\ "reject" \notin EditKinds

Marked(d) == bdc[d].mark # NoBD

(***************************************************************************)
(* The raid groups of the CSPC, and the marks: a marked claim is that of a *)
(* device in the CSPC, in place of one that is no longer there, and there  *)
(* is one replacement per raid group at a time.                            *)
(***************************************************************************)
SpecInv ==
  /\ spec # {}
  /\ \A g, h \in spec : g # h => g \cap h = {}
  /\ \A g \in spec : \E a, b \in g : a # b

MarkInv ==
  /\ \A d \in BD : Marked(d) =>
       d \in Devices(spec) /\ bdc[d].mark \notin Devices(spec) /\ bdc[d].st # "none"
  /\ \A d, e \in BD : Marked(d) /\ bdc[e].mark = bdc[d].mark => d = e
  /\ \A g \in spec : \A d, e \in g : Marked(d) /\ Marked(e) => d = e
  /\ \A o \in BD : bdc[o].st = "open" => \E d \in BD : bdc[d].mark = o

(***************************************************************************)
(* The CSPI, and the worker's copy of it, lag behind the CSPC by no more   *)
(* than the replacement that is marked, and by raid groups to come.        *)
(***************************************************************************)
Undone(g, d) == (g \ {d}) \cup {bdc[d].mark}

Follows(groups) ==
  \A c \in groups : \E g \in spec :
    c = g \/ \E d \in g : Marked(d) /\ d \notin Devices(groups) /\ c = Undone(g, d)

GroupInv ==
  /\ Follows(cspi.groups)
  /\ Follows(Held)
  /\ \A d \in Devices(Held) : Marked(d) => d \in Devices(cspi.groups)

(* What is in the pool or on the CSPI has a claim that holds it. *)
ClaimInv ==
  \A d \in members \cup Devices(cspi.groups) \cup Devices(Held) : bdc[d].st \in {"new", "held"}

(***************************************************************************)
(* The pool has raid groups as a whole, but for the replacement under way; *)
(* what it has from elsewhere is being replaced.                           *)
(***************************************************************************)
Whole(g) == g \subseteq members \/ g \cap members = {}

Swapped(g, d) ==
  \/ g \ {d} \subseteq members /\ (d \in members \/ bdc[d].mark \in members)
  \/ g \cap members = {} /\ bdc[d].mark \notin members

MemberInv ==
  /\ \A m \in members : m \in Devices(spec) \/ \E d \in BD : bdc[d].mark = m
  /\ \A g \in spec : (\E d \in g : Marked(d)) \/ Whole(g)
  /\ \A g \in spec : \A d \in g : Marked(d) => Swapped(g, d)
  /\ \A d \in members : Marked(d) /\ bdc[d].mark \in members => <<bdc[d].mark, d>> \in swap

SwapInv ==
  \A x \in swap : /\ x[1] \in members /\ x[2] \in members
                  /\ bdc[x[2]].mark = x[1] /\ x[2] \in Devices(cspi.groups)
                  /\ scan[x[2]] \in {"started", "running"}

(* The claims the worker has listed, where it still acts on them. *)
Current(d) ==
  listed[d].mark # NoBD =>
    /\ bdc[d].mark = listed[d].mark
    /\ listed[listed[d].mark].st = "none" => bdc[listed[d].mark].st = "none"

ListInv ==
  /\ \A d \in todo : Current(d)
  /\ at \in Cleaning => Current(cur)
  /\ at \in Cleaning \ {"resilver"} => cur \in members /\ \A x \in swap : x[2] # cur
  /\ at = "unmark" => bdc[listed[cur].mark].st = "none"

(* A replacement is at no time ahead of the CSPI, or of its claims. *)
ReplaceInv ==
  /\ SpecInv /\ MarkInv /\ GroupInv /\ ClaimInv /\ MemberInv /\ SwapInv /\ ListInv

(* The devices of a stripe are never replaced. *)
StripeInv ==
  /\ \A d \in BD : ~Marked(d)
  /\ \A d \in todo : listed[d].mark = NoBD
  /\ swap = {} /\ at \notin Cleaning

-----------------------------------------------------------------------------
(* What the invariant says of one raid group, or of one device.            *)

LEMMA DevicesType ==
  ASSUME TypeOK
  PROVE  /\ members \subseteq BD /\ Devices(cspi.groups) \subseteq BD /\ Devices(Held) \subseteq BD
         /\ \A g \in spec : g \subseteq BD
BY Zenon DEF TypeOK, CSPIs, Devices, Held

(* A device is in one raid group of the CSPC. *)
LEMMA OneGroup ==
  ASSUME SpecInv, NEW g \in spec, NEW h \in spec, NEW x \in g, x \in h
  PROVE  g = h
BY DEF SpecInv

(* A raid group of the CSPC has another device. *)
LEMMA OtherOne ==
  ASSUME SpecInv, NEW g \in spec, NEW d
  PROVE  \E x \in g : x # d
<1>1. PICK a, b \in g : a # b
  BY Zenon DEF SpecInv
<1> QED
  BY <1>1, Zenon

(* A resilver is that of a marked device and of the one that it replaces. *)
LEMMA SwapType ==
  ASSUME TypeOK, SwapInv, NEW x \in swap
  PROVE  x[1] \in BD /\ x[2] \in BD /\ x = <<x[1], x[2]>> /\ bdc[x[2]].mark = x[1] /\ Marked(x[2])
<1>1. x \in BD \X BD
  BY Zenon DEF TypeOK
<1>2. x[1] \in BD /\ x[2] \in BD /\ x = <<x[1], x[2]>>
  BY <1>1
<1>3. bdc[x[2]].mark = x[1]
  BY Zenon DEF SwapInv
<1> QED
  BY <1>2, <1>3, PoolAssumption, Zenon DEF Marked

LEMMA MarkType ==
  ASSUME TypeOK, MarkInv, NEW d \in BD, Marked(d)
  PROVE  /\ bdc[d].mark \in BD /\ bdc[d].mark # d /\ ~Marked(bdc[d].mark)
         /\ d \in Devices(spec) /\ bdc[d].mark \notin Devices(spec)
         /\ \A g \in spec : bdc[d].mark \notin g
BY DEF TypeOK, Claims, MarkInv, Marked, Devices

(* The raid groups that follow the CSPC have its devices, and those that are being replaced. *)
LEMMA FollowsIn ==
  ASSUME NEW groups, Follows(groups), NEW x \in Devices(groups)
  PROVE  x \in Devices(spec) \/ \E g \in spec : \E d \in g : Marked(d) /\ x = bdc[d].mark
BY DEF Follows, Undone, Devices

(* They do not have both a device and the one that it replaces. *)
LEMMA FollowsOut ==
  ASSUME TypeOK, MarkInv, NEW groups, Follows(groups), NEW d \in BD, Marked(d), d \in Devices(groups)
  PROVE  bdc[d].mark \notin Devices(groups)
<1> SUFFICES ASSUME NEW c \in groups, bdc[d].mark \in c
             PROVE  FALSE
  BY DEF Devices
<1>1. \A g \in spec : bdc[d].mark \notin g
  BY MarkType
<1>2. PICK g \in spec : c = g \/ \E e \in g : Marked(e) /\ e \notin Devices(groups) /\ c = Undone(g, e)
  BY DEF Follows
<1>3. PICK e \in g : Marked(e) /\ e \notin Devices(groups) /\ bdc[e].mark = bdc[d].mark
  BY <1>1, <1>2 DEF Undone
<1>4. e \in BD
  BY DEF TypeOK
<1> QED
  BY <1>3, <1>4 DEF MarkInv

(* One that shares a device with a raid group of the CSPC is that one, or lags behind it. *)
LEMMA FollowsAt ==
  ASSUME TypeOK, SpecInv, MarkInv, NEW groups, Follows(groups), NEW c \in groups, NEW g \in spec, NEW x \in c,
         x \in g
  PROVE  c = g \/ \E d \in g : Marked(d) /\ d \notin Devices(groups) /\ c = Undone(g, d)
<1>1. PICK h \in spec : c = h \/ \E d \in h : Marked(d) /\ d \notin Devices(groups) /\ c = Undone(h, d)
  BY DEF Follows
<1>2. x \in h
  <2>1. ASSUME NEW d \in h, Marked(d), c = Undone(h, d)
        PROVE  x \in h
    <3>1. d \in BD
      BY DEF TypeOK
    <3> QED
      BY <2>1, <3>1, MarkType DEF Undone
  <2> QED
    BY <1>1, <2>1
<1> QED
  BY <1>1, <1>2, OneGroup

(* One that has a device that is being replaced lags behind the raid group of its successor. *)
LEMMA FollowsMark ==
  ASSUME TypeOK, SpecInv, MarkInv, NEW groups, Follows(groups), NEW c \in groups, NEW g \in spec, NEW d \in g,
         Marked(d), bdc[d].mark \in c
  PROVE  d \notin Devices(groups) /\ c = Undone(g, d)
<1>1. PICK h \in spec : c = h \/ \E e \in h : Marked(e) /\ e \notin Devices(groups) /\ c = Undone(h, e)
  BY DEF Follows
<1>2. d \in BD
  BY DEF TypeOK
<1>3. \A k \in spec : bdc[d].mark \notin k
  BY <1>2, MarkType
<1>4. PICK e \in h : Marked(e) /\ e \notin Devices(groups) /\ c = Undone(h, e) /\ bdc[e].mark = bdc[d].mark
  BY <1>1, <1>3 DEF Undone
<1>5. e = d
  BY <1>2, <1>4 DEF MarkInv, TypeOK
<1> QED
  BY <1>4, <1>5, OneGroup

(* What is neither in the CSPC nor being replaced is nowhere. *)
LEMMA Stranger ==
  ASSUME TypeOK, MarkInv, GroupInv, MemberInv, NEW n \in BD, n \notin Devices(spec), IsBDValid(n)
  PROVE  /\ n \notin members /\ n \notin Devices(cspi.groups) /\ n \notin Devices(Held)
         /\ ~Marked(n) /\ bdc[n].st # "open" /\ \A d \in BD : bdc[d].mark # n
<1>1. \A d \in BD : bdc[d].mark # n
  BY PoolAssumption DEF MarkInv, Marked, IsBDValid, Predecessors
<1>2. \A g \in spec : \A d \in g : bdc[d].mark # n
  BY <1>1 DEF TypeOK
<1> QED
  BY <1>1, <1>2, FollowsIn DEF GroupInv, MemberInv, MarkInv

-----------------------------------------------------------------------------
(* The worker, up to the devices                                           *)

(* The layout and the claims are left alone, and the pool takes devices of the worker's copy only. *)
LEMMA LayoutKept ==
  ASSUME SpecInv, MarkInv, GroupInv, ClaimInv, UNCHANGED <<spec, bdc>>, cspi'.groups = cspi.groups,
         Held' \in {{}, Held, cspi.groups}, members' \subseteq members \cup Devices(Held)
  PROVE  SpecInv' /\ MarkInv' /\ GroupInv' /\ ClaimInv'
<1>1. SpecInv' /\ MarkInv'
  BY DEF SpecInv, MarkInv, Marked
<1>2. Devices(Held)' \in {{}, Devices(Held), Devices(cspi.groups)}
  BY DEF Devices
<1>3. Devices(cspi.groups)' = Devices(cspi.groups)
  BY DEF Devices
<1>4. Follows(cspi.groups)' /\ Follows(Held)'
  <2>1. \A d : (Marked(d))' <=> Marked(d)
    BY DEF Marked
  <2>2. \A g, d : Undone(g, d)' = Undone(g, d)
    BY DEF Undone
  <2>3. Follows(cspi.groups)'
    BY <1>3, <2>1, <2>2 DEF GroupInv, Follows
  <2>4. Follows(Held)'
    BY <1>3, <2>1, <2>2 DEF GroupInv, Follows, Devices
  <2> QED
    BY <2>3, <2>4
<1>5. GroupInv'
  BY <1>2, <1>3, <1>4 DEF GroupInv, Marked
<1>6. ClaimInv'
  BY <1>2, <1>3 DEF ClaimInv
<1> QED
  BY <1>1, <1>5, <1>6

LEMMA QuietReplace ==
  ASSUME ReplaceInv, Quiet
  PROVE  ReplaceInv'
<1>1. SpecInv' /\ MarkInv' /\ GroupInv' /\ ClaimInv'
  BY LayoutKept DEF ReplaceInv, Quiet
<1>2. MemberInv'
  BY DEF ReplaceInv, Quiet, MemberInv, Marked, Whole, Swapped
<1>3. SwapInv'
  BY DEF ReplaceInv, Quiet, SwapInv, Devices
<1>4. ListInv'
  <2>1. CASE at' \notin {"device"} \cup Cleaning /\ todo' = {}
    BY <2>1 DEF ListInv, Cleaning
  <2>2. CASE UNCHANGED <<at, w, listed, todo, cur>>
    BY <2>2, Zenon DEF ReplaceInv, Quiet, ListInv, Current
  <2> QED
    BY <2>1, <2>2 DEF Quiet
<1> QED
  BY <1>1, <1>2, <1>3, <1>4 DEF ReplaceInv

(* The pool is created of one raid group of the worker's copy. *)
LEMMA CreateReplace ==
  ASSUME TypeOK, LoopInv, ReplaceInv, CreatePool
  PROVE  ReplaceInv'
<1>1. /\ UNCHANGED <<spec, bdc, cspi>> /\ at = "zcreate" /\ at' \in {"zadd", "undo"} /\ w' = w /\ todo' = {}
      /\ (fresh' => fresh)
  BY Zenon DEF CreatePool, users, loop, Goto, LoopInv, Cleaning
<1>2. Held' = Held /\ Held = w.groups
  BY <1>1 DEF Held
<1>3. ListInv'
  BY <1>1 DEF ListInv, Cleaning
<1>4. CASE UNCHANGED zpool
  <2>1. Quiet
    BY <1>1, <1>2, <1>4 DEF Quiet, zpool, LoopInv, Cleaning
  <2> QED
    BY <2>1, QuietReplace
<1>5. CASE swap' = {} /\ \E c \in w.groups : members' = c
  <2>1. PICK c \in Held : members' = c
    BY <1>2, <1>5
  <2>2. SpecInv' /\ MarkInv' /\ GroupInv' /\ ClaimInv'
    <3>1. members' \subseteq members \cup Devices(Held) /\ Held' \in {{}, Held, cspi.groups}
      BY <1>2, <2>1 DEF Devices
    <3> QED
      BY <1>1, <3>1, LayoutKept DEF ReplaceInv
  <2>3. PICK g \in spec : c = g \/ \E d \in g : Marked(d) /\ d \notin Devices(Held) /\ c = Undone(g, d)
    BY <2>1 DEF ReplaceInv, GroupInv, Follows
  <2>4. MemberInv'
    <3>b. \A h \in spec : h \subseteq BD
      BY DEF TypeOK
    <3>m. \A h, k \in spec : \A e \in k : Marked(e) => bdc[e].mark \notin h
      BY <3>b, MarkType DEF ReplaceInv
    <3>o. \A h \in spec : h = g \/ h \cap g = {}
      BY DEF ReplaceInv, SpecInv
    <3>1. CASE c = g
      <4>1. \A m \in c : m \in Devices(spec)
        BY <3>1 DEF Devices
      <4>2. \A h \in spec : h \subseteq c \/ h \cap c = {}
        BY <3>1, <3>o
      <4>3. \A d \in BD : Marked(d) => bdc[d].mark \notin c
        BY <3>1, MarkType DEF ReplaceInv
      <4>4. \A h \in spec : \A d \in h : Marked(d) =>
              (h \ {d} \subseteq c /\ d \in c) \/ (h \cap c = {} /\ bdc[d].mark \notin c)
        BY <3>b, <4>2, <4>3
      <4> QED
        BY <1>1, <2>1, <3>b, <3>1, <4>1, <4>2, <4>3, <4>4 DEF MemberInv, Marked, Whole, Swapped
    <3>2. ASSUME NEW d \in g, Marked(d), c = Undone(g, d)
          PROVE  MemberInv'
      <4>0. d \in BD /\ c = (g \ {d}) \cup {bdc[d].mark}
        BY <3>b, <3>2 DEF Undone
      <4>1. \A m \in c : m \in Devices(spec) \/ \E e \in BD : bdc[e].mark = m
        BY <4>0 DEF Devices
      <4>2. \A h \in spec : h # g => h \cap c = {}
        BY <3>2, <3>m, <3>o, <4>0
      <4>3. \A h \in spec : \A e \in h : Marked(e) =>
              (h \ {e} \subseteq c /\ bdc[e].mark \in c) \/ (h \cap c = {} /\ bdc[e].mark \notin c)
        <5> SUFFICES ASSUME NEW h \in spec, NEW e \in h, Marked(e)
                     PROVE  (h \ {e} \subseteq c /\ bdc[e].mark \in c) \/ (h \cap c = {} /\ bdc[e].mark \notin c)
          OBVIOUS
        <5>1. CASE h = g
          BY <3>2, <4>0, <5>1 DEF ReplaceInv, MarkInv
        <5>2. CASE h # g
          <6>1. e # d
            BY <3>o, <5>2
          <6>2. bdc[e].mark # bdc[d].mark /\ bdc[e].mark \notin g
            BY <3>2, <3>b, <3>m, <4>0, <6>1 DEF ReplaceInv, MarkInv
          <6> QED
            BY <4>0, <4>2, <5>2, <6>2
        <5> QED
          BY <5>1, <5>2
      <4>4. \A e \in c : ~Marked(e)
        BY <3>2, <4>0, MarkType DEF ReplaceInv, MarkInv
      <4> QED
        BY <1>1, <2>1, <3>2, <4>0, <4>1, <4>2, <4>3, <4>4 DEF MemberInv, Marked, Whole, Swapped
    <3> QED
      BY <2>3, <3>1, <3>2
  <2>5. SwapInv'
    BY <1>5 DEF SwapInv
  <2> QED
    BY <1>3, <2>2, <2>4, <2>5 DEF ReplaceInv
<1> QED
  BY <1>4, <1>5, Zenon DEF CreatePool

LEMMA OtherGroups ==
  ASSUME TypeOK, LoopInv, ~Striped, AddOtherGroups
  PROVE  Growth /\ at # "idle"
<1>1. /\ UNCHANGED <<spec, bdc, cspi, swap, scan, w, fresh>> /\ at = "zadd" /\ at' \in {"list", "undo"} /\ todo' = {}
  BY Zenon DEF AddOtherGroups, users, loop, LoopInv, Cleaning
<1>2. NewVdevs = {g \in w.groups : g \cap members = {}}
  BY DEF NewVdevs
<1>3. \E some \in SUBSET NewVdevs : members' = members \cup UNION some
  <2>1. CASE \E failed \in BOOLEAN : AddRaidGroups(NewVdevs, failed)
    BY <2>1 DEF AddRaidGroups
  <2>2. CASE UNCHANGED members
    <3>1. {} \in SUBSET NewVdevs /\ members = members \cup UNION {}
      OBVIOUS
    <3> QED
      BY <2>2, <3>1, Zenon
  <2> QED
    BY <1>2, <2>1, <2>2, Zenon DEF AddOtherGroups
<1> QED
  BY <1>1, <1>3 DEF Growth, Held, LoopInv, Cleaning

(* Whole raid groups of the worker's copy are added to the pool. *)
LEMMA GrowthReplace ==
  ASSUME TypeOK, ~Striped, ReplaceInv, Growth, at # "idle"
  PROVE  ReplaceInv'
<1> USE DEF ReplaceInv
<1>1. PICK some \in SUBSET NewVdevs : members' = members \cup UNION some
  BY DEF Growth
<1>2. Held = w.groups /\ UNCHANGED <<spec, bdc, cspi, swap, scan>> /\ Held' \in {{}, Held}
  BY DEF Growth, Held
<1>3. \A c \in some : c \in Held /\ c \cap members = {}
  BY <1>2 DEF NewVdevs
<1>4. SpecInv' /\ MarkInv' /\ GroupInv' /\ ClaimInv'
  <2>1. members' \subseteq members \cup Devices(Held)
    BY <1>1, <1>3 DEF Devices
  <2> QED
    BY <1>2, <2>1, LayoutKept
<1>5. SwapInv'
  BY <1>1, <1>2 DEF SwapInv, Devices
<1>6. ListInv'
  BY Zenon DEF Growth, ListInv, Cleaning
<1>b. \A h \in spec : h \subseteq BD
  BY DEF TypeOK
<1>f. Follows(Held)
  BY DEF GroupInv
(* What is added of a raid group of the CSPC, and of the device being replaced in it *)
<1>7. ASSUME NEW h \in spec, NEW c \in some, NEW x \in c, x \in h
      PROVE  c = h \/ \E d \in h : Marked(d) /\ d \notin Devices(Held) /\ c = Undone(h, d)
  BY <1>3, <1>7, <1>f, FollowsAt
<1>8. ASSUME NEW h \in spec, NEW d \in h, Marked(d), NEW c \in some, bdc[d].mark \in c
      PROVE  d \notin Devices(Held) /\ c = Undone(h, d)
  BY <1>3, <1>8, <1>f, FollowsMark
<1>9. \A m \in members' : m \in Devices(spec) \/ \E d \in BD : bdc[d].mark = m
  <2> SUFFICES ASSUME NEW c \in some, NEW m \in c
               PROVE  m \in Devices(spec) \/ \E d \in BD : bdc[d].mark = m
    BY <1>1 DEF MemberInv
  <2>1. m \in Devices(Held)
    BY <1>3 DEF Devices
  <2> QED
    BY <1>b, <1>f, <2>1, FollowsIn
<1>10. \A h \in spec : (\E d \in h : Marked(d)) \/ h \subseteq members' \/ h \cap members' = {}
  <2> SUFFICES ASSUME NEW h \in spec, \A d \in h : ~Marked(d)
               PROVE  h \subseteq members' \/ h \cap members' = {}
    OBVIOUS
  <2>1. \A c \in some : c = h \/ c \cap h = {}
    BY <1>7
  <2>2. h \subseteq members \/ h \cap members = {}
    BY DEF MemberInv, Whole
  <2> QED
    BY <1>1, <2>1, <2>2
<1>11. ASSUME NEW h \in spec, NEW d \in h, Marked(d)
       PROVE  \/ h \ {d} \subseteq members' /\ (d \in members' \/ bdc[d].mark \in members')
              \/ h \cap members' = {} /\ bdc[d].mark \notin members'
  <2>1. CASE \E c \in some : c \cap h # {} \/ bdc[d].mark \in c
    <3>1. PICK c \in some : c \cap h # {} \/ bdc[d].mark \in c
      BY <2>1
    <3>2. c = h \/ c = Undone(h, d)
      BY <1>7, <1>8, <1>11, <3>1 DEF MarkInv
    <3>3. c \subseteq members'
      BY <1>1
    <3> QED
      BY <3>2, <3>3 DEF Undone
  <2>2. CASE \A c \in some : c \cap h = {} /\ bdc[d].mark \notin c
    <3>1. Swapped(h, d)
      BY <1>11, Zenon DEF MemberInv
    <3> QED
      BY <1>1, <2>2, <3>1 DEF Swapped
  <2> QED
    BY <2>1, <2>2
<1>12. ASSUME NEW d \in members', Marked(d), bdc[d].mark \in members'
       PROVE  <<bdc[d].mark, d>> \in swap
  <2>1. d \in BD
    BY <1>1, <1>2, <1>3, ZenonT(60) DEF TypeOK, CSPIs
  <2>2. PICK h \in spec : d \in h
    BY <1>12, <2>1, Zenon DEF MarkInv, Devices
  <2>3. bdc[d].mark \notin h /\ bdc[d].mark # d
    BY <1>12, <2>1, MarkType
  <2>4. h \ {d} # {}
    BY DEF SpecInv
  <2>5. Swapped(h, d)
    BY <1>12, <2>2, Zenon DEF MemberInv
  <2>6. ASSUME NEW c \in some, d \in c
        PROVE  c = h
    <3> SUFFICES ASSUME NEW e \in h, Marked(e), c = Undone(h, e), e \notin Devices(Held) PROVE FALSE
      BY <1>7, <2>2, <2>6
    <3>1. e = d
      BY <1>12, <2>2, Zenon DEF MarkInv
    <3> QED
      BY <2>3, <2>6, <3>1 DEF Undone
  <2>7. d \in members
    <3> SUFFICES ASSUME d \notin members PROVE FALSE
      OBVIOUS
    <3>1. PICK c \in some : d \in c
      BY <1>1
    <3>2. h \cap members = {} /\ c = h
      BY <1>3, <2>6, <3>1
    <3>3. bdc[d].mark \notin members
      BY <2>4, <2>5, <3>2 DEF Swapped
    <3>4. PICK e \in some : bdc[d].mark \in e
      BY <1>1, <1>12, <3>3
    <3>5. d \notin Devices(Held)
      BY <1>8, <1>12, <2>2, <3>4, Zenon
    <3> QED
      BY <1>3, <3>1, <3>5 DEF Devices
  <2>8. bdc[d].mark \in members
    <3> SUFFICES ASSUME bdc[d].mark \notin members PROVE FALSE
      OBVIOUS
    <3>1. PICK c \in some : bdc[d].mark \in c
      BY <1>1, <1>12
    <3>2. c = Undone(h, d) /\ c \cap members = {}
      BY <1>3, <1>8, <1>12, <2>2, <3>1
    <3> QED
      BY <2>2, <2>4, <2>5, <2>7, <3>2 DEF Swapped, Undone
  <2> QED
    BY <1>12, <2>7, <2>8 DEF MemberInv
<1>13. MemberInv'
  BY <1>2, <1>9, <1>10, <1>11, <1>12, Zenon DEF MemberInv, Marked, Whole, Swapped
<1> QED
  BY <1>4, <1>5, <1>6, <1>13

(* The pool is destroyed, or is not. *)
LEMMA DestroyReplace ==
  ASSUME TypeOK, LoopInv, ReplaceInv, UndoCreate \/ DestroyPool
  PROVE  ReplaceInv'
<1>1. /\ UNCHANGED <<spec, bdc, cspi, loop, edits>> /\ at \in {"undo", "delete"}
      /\ (Delete("idle", "idle") \/ Delete("release", "delfailed"))
  BY DEF UndoCreate, DestroyPool, users
<1>2. /\ at' \in {"idle", "release", "delfailed"} /\ (at' # "idle" => w' = w)
      /\ (fresh' => fresh /\ at' # "idle")
      /\ UNCHANGED <<members, swap, scan>> \/ (members' = {} /\ swap' = {})
  <2>1. {"idle", "release", "delfailed"} \subseteq Places
    BY DEF Places
  <2> QED
    BY <1>1, <2>1, DeleteType
<1>3. todo' = {} /\ Held' \in {{}, Held, cspi.groups} /\ at' \notin {"device"} \cup Cleaning
  BY <1>1, <1>2, Zenon DEF loop, LoopInv, Held, Cleaning
<1>4. CASE UNCHANGED <<members, swap, scan>>
  <2>1. Quiet
    BY <1>1, <1>2, <1>3, <1>4, Zenon DEF Quiet, LoopInv
  <2> QED
    BY <2>1, QuietReplace
<1>5. CASE members' = {} /\ swap' = {}
  <2>1. SpecInv' /\ MarkInv' /\ GroupInv' /\ ClaimInv'
    BY <1>1, <1>3, <1>5, LayoutKept, Zenon DEF ReplaceInv
  <2>2. MemberInv' /\ SwapInv' /\ ListInv'
    BY <1>3, <1>5, Zenon DEF MemberInv, SwapInv, ListInv, Whole, Swapped, Cleaning
  <2> QED
    BY <2>1, <2>2 DEF ReplaceInv
<1> QED
  BY <1>2, <1>4, <1>5

-----------------------------------------------------------------------------
(* The worker, with the devices                                            *)

LEMMA ListReplace ==
  ASSUME TypeOK, PhaseInv, LoopInv, ReplaceInv, ListClaims
  PROVE  ReplaceInv'
<1>1. CASE Quiet
  BY <1>1, QuietReplace
<1>2. CASE /\ at' = "device" /\ w' = w /\ listed' = bdc /\ UNCHANGED <<spec, bdc, cspi, members, swap, scan>>
  <2>1. Held' = Held
    BY <1>2 DEF Held, ListClaims
  <2>2. SpecInv' /\ MarkInv' /\ GroupInv' /\ ClaimInv'
    BY <1>2, <2>1, LayoutKept, Zenon DEF ReplaceInv
  <2>3. MemberInv' /\ SwapInv'
    BY <1>2, Zenon DEF ReplaceInv, MemberInv, SwapInv, Marked, Whole, Swapped, Devices
  <2>4. ListInv'
    BY <1>2, Zenon DEF ListInv, Current, Cleaning
  <2> QED
    BY <2>2, <2>3, <2>4 DEF ReplaceInv
<1> QED
  BY <1>1, <1>2, ListStep

(* A device takes the place of the one its claim names: the CSPI has it already. *)
LEMMA DeviceReplace ==
  ASSUME TypeOK, LoopInv, ReplaceInv, Orderly, UpdateDevice
  PROVE  ReplaceInv'
<1> USE DEF ReplaceInv
<1>1. PICK d \in todo :
        /\ todo' = todo \ {d} /\ (at' # "device" => cur' = d /\ listed[d].mark # NoBD)
        /\ UNCHANGED <<members, swap, scan>> \/ Replaces(listed[d].mark, d)
  BY DeviceStep, Zenon
<1>2. /\ UNCHANGED <<spec, bdc, cspi, listed>> /\ w'.groups = w.groups
      /\ at = "device" /\ at' \in {"device", "resilver"}
  BY DeviceStep, Zenon DEF users, Orderly
<1>3. d \in BD /\ d \in Devices(Held) /\ Held' = Held
  BY <1>2, Zenon DEF TypeOK, LoopInv, Held
<1>4. ListInv'
  <2>1. \A e : Current(e)' <=> Current(e)
    BY <1>2, Zenon DEF Current
  <2>2. (\A e \in todo' : Current(e)') /\ Current(d)'
    BY <1>1, <2>1, Zenon DEF ListInv
  <2> QED
    BY <1>1, <1>2, <2>2, Zenon DEF ListInv, Cleaning
<1>5. SpecInv' /\ MarkInv' /\ GroupInv' /\ ClaimInv'
  <2>1. members' \subseteq members \cup Devices(Held)
    BY <1>1, <1>3 DEF Replaces
  <2> QED
    BY <1>2, <1>3, <2>1, LayoutKept, Zenon
<1>6. CASE UNCHANGED <<members, swap, scan>>
  <2>1. MemberInv' /\ SwapInv'
    BY <1>2, <1>6 DEF MemberInv, SwapInv, Marked, Whole, Swapped, Devices
  <2> QED
    BY <1>4, <1>5, <2>1
<1>7. CASE Replaces(listed[d].mark, d)
  <2> DEFINE old == bdc[d].mark
  <2>1. listed[d].mark = old /\ Marked(d) /\ Replaces(old, d)
    <3>1. listed[d].mark # NoBD
      BY <1>7, PoolAssumption DEF Replaces, TypeOK
    <3> QED
      BY <1>1, <1>7, <3>1, Zenon DEF ListInv, Current, Marked
  <2>2. d \in Devices(spec) /\ d \in Devices(cspi.groups) /\ \A e \in BD : Marked(e) => bdc[e].mark # d
    BY <1>3, <2>1, MarkType, Zenon DEF GroupInv
  <2>3. members' = members \cup {d} /\ swap' = swap \cup {<<old, d>>} /\ scan' = [scan EXCEPT ![d] = "started"]
        /\ d \notin members /\ old \in members
    BY <2>1, Zenon DEF Replaces
  <2> HIDE DEF old
  <2>4. SwapInv'
    <3> SUFFICES ASSUME NEW x \in swap'
                 PROVE  /\ x[1] \in members' /\ x[2] \in members' /\ bdc[x[2]].mark = x[1]
                        /\ x[2] \in Devices(cspi.groups) /\ scan'[x[2]] \in {"started", "running"}
      BY <1>2, Zenon DEF SwapInv, Devices
    <3>1. CASE x = <<old, d>>
      BY <1>3, <2>2, <2>3, <3>1, Zenon DEF old, TypeOK
    <3>2. CASE x \in swap
      BY <1>3, <2>3, <3>2, Zenon DEF SwapInv, TypeOK
    <3> QED
      BY <2>3, <3>1, <3>2, Zenon
  <2>5. MemberInv'
    <3>b. \A h \in spec : h \subseteq BD
      BY Zenon DEF TypeOK
    <3>1. \A m \in members' : m \in Devices(spec) \/ \E e \in BD : bdc[e].mark = m
      BY <2>2, <2>3, Zenon DEF MemberInv
    <3>2. \A h \in spec : (\E e \in h : Marked(e)) \/ h \subseteq members' \/ h \cap members' = {}
      BY <2>1, <2>3 DEF MemberInv, Whole
    <3>3. ASSUME NEW h \in spec, NEW e \in h, Marked(e)
          PROVE  \/ h \ {e} \subseteq members' /\ (e \in members' \/ bdc[e].mark \in members')
                 \/ h \cap members' = {} /\ bdc[e].mark \notin members'
      <4>1. Swapped(h, e)
        BY <3>3, Zenon DEF MemberInv
      <4>2. CASE e = d
        BY <2>3, <4>1, <4>2, Zenon DEF Swapped, old
      <4>3. CASE e # d
        <5>1. d \notin h /\ bdc[e].mark # d
          BY <2>1, <2>2, <3>b, <3>3, <4>3, Zenon DEF MarkInv
        <5> QED
          BY <2>3, <4>1, <5>1, Zenon DEF Swapped
      <4> QED
        BY <4>2, <4>3
    <3>4. ASSUME NEW e \in members', Marked(e), bdc[e].mark \in members'
          PROVE  <<bdc[e].mark, e>> \in swap'
      <4>1. e \in BD
        BY <1>3, <2>3, Zenon DEF TypeOK
      <4>2. bdc[e].mark \in members
        BY <2>2, <2>3, <3>4, <4>1, Zenon
      <4>3. CASE e = d
        BY <2>3, <4>3 DEF old
      <4>4. CASE e # d
        BY <2>3, <3>4, <4>2, <4>4, Zenon DEF MemberInv
      <4> QED
        BY <4>3, <4>4
    <3> QED
      BY <1>2, <3>1, <3>2, <3>3, <3>4, Zenon DEF MemberInv, Marked, Whole, Swapped
  <2> QED
    BY <1>4, <1>5, <2>4, <2>5
<1> QED
  BY <1>1, <1>6, <1>7

(* Claims change, but no mark: only what is said of the claims' states is to be seen to. *)
LEMMA MarksKept ==
  ASSUME TypeOK, ReplaceInv, UNCHANGED <<spec, cspi, members, swap, scan>>, Held' = Held,
         \A d \in BD : bdc'[d].mark = bdc[d].mark
  PROVE  SpecInv' /\ GroupInv' /\ MemberInv' /\ SwapInv'
<1> USE DEF ReplaceInv
<1>1. SpecInv'
  BY DEF SpecInv
<1>2. \A g \in spec : g \subseteq BD
  BY Zenon DEF TypeOK
<1>3. \A d \in BD : Marked(d)' <=> Marked(d)
  BY DEF Marked
<1>4. \A g \in spec : \A d \in g : Undone(g, d)' = Undone(g, d)
  BY <1>2, Zenon DEF Undone
<1>5. Devices(Held)' = Devices(Held) /\ Devices(cspi.groups)' = Devices(cspi.groups) /\ Devices(Held) \subseteq BD
  BY Zenon DEF Devices, Held, TypeOK, CSPIs
<1>6. GroupInv'
  <2>1. Follows(cspi.groups)'
    BY <1>2, <1>3, <1>4, <1>5 DEF GroupInv, Follows
  <2>2. Follows(Held)'
    BY <1>2, <1>3, <1>4, <1>5 DEF GroupInv, Follows
  <2> QED
    BY <1>3, <1>5, <2>1, <2>2, Zenon DEF GroupInv
<1>7. MemberInv'
  <2>1. \A g \in spec : \A d \in g : Swapped(g, d)' <=> Swapped(g, d)
    BY <1>2, Zenon DEF Swapped
  <2>2. \A d \in members : d \in BD
    BY Zenon DEF TypeOK
  <2>3. \A m \in members : m \in Devices(spec)' \/ \E d \in BD : bdc'[d].mark = m
    BY Zenon DEF MemberInv, Devices
  <2>4. \A g \in spec : (\E d \in g : Marked(d)') \/ Whole(g)'
    BY <1>2, <1>3, Zenon DEF MemberInv, Whole
  <2>5. \A g \in spec : \A d \in g : Marked(d)' => Swapped(g, d)'
    BY <1>2, <1>3, <2>1, Zenon DEF MemberInv
  <2>6. \A d \in members : Marked(d)' /\ bdc'[d].mark \in members => <<bdc'[d].mark, d>> \in swap
    BY <1>3, <2>2, Zenon DEF MemberInv
  <2> QED
    BY <2>3, <2>4, <2>5, <2>6, Zenon DEF MemberInv
<1>8. SwapInv'
  <2>1. \A x \in swap : x[2] \in BD
    BY Zenon DEF TypeOK
  <2> QED
    BY <1>5, <2>1, Zenon DEF SwapInv
<1> QED
  BY <1>1, <1>6, <1>7, <1>8, Zenon

(* The device whose replacement is being finished. *)
LEMMA CurrentOne ==
  ASSUME TypeOK, LoopInv, ReplaceInv, at \in Cleaning
  PROVE  LET old == listed[cur].mark IN
         /\ cur \in BD /\ cur \notin todo /\ cur \in Devices(Held) /\ Marked(cur) /\ bdc[cur].mark = old /\ old \in BD
         /\ cur \in Devices(cspi.groups)
         /\ ~Marked(old) /\ old # cur
         /\ \A d \in BD : bdc[d].mark = old => d = cur
         /\ at # "resilver" => /\ cur \in members /\ old \notin members
                              /\ old \notin Devices(cspi.groups) /\ old \notin Devices(Held)
<1> USE DEF ReplaceInv
<1> DEFINE old == listed[cur].mark
<1>1. cur \in BD /\ cur \notin todo /\ cur \in Devices(Held) /\ Marked(cur) /\ bdc[cur].mark = old
  BY Zenon DEF TypeOK, LoopInv, ListInv, Current, Marked, Held, Cleaning
<1>2. old \in BD /\ ~Marked(old) /\ old # cur /\ \A d \in BD : bdc[d].mark = old => d = cur
  BY <1>1, MarkType, Zenon DEF MarkInv
<1>3. cur \in Devices(cspi.groups) /\ Follows(cspi.groups) /\ Follows(Held)
  BY <1>1, Zenon DEF GroupInv
<1>4. old \notin Devices(cspi.groups) /\ old \notin Devices(Held)
  BY <1>1, <1>3, FollowsOut, Zenon
<1>5. at # "resilver" => cur \in members /\ old \notin members
  BY <1>1, Zenon DEF ListInv, MemberInv
<1> QED
  BY <1>1, <1>2, <1>3, <1>4, <1>5, Zenon

(* cleanUpReplacementMarks: the pool and the CSPI no longer have the predecessor. *)
LEMMA CleaningReplace ==
  ASSUME TypeOK, LoopInv, ReplaceInv, Orderly,
         CheckResilver \/ RemoveClaimFinalizer \/ UnclaimPredecessor \/ RemoveMark
  PROVE  ReplaceInv'
<1> USE DEF ReplaceInv
<1> DEFINE old == listed[cur].mark
<1>1. /\ UNCHANGED <<spec, cspi, members, swap, scan, listed, todo>> /\ w' = w /\ at \in Cleaning
      /\ at' \in {"device"} \cup Cleaning
  BY CleaningStep, Zenon
  DEF users, zpool, CheckResilver, RemoveClaimFinalizer, UnclaimPredecessor, RemoveMark, Cleaning
<1>2. Held' = Held
  BY <1>1 DEF Held, Cleaning
<1>3. /\ cur \in BD /\ cur \notin todo /\ cur \in Devices(Held) /\ Marked(cur) /\ bdc[cur].mark = old /\ old \in BD
      /\ cur \in Devices(cspi.groups) /\ ~Marked(old) /\ old # cur
      /\ \A d \in BD : bdc[d].mark = old => d = cur
      /\ at # "resilver" => /\ cur \in members /\ old \notin members
                           /\ old \notin Devices(cspi.groups) /\ old \notin Devices(Held)
  BY <1>1, CurrentOne, Zenon
<1>t. bdc \in [BD -> Claims] /\ todo \subseteq BD
  BY Zenon DEF TypeOK
<1>4. CASE bdc' = bdc
  <2>1. MarkInv' /\ ClaimInv'
    BY <1>1, <1>2, <1>4, LayoutKept, Zenon
  <2>2. SpecInv' /\ GroupInv' /\ MemberInv' /\ SwapInv'
    BY <1>1, <1>2, <1>4, MarksKept, Zenon
  <2>3. \A d : Current(d)' <=> Current(d)
    BY <1>1, <1>4, Zenon DEF Current
  <2>4. ListInv'
    <3>1. CASE at' = "device"
      BY <1>1, <2>3, <3>1, Zenon DEF ListInv, Cleaning
    <3>2. CASE at = "resilver" /\ at' = "unfinalize" /\ cur' = cur
               /\ cur \in members /\ (scan[cur] \in {"none", "done"} \/ ScanLag)
      BY <1>1, <2>3, <3>2, Zenon DEF ListInv, Cleaning, SwapInv, Orderly
    <3>3. CASE at = "unfinalize" /\ listed[old].st = "none" /\ at' = "unmark" /\ cur' = cur
      <4>1. bdc'[old].st = "none"
        BY <1>3, <1>4, <3>3, Zenon DEF ListInv, Current, Cleaning, Marked
      <4> QED
        BY <1>1, <2>3, <3>3, <4>1, Zenon DEF ListInv, Cleaning
    <3>4. CASE at = "unfinalize" /\ at' = "unclaim" /\ cur' = cur
      BY <1>1, <2>3, <3>4, Zenon DEF ListInv, Cleaning
    <3>5. CASE at = "unclaim" /\ at' = "unmark" /\ cur' = cur /\ bdc' = Unclaimed(old)
      <4>1. bdc'[old].st = "none"
        BY <1>3, <1>t, <3>5, Zenon DEF Unclaimed, NoClaim
      <4> QED
        BY <1>1, <2>3, <3>5, <4>1, Zenon DEF ListInv, Cleaning
    <3> QED
      BY <3>1, <3>2, <3>3, <3>4, <3>5, CleaningStep, Zenon
  <2> QED
    BY <2>1, <2>2, <2>4
<1>5. ASSUME at # "resilver", \A d \in BD \ {old} : bdc'[d] = bdc[d],
             bdc'[old].mark = NoBD, bdc'[old].st \in {"open", "none"}, at' \in {"unclaim", "unmark"}, cur' = cur,
             at' = "unclaim" => listed[old].st # "none",
             at' = "unmark" => bdc'[old].st = "none"
      PROVE  ReplaceInv'
  <2>1. \A d \in BD : bdc'[d].mark = bdc[d].mark
    BY <1>3, <1>5, Zenon DEF Marked
  <2>2. SpecInv' /\ GroupInv' /\ MemberInv' /\ SwapInv'
    BY <1>1, <1>2, <2>1, MarksKept, Zenon
  <2>3. MarkInv'
    <3>1. \A d \in BD : Marked(d)' <=> Marked(d)
      BY <2>1 DEF Marked
    <3>2. \A d \in BD : Marked(d) => d # old
      BY <1>3, Zenon
    <3>3. \A g \in spec : g \subseteq BD
      BY Zenon DEF TypeOK
    <3>4. \A d \in BD : Marked(d)' =>
            d \in Devices(spec)' /\ bdc'[d].mark \notin Devices(spec)' /\ bdc'[d].st # "none"
      BY <1>1, <1>5, <3>1, <3>2, Zenon DEF MarkInv, Devices
    <3>5. \A o \in BD : bdc'[o].st = "open" => \E d \in BD : bdc'[d].mark = o
      <4> SUFFICES ASSUME NEW o \in BD, bdc'[o].st = "open"
                   PROVE  \E d \in BD : bdc'[d].mark = o
        BY Zenon
      <4>1. CASE o = old
        BY <1>3, <2>1, <4>1, Zenon
      <4>2. CASE o # old
        <5>1. bdc[o].st = "open"
          BY <1>5, <4>2, Zenon
        <5> QED
          BY <2>1, <5>1, Zenon DEF MarkInv
      <4> QED
        BY <4>1, <4>2, Zenon
    <3>6. \A d, e \in BD : Marked(d)' /\ bdc'[e].mark = bdc'[d].mark => d = e
      <4> SUFFICES ASSUME NEW d \in BD, NEW e \in BD, Marked(d)', bdc'[e].mark = bdc'[d].mark
                   PROVE  d = e
        BY Zenon
      <4>1. Marked(d) /\ bdc[e].mark = bdc[d].mark
        BY <2>1, <3>1, Zenon
      <4> QED
        BY <4>1, Zenon DEF MarkInv
    <3>7. \A g \in spec : \A d, e \in g : Marked(d)' /\ Marked(e)' => d = e
      BY <3>1, <3>3, Zenon DEF MarkInv
    <3> QED
      BY <1>1, <3>4, <3>5, <3>6, <3>7, Zenon DEF MarkInv
  <2>4. ClaimInv'
    <3>1. members \cup Devices(cspi.groups) \cup Devices(Held) \subseteq BD \ {old}
      BY <1>3, <1>5, DevicesType, Zenon
    <3>2. members' = members /\ Devices(cspi.groups)' = Devices(cspi.groups) /\ Devices(Held)' = Devices(Held)
      BY <1>1, <1>2 DEF Devices
    <3> QED
      BY <1>5, <3>1, <3>2, Zenon DEF ClaimInv
  <2>5. ListInv'
    <3>1. ASSUME NEW d \in todo
          PROVE  Current(d)'
      <4>1. CASE listed[d].mark = NoBD
        BY <1>1, <4>1, Zenon DEF Current
      <4>2. CASE listed[d].mark # NoBD
        <5>1. d \in BD /\ Current(d) /\ bdc[d].mark = listed[d].mark /\ listed[d].mark \in BD
          BY <4>2, <1>t, Zenon DEF ListInv, Current, TypeOK, Claims
        <5>2. listed[d].mark # old
          BY <1>3, <5>1, Zenon
        <5> QED
          BY <1>1, <1>5, <2>1, <5>1, <5>2, Zenon DEF Current
      <4> QED
        BY <4>1, <4>2
    <3>2. Current(cur)'
      BY <1>1, <1>3, <1>5, <2>1, Zenon DEF Current
    <3> QED
      BY <1>1, <1>5, <3>1, <3>2, Zenon DEF ListInv, Cleaning
  <2> QED
    BY <2>2, <2>3, <2>4, <2>5
<1>6. CASE at = "unmark" /\ bdc' = Unmarked(cur) /\ at' = "device"
  <2>1. /\ \A d \in BD \ {cur} : bdc'[d] = bdc[d]
        /\ bdc'[cur].mark = NoBD /\ bdc'[cur].st = bdc[cur].st
    BY <1>3, <1>6, <1>t DEF Unmarked, Claims
  <2>2. /\ \A d \in BD : Marked(d)' <=> Marked(d) /\ d # cur
        /\ \A d \in BD : bdc'[d].st = bdc[d].st
        /\ \A d \in BD : d # cur => bdc'[d].mark = bdc[d].mark
    BY <1>3, <2>1, Zenon DEF Marked
  <2>3. /\ cur \in members /\ old \notin members
        /\ bdc[old].st = "none" /\ \A x \in swap : x[2] # cur
    BY <1>3, <1>6, Zenon DEF ListInv, Cleaning
  <2>4. Devices(spec)' = Devices(spec) /\ Devices(Held)' = Devices(Held) /\ Devices(cspi.groups)' = Devices(cspi.groups)
    BY <1>1, <1>2 DEF Devices
  <2>5. SpecInv'
    BY <1>1, Zenon DEF SpecInv
  <2>6. MarkInv'
    <3>1. \A d \in BD : Marked(d)' =>
            d \in Devices(spec)' /\ bdc'[d].mark \notin Devices(spec)' /\ bdc'[d].st # "none"
      BY <2>2, <2>4, Zenon DEF MarkInv
    <3>2. \A d, e \in BD : Marked(d)' /\ bdc'[e].mark = bdc'[d].mark => d = e
      <4> SUFFICES ASSUME NEW d \in BD, NEW e \in BD, Marked(d)', bdc'[e].mark = bdc'[d].mark
                   PROVE  d = e
        BY Zenon
      <4>1. Marked(d) /\ d # cur /\ bdc'[d].mark = bdc[d].mark /\ e # cur
        BY <1>3, <2>1, <2>2, Zenon DEF Marked
      <4> QED
        BY <2>2, <4>1, Zenon DEF MarkInv
    <3>3. \A g \in spec : \A d, e \in g : Marked(d)' /\ Marked(e)' => d = e
      BY <2>2, DevicesType, Zenon DEF MarkInv
    <3>4. \A o \in BD : bdc'[o].st = "open" => \E d \in BD : bdc'[d].mark = o
      <4> SUFFICES ASSUME NEW o \in BD, bdc'[o].st = "open"
                   PROVE  \E d \in BD : bdc'[d].mark = o
        BY Zenon
      <4>1. PICK d \in BD : bdc[d].mark = o
        BY <2>2, Zenon DEF MarkInv
      <4>2. d # cur
        BY <1>3, <2>2, <2>3, <4>1, Zenon
      <4> QED
        BY <2>2, <4>1, <4>2, Zenon
    <3> QED
      BY <1>1, <3>1, <3>2, <3>3, <3>4, Zenon DEF MarkInv
  <2>7. GroupInv'
    <3>1. ASSUME NEW groups, cur \in Devices(groups), Follows(groups)
          PROVE  \A c \in groups : \E g \in spec :
                   c = g \/ \E d \in g : Marked(d)' /\ d \notin Devices(groups) /\ c = Undone(g, d)'
      <4> SUFFICES ASSUME NEW c \in groups, NEW g \in spec, NEW d \in g,
                          Marked(d), d \notin Devices(groups), c = Undone(g, d)
                   PROVE  Marked(d)' /\ c = Undone(g, d)'
        BY <3>1, Zenon DEF Follows
      <4>1. d \in BD /\ d # cur
        BY <3>1, DevicesType, Zenon
      <4> QED
        BY <2>2, <4>1, Zenon DEF Undone
    <3>2. Follows(cspi.groups)'
      <4>1. Follows(cspi.groups)
        BY Zenon DEF GroupInv
      <4>2. \A c \in cspi.groups : \E g \in spec :
              c = g \/ \E d \in g : Marked(d)' /\ d \notin Devices(cspi.groups) /\ c = Undone(g, d)'
        BY <1>3, <3>1, <4>1, Zenon
      <4>3. spec' = spec /\ cspi'.groups = cspi.groups
        BY <1>1, Zenon
      <4> QED
        BY <2>4, <4>2, <4>3, Zenon DEF Follows
    <3>3. Follows(Held)'
      <4>1. Follows(Held)
        BY Zenon DEF GroupInv
      <4>2. \A c \in Held : \E g \in spec :
              c = g \/ \E d \in g : Marked(d)' /\ d \notin Devices(Held) /\ c = Undone(g, d)'
        BY <1>3, <3>1, <4>1, Zenon
      <4>3. spec' = spec
        BY <1>1, Zenon
      <4> QED
        BY <1>2, <2>4, <4>2, <4>3, Zenon DEF Follows
    <3> QED
      BY <2>2, <2>4, <3>2, <3>3, DevicesType, Zenon DEF GroupInv
  <2>8. ClaimInv'
    BY <1>1, <2>2, <2>4, DevicesType, Zenon DEF ClaimInv
  <2>9. MemberInv'
    <3>1. \A m \in members : m \in Devices(spec) \/ \E d \in BD : bdc'[d].mark = m
      <4> SUFFICES ASSUME NEW m \in members, m \notin Devices(spec)
                   PROVE  \E d \in BD : bdc'[d].mark = m
        OBVIOUS
      <4>1. PICK d \in BD : bdc[d].mark = m
        BY Zenon DEF MemberInv
      <4>2. d # cur
        BY <1>3, <2>3, <4>1, Zenon
      <4> QED
        BY <2>2, <4>1, <4>2, Zenon
    <3>2. \A g \in spec : (\E d \in g : Marked(d)') \/ Whole(g)
      <4> SUFFICES ASSUME NEW g \in spec, \A d \in g : ~Marked(d)'
                   PROVE  Whole(g)
        OBVIOUS
      <4>1. CASE cur \in g
        <5>1. Swapped(g, cur)
          BY <1>3, <4>1, Zenon DEF MemberInv
        <5> QED
          BY <2>3, <4>1, <5>1, Zenon DEF Swapped, Whole
      <4>2. CASE cur \notin g
        BY <2>2, <4>2, DevicesType, Zenon DEF MemberInv
      <4> QED
        BY <4>1, <4>2
    <3>3. \A g \in spec : \A d \in g : Marked(d)' => Swapped(g, d)'
      BY <1>1, <2>2, DevicesType, Zenon DEF MemberInv, Swapped
    <3>4. \A d \in members : Marked(d)' /\ bdc'[d].mark \in members => <<bdc'[d].mark, d>> \in swap
      BY <2>2, DevicesType, Zenon DEF MemberInv
    <3> QED
      BY <1>1, <2>4, <3>1, <3>2, <3>3, <3>4, Zenon DEF MemberInv, Whole
  <2>10. SwapInv'
    <3>1. \A x \in swap : x[2] \in BD
      BY Zenon DEF TypeOK
    <3> QED
      BY <1>1, <2>2, <2>3, <2>4, <3>1, Zenon DEF SwapInv
  <2>11. ListInv'
    <3>1. ASSUME NEW d \in todo
          PROVE  Current(d)'
      <4>1. d \in BD /\ d # cur /\ Current(d)
        BY <1>3, <1>t, Zenon DEF ListInv
      <4>2. listed[d].mark \in BD \cup {NoBD}
        BY <4>1, Zenon DEF TypeOK, Claims
      <4> QED
        BY <1>1, <2>2, <4>1, <4>2, Zenon DEF Current
    <3> QED
      BY <1>1, <1>6, <3>1, Zenon DEF ListInv, Cleaning
  <2> QED
    BY <2>5, <2>6, <2>7, <2>8, <2>9, <2>10, <2>11
<1>7. CASE bdc' = Opened(old) /\ at = "unfinalize" /\ listed[old].st # "none" /\ at' = "unclaim" /\ cur' = cur
  <2>1. /\ \A d \in BD \ {old} : bdc'[d] = bdc[d]
        /\ bdc'[old].mark = NoBD /\ bdc'[old].st = "open"
    BY <1>3, <1>7, <1>t, Zenon DEF Opened, Claims, Marked
  <2> QED
    BY <1>5, <1>7, <2>1, Zenon
<1>8. CASE bdc' = Unclaimed(old) /\ at = "unclaim" /\ at' = "unmark" /\ cur' = cur
  <2>1. /\ \A d \in BD \ {old} : bdc'[d] = bdc[d]
        /\ bdc'[old].mark = NoBD /\ bdc'[old].st = "none"
    BY <1>3, <1>8, <1>t, Zenon DEF Unclaimed, NoClaim
  <2> QED
    BY <1>5, <1>8, <2>1, Zenon
<1> QED
  BY <1>4, <1>6, <1>7, <1>8, CleaningStep, Zenon

-----------------------------------------------------------------------------
(* Users, the webhook and the CSPC operator                                *)

(* A device of a raid group is replaced in the CSPC, and the claim of the new one is marked. *)
LEMMA EditReplace ==
  ASSUME TypeOK, LoopInv, ReplaceInv, Orderly, ReplaceDevice
  PROVE  ReplaceInv'
<1> USE DEF ReplaceInv
<1>0. \A h \in spec : h \subseteq BD
  BY DevicesType
<1>1. PICK g \in spec, old \in BD, new \in BD :
        /\ old \in g /\ new \notin Devices(spec) /\ (\A d \in g : ~Marked(d)) /\ IsBDValid(new)
        /\ bdc' = ClaimBD(new, old) /\ spec' = (spec \ {g}) \cup {(g \ {old}) \cup {new}}
  BY <1>0, Zenon DEF ReplaceDevice, IsBDReplacementValid, IsExistingReplacementInProgress, Edit, Orderly, Marked
<1>2. UNCHANGED <<cspi, members, swap, scan, at, w, listed, todo, cur>>
  BY Zenon DEF ReplaceDevice, zpool, worker, loop
<1> DEFINE g1 == (g \ {old}) \cup {new}
<1>3. old \in BD /\ new # old /\ new \notin g /\ g1 \subseteq BD /\ old \in Devices(spec)
  BY <1>1, DevicesType, Zenon DEF Devices
<1>4. /\ bdc'[new].mark = old /\ bdc'[new].st \in {bdc[new].st, "new"} /\ bdc'[new].st # "none"
      /\ (bdc[new].st # "none" => bdc'[new].st = bdc[new].st)
      /\ \A d \in BD \ {new} : bdc'[d] = bdc[d]
  BY <1>1, <1>3 DEF ClaimBD, TypeOK, Claims
<1>5. /\ new \notin members /\ new \notin Devices(cspi.groups) /\ new \notin Devices(Held)
      /\ ~Marked(new) /\ bdc[new].st # "open" /\ \A d \in BD : bdc[d].mark # new
  BY <1>1, Stranger, Zenon
<1>6. /\ \A d \in BD : Marked(d)' <=> Marked(d) \/ d = new
      /\ \A d \in BD : d # new => bdc'[d].mark = bdc[d].mark
      /\ \A d \in BD : bdc[d].mark # old
  <2>1. \A d \in BD : bdc[d].mark # old
    BY <1>3, PoolAssumption DEF MarkInv, Marked
  <2> QED
    BY <1>3, <1>4, <2>1, PoolAssumption DEF Marked
<1>7. Devices(spec)' = (Devices(spec) \ {old}) \cup {new}
  <2>1. \A h \in spec : h # g => old \notin h
    BY <1>1, OneGroup
  <2>2. ASSUME NEW x
        PROVE  x \in Devices(spec)' <=> x \in (Devices(spec) \ {old}) \cup {new}
    <3>1. CASE x \in {old, new}
      BY <1>1, <1>3, <2>1, <3>1, ZenonT(60) DEF Devices
    <3>2. CASE x \notin {old, new}
      <4>1. x \in (g \ {old}) \cup {new} <=> x \in g
        BY <3>2
      <4> QED
        BY <1>1, <3>2, <4>1, Zenon DEF Devices
    <3> QED
      BY <3>1, <3>2, Zenon
  <2> QED
    BY <2>2
<1>8. \A h \in spec' : (h \in spec /\ h # g) \/ h = g1
  BY <1>1, Zenon
<1>9. Devices(cspi.groups)' = Devices(cspi.groups) /\ Held' = Held /\ Devices(Held)' = Devices(Held)
  BY <1>2, Zenon DEF Devices, Held
<1> HIDE DEF g1
<1>g. g1 = (g \ {old}) \cup {new} /\ g1' = g1 /\ g1 \in spec' /\ \A h \in spec : h # g => h \in spec'
  BY <1>1, Zenon DEF g1
<1>10. SpecInv'
  <2>1. ASSUME NEW h \in spec, h # g, NEW x \in h
        PROVE  x \notin g1
    <3>1. x \notin g
      BY <1>1, <2>1, OneGroup, Zenon
    <3>2. x # new
      BY <1>1, <2>1, Zenon DEF Devices
    <3> QED
      BY <1>g, <3>1, <3>2, Zenon
  <2>2. \A h, k \in spec' : h # k => h \cap k = {}
    <3> SUFFICES ASSUME NEW h \in spec', NEW k \in spec', h # k, NEW x \in h, x \in k
                 PROVE  FALSE
      BY Zenon
    <3>1. CASE h = g1 \/ k = g1
      BY <1>8, <2>1, <3>1, Zenon
    <3>2. CASE h \in spec /\ k \in spec
      BY <3>2, OneGroup, Zenon
    <3> QED
      BY <1>8, <3>1, <3>2, Zenon
  <2>3. \E a, b \in g1 : a # b
    <3>1. PICK a, b \in g : a # b
      BY DEF SpecInv
    <3> QED
      BY <1>3, <1>g, <3>1
  <2>4. \A h \in spec' : \E a, b \in h : a # b
    BY <1>8, <2>3 DEF SpecInv
  <2> QED
    BY <1>g, <2>2, <2>4, Zenon DEF SpecInv
<1>11. MarkInv'
  <2>1. \A d \in BD : Marked(d)' =>
          d \in Devices(spec)' /\ bdc'[d].mark \notin Devices(spec)' /\ bdc'[d].st # "none"
    <3> SUFFICES ASSUME NEW d \in BD, Marked(d)'
                 PROVE  d \in Devices(spec)' /\ bdc'[d].mark \notin Devices(spec)' /\ bdc'[d].st # "none"
      BY Zenon
    <3>1. CASE d = new
      BY <1>3, <1>4, <1>7, <3>1, Zenon
    <3>2. CASE d # new
      <4>1. Marked(d) /\ d # old
        BY <1>1, <1>6, <3>2, Zenon
      <4> QED
        BY <1>4, <1>5, <1>7, <3>2, <4>1, Zenon DEF MarkInv
    <3> QED
      BY <3>1, <3>2, Zenon
  <2>2. \A d, e \in BD : Marked(d)' /\ bdc'[e].mark = bdc'[d].mark => d = e
    <3> SUFFICES ASSUME NEW d \in BD, NEW e \in BD, Marked(d)', bdc'[e].mark = bdc'[d].mark
                 PROVE  d = e
      BY Zenon
    <3>1. CASE d = new
      BY <1>4, <1>6, <3>1, Zenon
    <3>2. CASE d # new
      <4>1. Marked(d) /\ bdc'[d].mark = bdc[d].mark /\ bdc[d].mark # old /\ e # new
        BY <1>4, <1>6, <3>2, Zenon
      <4> QED
        BY <1>6, <4>1, Zenon DEF MarkInv
    <3> QED
      BY <3>1, <3>2, Zenon
  <2>3. \A h \in spec' : \A d, e \in h : Marked(d)' /\ Marked(e)' => d = e
    <3> SUFFICES ASSUME NEW h \in spec', NEW d \in h, NEW e \in h, Marked(d)', Marked(e)'
                 PROVE  d = e
      BY Zenon
    <3>1. CASE h = g1
      BY <1>1, <1>3, <1>6, <1>g, <3>1, Zenon
    <3>2. CASE h \in spec /\ h # g
      <4>1. d \in BD /\ e \in BD /\ d # new /\ e # new
        BY <1>1, <3>2, DevicesType, Zenon DEF Devices
      <4> QED
        BY <1>6, <3>2, <4>1, Zenon DEF MarkInv
    <3> QED
      BY <1>8, <3>1, <3>2
  <2>4. \A o \in BD : bdc'[o].st = "open" => \E d \in BD : bdc'[d].mark = o
    <3> SUFFICES ASSUME NEW o \in BD, bdc'[o].st = "open"
                 PROVE  \E d \in BD : bdc'[d].mark = o
      BY Zenon
    <3>1. o # new
      BY <1>4, <1>5, Zenon
    <3>2. PICK d \in BD : bdc[d].mark = o
      BY <1>4, <3>1, Zenon DEF MarkInv
    <3>3. d # new
      BY <1>5, <3>2, PoolAssumption, Zenon DEF Marked
    <3> QED
      BY <1>6, <3>2, <3>3, Zenon
  <2> QED
    BY <2>1, <2>2, <2>3, <2>4, Zenon DEF MarkInv
<1>12. GroupInv'
  <2>1. ASSUME NEW groups, new \notin Devices(groups), Follows(groups)
        PROVE  \A c \in groups : \E h \in spec' :
                 c = h \/ \E d \in h : Marked(d)' /\ d \notin Devices(groups) /\ c = Undone(h, d)'
    <3> SUFFICES ASSUME NEW c \in groups
                 PROVE  \E h \in spec' :
                          c = h \/ \E d \in h : Marked(d)' /\ d \notin Devices(groups) /\ c = Undone(h, d)'
      BY Zenon
    <3>1. PICK h \in spec : c = h \/ \E d \in h : Marked(d) /\ d \notin Devices(groups) /\ c = Undone(h, d)
      BY <2>1, Zenon DEF Follows
    <3>2. CASE h = g
      <4>1. c = g
        BY <1>1, <3>1, <3>2, Zenon
      <4>2. Undone(g1, new)' = g
        <5>1. ((g \ {old}) \cup {new}) \ {new} = g \ {old} /\ (g \ {old}) \cup {old} = g
          BY <1>1, <1>3
        <5> QED
          BY <1>4, <1>g, <5>1, Zenon DEF Undone
      <4> QED
        BY <1>6, <1>g, <2>1, <4>1, <4>2, Zenon
    <3>3. CASE h # g
      <4>1. \A d \in h : Marked(d) => Marked(d)' /\ Undone(h, d)' = Undone(h, d)
        BY <1>5, <1>6, DevicesType, Zenon DEF Undone
      <4> QED
        BY <1>g, <3>1, <3>3, <4>1, Zenon
    <3> QED
      BY <3>2, <3>3, Zenon
  <2>2. Follows(cspi.groups)'
    <3>1. Follows(cspi.groups)
      BY Zenon DEF GroupInv
    <3>2. \A c \in cspi.groups : \E h \in spec' :
            c = h \/ \E d \in h : Marked(d)' /\ d \notin Devices(cspi.groups) /\ c = Undone(h, d)'
      BY <1>5, <2>1, <3>1, Zenon
    <3>3. cspi'.groups = cspi.groups
      BY <1>2, Zenon
    <3> QED
      BY <1>9, <3>2, <3>3, Zenon DEF Follows
  <2>3. Follows(Held)'
    <3>1. Follows(Held)
      BY Zenon DEF GroupInv
    <3>2. \A c \in Held : \E h \in spec' :
            c = h \/ \E d \in h : Marked(d)' /\ d \notin Devices(Held) /\ c = Undone(h, d)'
      BY <1>5, <2>1, <3>1, Zenon
    <3> QED
      BY <1>9, <3>2, Zenon DEF Follows
  <2> QED
    BY <1>5, <1>6, <1>9, <2>2, <2>3, DevicesType, Zenon DEF GroupInv
<1>13. ClaimInv'
  BY <1>2, <1>4, <1>5, <1>9, DevicesType, Zenon DEF ClaimInv
<1>14. MemberInv'
  <2>1. \A m \in members : m \in Devices(spec)' \/ \E d \in BD : bdc'[d].mark = m
    <3> SUFFICES ASSUME NEW m \in members, m \notin Devices(spec)', m # old
                 PROVE  \E d \in BD : bdc'[d].mark = m
      BY <1>4, Zenon
    <3>1. PICK d \in BD : bdc[d].mark = m
      BY <1>7, Zenon DEF MemberInv
    <3>2. d # new
      <4>1. m \in BD
        BY DevicesType, Zenon
      <4> QED
        BY <1>5, <3>1, <4>1, PoolAssumption, Zenon DEF Marked
    <3> QED
      BY <1>6, <3>1, <3>2, Zenon
  <2>2. \A h \in spec' : (\E d \in h : Marked(d)') \/ Whole(h)
    <3> SUFFICES ASSUME NEW h \in spec', h \in spec, h # g
                 PROVE  (\E d \in h : Marked(d)') \/ Whole(h)
      BY <1>6, <1>8, <1>g, Zenon
    <3> QED
      BY <1>6, DevicesType, Zenon DEF MemberInv
  <2>3. \A h \in spec' : \A d \in h : Marked(d)' => Swapped(h, d)'
    <3> SUFFICES ASSUME NEW h \in spec', NEW d \in h, Marked(d)'
                 PROVE  Swapped(h, d)'
      BY Zenon
    <3>1. CASE h = g1
      <4>1. d = new
        BY <1>1, <1>3, <1>6, <1>g, <3>1, Zenon
      <4>2. Whole(g)
        BY <1>1, Zenon DEF MemberInv
      <4> QED
        BY <1>1, <1>2, <1>4, <1>5, <1>g, <3>1, <4>1, <4>2, ZenonT(60) DEF Whole, Swapped
    <3>2. CASE h \in spec /\ h # g
      <4>1. d \in BD /\ d # new
        BY <1>1, <3>2, DevicesType, Zenon DEF Devices
      <4>2. Swapped(h, d)
        BY <1>6, <3>2, <4>1, Zenon DEF MemberInv
      <4> QED
        BY <1>2, <1>6, <4>1, <4>2, Zenon DEF Swapped
    <3> QED
      BY <1>8, <3>1, <3>2
  <2>4. \A d \in members : Marked(d)' /\ bdc'[d].mark \in members => <<bdc'[d].mark, d>> \in swap
    BY <1>5, <1>6, DevicesType, Zenon DEF MemberInv
  <2> QED
    BY <1>2, <2>1, <2>2, <2>3, <2>4, Zenon DEF MemberInv, Whole
<1>15. SwapInv'
  <2>1. \A x \in swap : x[2] \in BD
    BY Zenon DEF TypeOK
  <2> QED
    BY <1>2, <1>5, <1>6, <1>9, <2>1, Zenon DEF SwapInv
<1>16. ListInv'
  <2>1. ASSUME NEW d \in BD, d # new, Current(d)
        PROVE  Current(d)'
    <3>1. listed[d].mark # NoBD => listed[d].mark \in BD \ {new}
      BY <1>5, <2>1, Zenon DEF Current, TypeOK, Claims
    <3> QED
      BY <1>2, <1>4, <1>6, <2>1, <3>1, Zenon DEF Current
  <2>2. todo \subseteq Devices(Held) /\ (at \in Cleaning => cur \in Devices(Held) /\ listed[cur].mark # NoBD)
    BY Zenon DEF LoopInv, Held, Cleaning
  <2>3. \A d \in todo : Current(d)'
    BY <1>5, <2>1, <2>2, DevicesType, Zenon DEF ListInv
  <2>4. at \in Cleaning => cur \in BD /\ cur # new /\ Current(cur) /\ Current(cur)'
    <3>1. at \in Cleaning => cur \in BD /\ cur # new /\ Current(cur)
      BY <1>5, <2>2, DevicesType, Zenon DEF ListInv
    <3>2. at \in Cleaning => Current(cur)'
      BY <1>2, <2>1, <3>1, Zenon DEF Current
    <3> QED
      BY <3>1, <3>2
  <2>5. at = "unmark" => bdc'[listed[cur].mark].st = "none"
    <3> SUFFICES ASSUME at = "unmark"
                 PROVE  bdc'[listed[cur].mark].st = "none"
      BY Zenon
    <3>1. cur \in BD /\ bdc[cur].mark = listed[cur].mark /\ listed[cur].mark \in BD
      BY <2>2, <2>4, Zenon DEF Cleaning, Current, TypeOK, Claims
    <3>2. listed[cur].mark # new
      BY <1>5, <3>1, Zenon
    <3> QED
      BY <1>4, <3>1, <3>2, Zenon DEF ListInv
  <2> QED
    BY <1>2, <2>3, <2>4, <2>5, Zenon DEF ListInv
<1> QED
  BY <1>10, <1>11, <1>12, <1>13, <1>14, <1>15, <1>16

(* What the proofs need to know of the number of devices in a group. *)
Sizes ==
  \A g, h \in SUBSET BD : Cardinality(g) = Cardinality(h) /\ (\E d : h = {d}) => \E d : g = {d}

(* A raid group of as many devices as the others has more than one. *)
LEMMA Pair ==
  ASSUME Sizes, TypeOK, SpecInv, NEW s \in spec, NEW g \in SUBSET BD, Cardinality(s) = Cardinality(g), g # {}
  PROVE  \E a, b \in g : a # b
<1>1. s \in SUBSET BD
  BY Zenon DEF TypeOK
<1>2. PICK c \in g : TRUE
  OBVIOUS
<1> SUFFICES ASSUME g = {c}
             PROVE  FALSE
  BY <1>2
<1>3. \E d : s = {d}
  BY <1>1, Zenon DEF Sizes
<1> QED
  BY <1>3 DEF SpecInv

(* A raid group of devices that nobody uses is added to the CSPC. *)
LEMMA ExpandReplace ==
  ASSUME Sizes, TypeOK, ~Striped, ReplaceInv, ExpandPool
  PROVE  ReplaceInv'
<1> USE DEF ReplaceInv
<1>1. PICK g \in SUBSET (BD \ Devices(spec)) :
        /\ g # {} /\ (\A d \in g : IsBDValid(d)) /\ spec' = spec \cup {g}
        /\ \A s \in spec : Cardinality(s) = Cardinality(g)
  BY Zenon DEF ExpandPool
<1>2. UNCHANGED <<bdc, cspi, members, swap, scan, at, w, listed, todo, cur>>
  BY Zenon DEF ExpandPool, zpool, worker, loop
<1>3. ASSUME NEW n \in g
      PROVE  n \in BD /\ n \notin members /\ ~Marked(n) /\ \A d \in BD : bdc[d].mark # n
  BY <1>1, Stranger, Zenon
<1>4. Devices(spec)' = Devices(spec) \cup g
  BY <1>1 DEF Devices
<1>5. \A h \in spec : h \cap g = {}
  BY <1>1 DEF Devices
<1>6. SpecInv'
  <2>1. \E a, b \in g : a # b
    BY <1>1, Pair DEF SpecInv
  <2> QED
    BY <1>1, <1>5, <2>1 DEF SpecInv
<1>7. \A d : Marked(d)' <=> Marked(d)
  BY <1>2 DEF Marked
<1>8. MarkInv'
  <2>1. \A d \in BD : Marked(d)' =>
          d \in Devices(spec)' /\ bdc'[d].mark \notin Devices(spec)' /\ bdc'[d].st # "none"
    BY <1>2, <1>3, <1>4, <1>7, Zenon DEF MarkInv
  <2>2. \A h \in spec' : \A d, e \in h : Marked(d)' /\ Marked(e)' => d = e
    <3> SUFFICES ASSUME NEW h \in spec', NEW d \in h, NEW e \in h, Marked(d), Marked(e)
                 PROVE  d = e
      BY <1>7, Zenon
    <3>1. CASE h = g
      BY <1>3, <3>1, Zenon
    <3>2. CASE h \in spec
      BY <3>2, Zenon DEF MarkInv
    <3> QED
      BY <1>1, <3>1, <3>2, Zenon
  <2> QED
    BY <1>2, <1>7, <2>1, <2>2, Zenon DEF MarkInv
<1>9. GroupInv'
  <2>1. Follows(cspi.groups)' /\ Follows(Held)'
    <3>1. /\ cspi'.groups = cspi.groups /\ Devices(cspi.groups)' = Devices(cspi.groups)
          /\ Held' = Held /\ Devices(Held)' = Devices(Held)
          /\ \A h, d : Undone(h, d)' = Undone(h, d)
      BY <1>2, Zenon DEF Devices, Held, Undone
    <3>2. ASSUME NEW groups, Follows(groups)
          PROVE  \A c \in groups : \E h \in spec' :
                   c = h \/ \E d \in h : Marked(d)' /\ d \notin Devices(groups) /\ c = Undone(h, d)'
      <4> SUFFICES ASSUME NEW c \in groups
                   PROVE  \E h \in spec' :
                            c = h \/ \E d \in h : Marked(d)' /\ d \notin Devices(groups) /\ c = Undone(h, d)'
        BY Zenon
      <4>1. PICK h \in spec : c = h \/ \E d \in h : Marked(d) /\ d \notin Devices(groups) /\ c = Undone(h, d)
        BY <3>2, Zenon DEF Follows
      <4>2. h \in spec'
        BY <1>1, Zenon
      <4> QED
        BY <1>7, <3>1, <4>1, <4>2, Zenon
    <3>3. Follows(cspi.groups) /\ Follows(Held)
      BY Zenon DEF GroupInv
    <3>4. Follows(cspi.groups)'
      <4>1. \A c \in cspi.groups : \E h \in spec' :
              c = h \/ \E d \in h : Marked(d)' /\ d \notin Devices(cspi.groups) /\ c = Undone(h, d)'
        BY <3>2, <3>3, Zenon
      <4> QED
        BY <3>1, <4>1, Zenon DEF Follows
    <3>5. Follows(Held)'
      <4>1. \A c \in Held : \E h \in spec' :
              c = h \/ \E d \in h : Marked(d)' /\ d \notin Devices(Held) /\ c = Undone(h, d)'
        BY <3>2, <3>3, Zenon
      <4> QED
        BY <3>1, <4>1, Zenon DEF Follows
    <3> QED
      BY <3>4, <3>5, Zenon
  <2> QED
    BY <1>2, <2>1, Zenon DEF GroupInv, Marked, Held, Devices
<1>10. ClaimInv'
  BY <1>2, Zenon DEF ClaimInv, Held, Devices
<1>11. MemberInv'
  <2>1. Whole(g) /\ \A d \in g : ~Marked(d)
    BY <1>3, Zenon DEF Whole
  <2>2. \A h : Whole(h)' <=> Whole(h)
    BY <1>2 DEF Whole
  <2>3. \A h, d : Swapped(h, d)' <=> Swapped(h, d)
    BY <1>2, Zenon DEF Swapped
  <2> QED
    BY <1>1, <1>2, <1>4, <1>7, <2>1, <2>2, <2>3, Zenon DEF MemberInv
<1>12. SwapInv' /\ ListInv'
  BY <1>2, Zenon DEF SwapInv, ListInv, Current, Devices
<1> QED
  BY <1>6, <1>8, <1>9, <1>10, <1>11, <1>12

(* The raid groups the worker holds are the same, and none of theirs is out of line. *)
LEMMA HeldFollows ==
  ASSUME spec' = spec, Held' = Held, Devices(Held)' = Devices(Held),
         \A c \in Held : \E g \in spec :
           c = g \/ \E d \in g : Marked(d)' /\ d \notin Devices(Held) /\ c = Undone(g, d)'
  PROVE  Follows(Held)'
BY Zenon DEF Follows

(* The CSPI alone is written, by somebody other than the worker. *)
LEMMA CSPIReplace ==
  ASSUME TypeOK, ReplaceInv, UNCHANGED <<spec, bdc, members, swap, scan, at, w, listed, todo, cur>>,
         Follows(cspi.groups)', \A d \in BD : Marked(d) /\ d \in Devices(cspi.groups) => d \in Devices(cspi.groups)',
         \A d \in Devices(cspi.groups)' : bdc[d].st \in {"new", "held"}
  PROVE  ReplaceInv'
<1> USE DEF ReplaceInv
<1>1. Held' = Held /\ Devices(Held)' = Devices(Held) /\ \A d : Marked(d)' <=> Marked(d)
  BY Zenon DEF Held, Devices, Marked
<1>2. SpecInv' /\ MarkInv' /\ ListInv'
  BY Zenon DEF SpecInv, MarkInv, ListInv, Current, Marked, Devices
<1>3. GroupInv'
  <2>1. Follows(Held)'
    <3>1. \A g, d : Undone(g, d)' = Undone(g, d)
      BY Zenon DEF Undone
    <3>2. \A c \in Held : \E g \in spec :
            c = g \/ \E d \in g : Marked(d)' /\ d \notin Devices(Held) /\ c = Undone(g, d)'
      <4> SUFFICES ASSUME NEW c \in Held
                   PROVE  \E g \in spec :
                            c = g \/ \E d \in g : Marked(d)' /\ d \notin Devices(Held) /\ c = Undone(g, d)'
        BY Zenon
      <4>1. PICK g \in spec : c = g \/ \E d \in g : Marked(d) /\ d \notin Devices(Held) /\ c = Undone(g, d)
        BY Zenon DEF GroupInv, Follows
      <4> QED
        BY <1>1, <3>1, <4>1, Zenon
    <3>3. spec' = spec /\ Held' = Held /\ Devices(Held)' = Devices(Held)
      BY <1>1, Zenon
    <3> QED
      BY <3>2, <3>3, HeldFollows, Zenon
  <2> QED
    BY <1>1, <2>1, DevicesType, Zenon DEF GroupInv
<1>4. ClaimInv'
  BY <1>1, Zenon DEF ClaimInv
<1>5. MemberInv'
  BY Zenon DEF MemberInv, Marked, Whole, Swapped, Devices
<1>6. SwapInv'
  <2>1. \A x \in swap : x[2] \in BD /\ Marked(x[2])
    BY SwapType, Zenon
  <2> QED
    BY <2>1, Zenon DEF SwapInv
<1> QED
  BY <1>2, <1>3, <1>4, <1>5, <1>6, Zenon

(* The raid groups of the CSPI after such a write, one by one. *)
LEMMA FollowsThen ==
  ASSUME UNCHANGED <<spec, bdc>>,
         \A h \in cspi'.groups : \E k \in spec :
           h = k \/ \E e \in k : Marked(e) /\ e \notin Devices(cspi.groups)' /\ h = Undone(k, e)
  PROVE  Follows(cspi.groups)'
<1>1. \A k, e : Undone(k, e)' = Undone(k, e) /\ (Marked(e)' <=> Marked(e))
  BY Zenon DEF Undone, Marked
<1> QED
  BY <1>1, Zenon DEF Follows

(* A claim in the CSPC that is bound is not one that is being given up. *)
LEMMA UsableHeld ==
  ASSUME TypeOK, MarkInv, NEW d \in Devices(spec), d \in BD, IsBDUsable(d)
  PROVE  bdc[d].st = "held"
<1>1. bdc[d].st # "open"
  <2> SUFFICES ASSUME NEW e \in BD, bdc[e].mark = d
               PROVE  FALSE
    BY Zenon DEF MarkInv
  <2>1. Marked(e)
    BY PoolAssumption, Zenon DEF Marked
  <2> QED
    BY <2>1, Zenon DEF MarkInv
<1> QED
  BY <1>1, Zenon DEF IsBDUsable

(* The replacement comes to the CSPI, and it is the one that is marked. *)
LEMMA OperatorReplace ==
  ASSUME TypeOK, PhaseInv, ReplaceInv, ReplaceExistingBlockDevice
  PROVE  ReplaceInv'
<1> USE DEF ReplaceInv
<1>t. UNCHANGED <<spec, bdc, members, swap, scan, at, w, listed, todo, cur>>
  BY TypeEdits, Zenon DEF ReplaceExistingBlockDevice, users, zpool
<1>g. cspi \in CSPIs /\ cspi.groups \subseteq SUBSET BD /\ \A h \in spec : h \subseteq BD
  BY Zenon DEF TypeOK, CSPIs
<1>1. PICK s \in spec, c \in cspi.groups, old \in BD, new \in BD :
        /\ old \in c \ s /\ new \in s \ c /\ c \ s = {old} /\ old \notin Devices(spec) /\ IsBDUsable(new)
        /\ WriteByOther([cspi EXCEPT !.groups = (@ \ {c}) \cup {(c \ {old}) \cup {new}}, !.linked = @ \ {old}])
  BY <1>g, Zenon DEF ReplaceExistingBlockDevice
<1>2. PICK g \in spec : c = g \/ \E d \in g : Marked(d) /\ d \notin Devices(cspi.groups) /\ c = Undone(g, d)
  BY Zenon DEF GroupInv, Follows
<1>3. old \notin g
  BY <1>1 DEF Devices
<1>4. PICK d \in g : Marked(d) /\ d \notin Devices(cspi.groups) /\ c = Undone(g, d)
  BY <1>1, <1>2, <1>3
<1>5. d \in BD /\ old = bdc[d].mark
  BY <1>1, <1>3, <1>4, <1>g DEF Undone
<1>6. s = g
  <2>1. PICK x \in g : x # d
    BY OtherOne
  <2>2. x \in c /\ x # old
    BY <1>3, <1>4, <2>1, Zenon DEF Undone
  <2> QED
    BY <1>1, <2>2, OneGroup
<1>7. new = d /\ (c \ {old}) \cup {new} = g
  BY <1>1, <1>3, <1>4, <1>5, <1>6 DEF Undone
<1> DEFINE gs == (cspi.groups \ {c}) \cup {g}
<1>8. cspi'.groups = gs
  <2> DEFINE obj == [cspi EXCEPT !.groups = gs, !.linked = @ \ {old}]
  <2>1. gs \in SUBSET SUBSET BD
    BY <1>g, Zenon
  <2>2. obj \in CSPIs /\ obj.groups = gs
    BY <1>g, <2>1, Zenon DEF CSPIs
  <2>3. cspi' = Stored(obj)
    BY <1>1, <1>7, Zenon DEF WriteByOther
  <2> HIDE DEF obj
  <2> QED
    BY <2>2, <2>3, StoredType, Zenon
<1>9. ASSUME NEW h \in cspi.groups, h # c
      PROVE  d \notin h /\ old \notin h
  <2>1. d \notin h
    BY <1>4, Zenon DEF Devices
  <2>2. old \notin h
    <3>1. Follows(cspi.groups)
      BY Zenon DEF GroupInv
    <3>2. ASSUME bdc[d].mark \in h
          PROVE  h = Undone(g, d)
      BY <1>4, <3>1, <3>2, FollowsMark
    <3> QED
      BY <1>4, <1>5, <1>9, <3>2, Zenon
  <2> QED
    BY <2>1, <2>2, Zenon
<1>10. \A x : x \in Devices(cspi.groups)' <=> (x \in Devices(cspi.groups) /\ x # old) \/ x = d
  <2>1. \A x \in c : x # old => x \in g
    BY <1>4, <1>5, Zenon DEF Undone
  <2>2. \A x \in g : x # d => x \in c
    BY <1>4, Zenon DEF Undone
  <2> QED
    BY <1>3, <1>8, <1>9, <2>1, <2>2, Zenon DEF Devices
<1>11. Follows(cspi.groups)'
  <2> SUFFICES ASSUME NEW h \in cspi.groups, h # c
               PROVE  \E k \in spec : h = k \/ \E e \in k : /\ Marked(e) /\ e \notin Devices(cspi.groups)'
                                                          /\ h = Undone(k, e)
    BY <1>8, <1>t, FollowsThen, Zenon
  <2>1. PICK k \in spec : h = k \/ \E e \in k : Marked(e) /\ e \notin Devices(cspi.groups) /\ h = Undone(k, e)
    BY Zenon DEF GroupInv, Follows
  <2>2. ASSUME NEW e \in k, Marked(e), e \notin Devices(cspi.groups), h = Undone(k, e)
        PROVE  e \notin Devices(cspi.groups)'
    BY <1>5, <1>9, <1>10, <2>2, Zenon DEF Undone
  <2> QED
    BY <2>1, <2>2, Zenon
<1>12. ~Marked(old)
  BY <1>4, <1>5, MarkType, Zenon
<1>13. bdc[d].st = "held"
  BY <1>1, <1>4, <1>5, <1>7, UsableHeld DEF Devices
<1>14. \A x \in Devices(cspi.groups)' : bdc[x].st \in {"new", "held"}
  BY <1>10, <1>13, Zenon DEF ClaimInv
<1> QED
  BY <1>t, <1>10, <1>11, <1>12, <1>14, CSPIReplace, Zenon

(* A raid group of the CSPC comes to the CSPI once all its devices are claimed. *)
LEMMA OperatorExpand ==
  ASSUME TypeOK, PhaseInv, ~Striped, ReplaceInv, ExpandCSPI
  PROVE  ReplaceInv'
<1> USE DEF ReplaceInv
<1>t. UNCHANGED <<spec, bdc, members, swap, scan, at, w, listed, todo, cur>>
  BY TypeEdits, Zenon DEF ExpandCSPI, users, zpool
<1>g. cspi \in CSPIs /\ cspi.groups \subseteq SUBSET BD /\ \A h \in spec : h \subseteq BD
  BY Zenon DEF TypeOK, CSPIs
<1>1. PICK g \in spec : /\ g \cap Devices(cspi.groups) = {} /\ (\A d \in g : IsBDUsable(d))
                       /\ WriteByOther([cspi EXCEPT !.groups = @ \cup {g}])
  BY Zenon DEF ExpandCSPI, Added
<1>2. cspi'.groups = cspi.groups \cup {g}
  <2> DEFINE obj == [cspi EXCEPT !.groups = @ \cup {g}]
  <2>0. cspi.groups \cup {g} \in SUBSET SUBSET BD
    BY <1>g, Zenon
  <2>1. obj \in CSPIs /\ obj.groups = cspi.groups \cup {g}
    BY <1>g, <2>0, Zenon DEF CSPIs
  <2>2. cspi' = Stored(obj)
    BY <1>1 DEF WriteByOther
  <2> HIDE DEF obj
  <2> QED
    BY <2>1, <2>2, StoredType, Zenon
<1>3. \A x : x \in Devices(cspi.groups)' <=> x \in Devices(cspi.groups) \/ x \in g
  BY <1>2, Zenon DEF Devices
<1>4. Follows(cspi.groups)'
  <2> SUFFICES ASSUME NEW h \in cspi.groups
               PROVE  \E k \in spec : h = k \/ \E e \in k : /\ Marked(e) /\ e \notin Devices(cspi.groups)'
                                                          /\ h = Undone(k, e)
    BY <1>2, <1>t, FollowsThen, Zenon
  <2>1. PICK k \in spec : h = k \/ \E e \in k : Marked(e) /\ e \notin Devices(cspi.groups) /\ h = Undone(k, e)
    BY Zenon DEF GroupInv, Follows
  <2>2. ASSUME NEW e \in k, Marked(e), e \notin Devices(cspi.groups), h = Undone(k, e)
        PROVE  e \notin g
    <3> SUFFICES ASSUME e \in g
                 PROVE  FALSE
      BY Zenon
    <3>1. k = g
      BY OneGroup, Zenon
    <3>2. PICK x \in g : x # e
      BY OtherOne
    <3>3. x \in h
      BY <2>2, <3>1, <3>2, Zenon DEF Undone
    <3>4. x \in Devices(cspi.groups)
      BY <3>3, Zenon DEF Devices
    <3> QED
      BY <1>1, <3>2, <3>4, Zenon
  <2> QED
    BY <1>3, <2>1, <2>2, Zenon
<1>5. \A x \in g : bdc[x].st = "held"
  BY <1>1, <1>g, UsableHeld DEF Devices
<1>6. \A x \in Devices(cspi.groups)' : bdc[x].st \in {"new", "held"}
  BY <1>3, <1>5, Zenon DEF ClaimInv
<1> QED
  BY <1>t, <1>3, <1>4, <1>6, CSPIReplace, Zenon

(* A claim is made for a device of the CSPC, or bound by NDM. *)
LEMMA ClaimReplace ==
  ASSUME TypeOK, PhaseInv, ~Striped, LoopInv, ReplaceInv, ClaimAdded \/ \E d \in BD : BindClaim(d)
  PROVE  ReplaceInv'
<1> USE DEF ReplaceInv
<1>1. UNCHANGED <<spec, cspi, members, swap, scan, at, w, listed, todo, cur>>
  BY TypeEdits, Zenon DEF ClaimAdded, BindClaim, users, zpool
<1>t. bdc \in [BD -> Claims] /\ listed \in [BD -> Claims] /\ todo \subseteq BD
  BY Zenon DEF TypeOK
<1>2. PICK d \in BD : /\ bdc'[d].st \in {"new", "held"} /\ bdc'[d].mark = bdc[d].mark
                      /\ (\A e \in BD \ {d} : bdc'[e] = bdc[e])
                      /\ (bdc[d].st # "none" \/ d \in Devices(spec))
  <2>1. CASE ClaimAdded
    <3>1. PICK d \in UNION Added : /\ bdc[d].st = "none"
                                  /\ bdc' = [bdc EXCEPT ![d] = [st |-> "new", mark |-> NoBD]]
      BY <2>1, Zenon DEF ClaimAdded
    <3>2. d \in BD /\ d \in Devices(spec)
      BY <3>1, DevicesType, Zenon DEF Added, Devices
    <3>3. bdc[d].mark = NoBD
      BY <3>1, <3>2, Zenon DEF MarkInv, Marked
    <3> QED
      BY <1>t, <3>1, <3>2, <3>3, Zenon
  <2>2. CASE \E d \in BD : BindClaim(d)
    <3>1. PICK d \in BD : bdc[d].st = "new" /\ bdc' = [bdc EXCEPT ![d].st = "held"]
      BY <2>2, Zenon DEF BindClaim
    <3> QED
      BY <1>t, <3>1 DEF Claims
  <2> QED
    BY <2>1, <2>2, Zenon
<1>3. \A e \in BD : bdc'[e].mark = bdc[e].mark /\ (Marked(e)' <=> Marked(e))
  BY <1>2, Zenon DEF Marked
<1>4. Held' = Held /\ Devices(spec)' = Devices(spec) /\ Devices(Held)' = Devices(Held)
      /\ Devices(cspi.groups)' = Devices(cspi.groups)
  BY <1>1, Zenon DEF Held, Devices
<1>5. SpecInv' /\ GroupInv' /\ MemberInv' /\ SwapInv'
  BY <1>1, <1>3, <1>4, MarksKept, Zenon
<1>6. MarkInv'
  <2>1. \A e \in BD : bdc'[e].st # bdc[e].st => e = d /\ bdc'[e].st \in {"new", "held"}
    BY <1>2, Zenon
  <2>2. \A g \in spec : g \subseteq BD
    BY DevicesType
  <2>3. \A e \in BD : Marked(e)' =>
          e \in Devices(spec)' /\ bdc'[e].mark \notin Devices(spec)' /\ bdc'[e].st # "none"
    BY <1>3, <1>4, <2>1, Zenon DEF MarkInv
  <2>4. \A g \in spec' : \A e, f \in g : Marked(e)' /\ Marked(f)' => e = f
    BY <1>1, <1>3, <2>2, Zenon DEF MarkInv
  <2>5. \A o \in BD : bdc'[o].st = "open" => \E e \in BD : bdc'[e].mark = o
    BY <1>3, <2>1, Zenon DEF MarkInv
  <2> QED
    BY <1>3, <2>3, <2>4, <2>5, Zenon DEF MarkInv
<1>7. ClaimInv'
  BY <1>1, <1>2, <1>4, DevicesType, Zenon DEF ClaimInv
<1>8. ASSUME NEW e \in BD, listed[e].mark # NoBD, Current(e), bdc[listed[e].mark].st = "none"
      PROVE  bdc'[listed[e].mark].st = "none"
  <2>1. Marked(e) /\ bdc[e].mark = listed[e].mark
    BY <1>8, Zenon DEF Current, Marked
  <2>2. listed[e].mark \in BD /\ listed[e].mark \notin Devices(spec)
    BY <1>t, <2>1, MarkType, Zenon
  <2> QED
    BY <1>2, <1>8, <2>2, Zenon
<1>9. ASSUME NEW e \in BD, Current(e)
      PROVE  Current(e)'
  <2> SUFFICES ASSUME listed[e].mark # NoBD
               PROVE  Current(e)'
    BY <1>1, Zenon DEF Current
  <2>1. listed[e].mark # NoBD /\ bdc'[e].mark = listed[e].mark
    BY <1>1, <1>3, <1>9, Zenon DEF Current
  <2>2. listed[listed[e].mark].st = "none" => bdc[listed[e].mark].st = "none"
    BY <1>9, <2>1, Zenon DEF Current
  <2> QED
    BY <1>1, <1>8, <1>9, <2>1, <2>2, Zenon DEF Current
<1>10. ListInv'
  <2>1. \A e \in todo : Current(e)'
    BY <1>t, <1>9, Zenon DEF ListInv
  <2>2. at \in Cleaning => cur \in BD /\ listed[cur].mark # NoBD /\ Current(cur) /\ Current(cur)'
    <3>1. at \in Cleaning => cur \in BD /\ listed[cur].mark # NoBD /\ Current(cur)
      BY Zenon DEF TypeOK, Cleaning, ListInv, LoopInv
    <3>2. at \in Cleaning => Current(cur)'
      BY <1>1, <1>9, <3>1, Zenon DEF Current
    <3> QED
      BY <3>1, <3>2, Zenon
  <2>3. at = "unmark" => bdc'[listed[cur].mark].st = "none"
    BY <1>8, <2>2, Zenon DEF ListInv, Cleaning
  <2> QED
    BY <1>1, <2>1, <2>2, <2>3, Zenon DEF ListInv
<1> QED
  BY <1>5, <1>6, <1>7, <1>10, Zenon

(* A resilver advances; at its end the device that was replaced leaves the pool. *)
LEMMA ResilverReplace ==
  ASSUME TypeOK, PhaseInv, LoopInv, ReplaceInv, NEW x \in swap, Resilver(x)
  PROVE  ReplaceInv'
<1> USE DEF ReplaceInv
<1>1. UNCHANGED <<spec, bdc, cspi, at, w, listed, todo, cur>>
  BY TypeEdits, Zenon DEF Resilver, users
<1>2. x \in BD \X BD /\ scan \in [BD -> {"none", "started", "running", "done"}] /\ swap \subseteq BD \X BD
  BY Zenon DEF TypeOK
<1>3. /\ x[1] \in BD /\ x[2] \in BD /\ x = <<x[1], x[2]>> /\ bdc[x[2]].mark = x[1] /\ Marked(x[2])
  BY SwapType, Zenon
<1>4. ~Marked(x[1]) /\ x[1] \notin Devices(spec) /\ \A d \in BD : bdc[d].mark = x[1] => d = x[2]
  <2>1. ~Marked(x[1]) /\ x[1] \notin Devices(spec)
    BY <1>3, MarkType, Zenon
  <2>2. \A d \in BD : bdc[d].mark = bdc[x[2]].mark => d = x[2]
    BY <1>3, Zenon DEF MarkInv
  <2> QED
    BY <1>3, <2>1, <2>2, Zenon
<1>5. ASSUME NEW y \in swap, y # x
      PROVE  y[1] # x[1] /\ y[2] # x[1] /\ y[2] # x[2]
  <2>1. y[1] \in BD /\ y[2] \in BD /\ y = <<y[1], y[2]>> /\ bdc[y[2]].mark = y[1] /\ Marked(y[2])
    BY SwapType, Zenon
  <2> QED
    BY <1>3, <1>4, <1>5, <2>1, Zenon
<1>6. Held' = Held /\ Devices(spec)' = Devices(spec) /\ Devices(Held)' = Devices(Held)
      /\ Devices(cspi.groups)' = Devices(cspi.groups) /\ \A d : Marked(d)' <=> Marked(d)
  BY <1>1, Zenon DEF Held, Devices, Marked
<1>7. members' \subseteq members /\ swap' \subseteq swap
  BY Zenon DEF Resilver
<1>8. SpecInv' /\ MarkInv' /\ GroupInv' /\ ClaimInv'
  BY <1>1, <1>6, <1>7, LayoutKept, Zenon
<1>9. CASE scan[x[2]] = "started" /\ scan' = [scan EXCEPT ![x[2]] = "running"] /\ UNCHANGED <<members, swap>>
  <2>1. SwapInv'
    BY <1>1, <1>2, <1>3, <1>6, <1>9, Zenon DEF SwapInv
  <2>2. MemberInv'
    BY <1>1, <1>9, Zenon DEF MemberInv, Whole, Swapped, Marked, Devices
  <2>3. ListInv'
    BY <1>1, <1>9, Zenon DEF ListInv, Current
  <2> QED
    BY <1>8, <2>1, <2>2, <2>3, Zenon
<1>10. CASE scan' = [scan EXCEPT ![x[2]] = "done"] /\ members' = members \ {x[1]} /\ swap' = swap \ {x}
  <2>1. SwapInv'
    <3> SUFFICES ASSUME NEW y \in swap, y # x
                 PROVE  /\ y[1] \in members' /\ y[2] \in members' /\ bdc[y[2]].mark = y[1]
                        /\ y[2] \in Devices(cspi.groups) /\ scan'[y[2]] \in {"started", "running"}
      BY <1>1, <1>6, <1>10, Zenon DEF SwapInv
    <3> QED
      BY <1>2, <1>3, <1>5, <1>10, Zenon DEF SwapInv
  <2>2. MemberInv'
    <3>1. \A m \in members' : m \in Devices(spec)' \/ \E d \in BD : bdc'[d].mark = m
      BY <1>1, <1>6, <1>7, Zenon DEF MemberInv
    <3>2. \A g \in spec : x[1] \notin g
      BY <1>4, Zenon DEF Devices
    <3>3. \A g \in spec : Whole(g) => Whole(g)'
      BY <1>10, <3>2, Zenon DEF Whole
    <3>4. \A g \in spec' : (\E d \in g : Marked(d)') \/ Whole(g)'
      BY <1>1, <1>6, <3>3, Zenon DEF MemberInv
    <3>5. \A g \in spec : \A d \in g : Marked(d) => Swapped(g, d)'
      <4> SUFFICES ASSUME NEW g \in spec, NEW d \in g, Marked(d)
                   PROVE  Swapped(g, d)'
        OBVIOUS
      <4>1. Swapped(g, d) /\ d \in BD
        BY DevicesType, Zenon DEF MemberInv
      <4>2. bdc[d].mark = x[1] => d \in members
        BY <1>4, <4>1, Zenon DEF SwapInv
      <4> QED
        BY <1>1, <1>10, <3>2, <4>1, <4>2, Zenon DEF Swapped
    <3>6. \A d \in members' : Marked(d)' /\ bdc'[d].mark \in members' => <<bdc'[d].mark, d>> \in swap'
      <4> SUFFICES ASSUME NEW d \in members', Marked(d), bdc[d].mark \in members'
                   PROVE  <<bdc[d].mark, d>> \in swap'
        BY <1>1, <1>6, Zenon
      <4>1. <<bdc[d].mark, d>> \in swap /\ bdc[d].mark # x[1]
        BY <1>7, <1>10, Zenon DEF MemberInv
      <4> QED
        BY <1>3, <1>10, <4>1
    <3> QED
      BY <1>1, <1>6, <3>1, <3>4, <3>5, <3>6, Zenon DEF MemberInv
  <2>3. ListInv'
    <3>1. at \in Cleaning => cur # x[1]
      BY <1>4, CurrentOne, Zenon
    <3> QED
      BY <1>1, <1>7, <1>10, <3>1, Zenon DEF ListInv, Current
  <2> QED
    BY <1>8, <2>1, <2>2, <2>3
<1> QED
  BY <1>9, <1>10, Zenon DEF Resilver

-----------------------------------------------------------------------------
(* All steps, for a pool whose devices can be replaced                     *)

LEMMA InitReplace ==
  ASSUME Init, ~Striped
  PROVE  ReplaceInv
<1>1. PICK old \in Migrated :
        cspi = NewCSPI(old) /\ members = IF old THEN Devices(spec) ELSE {}
  BY DEF Init
<1>2. cspi.groups = spec /\ members \in {{}, Devices(spec)} /\ spec = InitialGroups
  BY <1>1, Zenon DEF Init, NewCSPI
<1>3. spec \subseteq SUBSET BD
  BY <1>2, PoolAssumption, Zenon
<1>4. \A d \in BD : bdc[d].mark = NoBD /\ ~Marked(d) /\ bdc[d].st # "open"
  BY DEF Init, NoClaim, Marked
<1>5. \A d \in Devices(spec) : d \in BD /\ bdc[d].st = "held"
  BY <1>3 DEF Init, NoClaim, Devices
<1>6. SpecInv
  BY <1>2, PoolAssumption, Zenon DEF SpecInv
<1>7. MarkInv
  BY <1>3, <1>4, PoolAssumption, Zenon DEF MarkInv
<1>8. Held = {} /\ Devices(Held) = {} /\ at = "idle" /\ todo = {} /\ swap = {}
  BY DEF Init, Held, Devices
<1>9. GroupInv
  BY <1>2, <1>8, Zenon DEF GroupInv, Follows
<1>10. ClaimInv
  BY <1>2, <1>5, <1>8, Zenon DEF ClaimInv
<1>11. MemberInv
  <2>1. \A g \in spec : Whole(g)
    BY <1>2, Zenon DEF Whole, Devices
  <2>2. \A g \in spec : \A d \in g : ~Marked(d)
    BY <1>3, <1>4, Zenon
  <2>3. \A d \in members : ~Marked(d) /\ d \in Devices(spec)
    BY <1>2, <1>4, <1>5, Zenon
  <2> QED
    BY <2>1, <2>2, <2>3, Zenon DEF MemberInv
<1>12. SwapInv /\ ListInv
  BY <1>8, Zenon DEF SwapInv, ListInv, Cleaning
<1> QED
  BY <1>6, <1>7, <1>9, <1>10, <1>11, <1>12 DEF ReplaceInv

LEMMA ReplaceStep ==
  ASSUME Sizes, TypeOK, PhaseInv, LoopInv, ReplaceInv, ~Striped, Orderly, [Next]_vars
  PROVE  ReplaceInv'
<1>1. CASE \/ Reconcile \/ AddPoolProtectionFinalizer \/ Import \/ CheckImportable \/ ZpoolImport
           \/ Create \/ MarkLost
  BY <1>1, TypeStart, QuietReplace
<1>2. CASE CreatePool
  BY <1>2, CreateReplace
<1>3. CASE AddOtherGroups
  BY <1>3, OtherGroups, GrowthReplace
<1>4. CASE UndoCreate \/ DestroyPool
  BY <1>4, DestroyReplace
<1>5. CASE ListClaims
  BY <1>5, ListReplace
<1>6. CASE UpdateDevice
  BY <1>6, DeviceReplace
<1>7. CASE CheckResilver \/ RemoveClaimFinalizer \/ UnclaimPredecessor \/ RemoveMark
  BY <1>7, CleaningReplace
<1>8. CASE \/ RecordReplacement \/ RecordExpansion \/ UpdateStatus \/ WriteStatus \/ SetPoolProperties
           \/ RemoveFinalizer \/ MarkDeletionFailed
  BY <1>8, TypeAfter, QuietReplace
<1>9. CASE UpdateNewVdevFromCSPI
  <2>1. at = "expand" /\ Growth
    BY <1>9, ExpandStep, Zenon DEF UpdateNewVdevFromCSPI
  <2> QED
    BY <2>1, GrowthReplace
<1>10. CASE DeleteCSPI \/ SetCompression \/ UsePool \/ ContainerRestarts \/ ManagerRestarts
  BY <1>10, TypeBystanders, QuietReplace
<1>11. CASE ReplaceDevice
  BY <1>11, EditReplace
<1>12. CASE ExpandPool
  BY <1>12, ExpandReplace
<1>13. CASE ReplaceExistingBlockDevice
  BY <1>13, OperatorReplace
<1>14. CASE ExpandCSPI
  BY <1>14, OperatorExpand
<1>15. CASE ClaimAdded \/ \E d \in BD : BindClaim(d)
  BY <1>15, ClaimReplace
<1>16. CASE \E x \in swap : Resilver(x)
  BY <1>16, ResilverReplace
<1>17. CASE UNCHANGED vars
  <2>1. Quiet
    BY <1>17, Zenon DEF vars, users, zpool, worker, loop, Quiet, Held, LoopInv
  <2> QED
    BY <2>1, QuietReplace
<1> QED
  BY <1>1, <1>2, <1>3, <1>4, <1>5, <1>6, <1>7, <1>8, <1>9, <1>10, <1>11, <1>12, <1>13, <1>14, <1>15, <1>16,
     <1>17, Zenon DEF Next, Work

-----------------------------------------------------------------------------
(* All steps, for a stripe                                                 *)

LEMMA StripeStep ==
  ASSUME TypeOK, PhaseInv, LoopInv, StripeInv, Striped, [Next]_vars
  PROVE  StripeInv'
<1>q. CASE Quiet
  BY <1>q, Zenon DEF Quiet, StripeInv, Marked
<1>1. CASE \/ Reconcile \/ AddPoolProtectionFinalizer \/ Import \/ CheckImportable \/ ZpoolImport
           \/ Create \/ MarkLost
  BY <1>1, <1>q, TypeStart
<1>2. CASE CreatePool
  <2>1. UNCHANGED bdc /\ at' \in {"zadd", "undo"} /\ todo' = {} /\ swap' \in {{}, swap}
    BY <1>2, Zenon DEF CreatePool, Goto, zpool, loop, LoopInv, Cleaning
  <2> QED
    BY <2>1, Zenon DEF StripeInv, Marked, Cleaning
<1>3. CASE AddOtherGroups
  <2>1. UNCHANGED <<bdc, swap>> /\ at' \in {"list", "undo"} /\ todo' = {}
    BY <1>3, Zenon DEF AddOtherGroups, loop, LoopInv, Cleaning
  <2> QED
    BY <2>1, Zenon DEF StripeInv, Marked, Cleaning
<1>4. CASE UndoCreate \/ DestroyPool
  <2>1. UNCHANGED <<bdc, loop, edits>> /\ at \in {"undo", "delete"}
        /\ (Delete("idle", "idle") \/ Delete("release", "delfailed"))
    BY <1>4, Zenon DEF UndoCreate, DestroyPool, users
  <2>2. {"idle", "release", "delfailed"} \subseteq Places
    BY DEF Places
  <2>3. at' \in {"idle", "release", "delfailed"} /\ swap' \in {{}, swap}
    BY <2>1, <2>2, DeleteType, Zenon
  <2> QED
    BY <2>1, <2>3, Zenon DEF StripeInv, Marked, Cleaning, loop
<1>5. CASE ListClaims
  <2>1. CASE at' = "device" /\ listed' = bdc /\ UNCHANGED <<bdc, swap>>
    <3>1. todo' \subseteq BD
      BY <1>5, ListStep, Zenon DEF TypeOK
    <3> QED
      BY <2>1, <3>1, Zenon DEF StripeInv, Marked, Cleaning
  <2> QED
    BY <1>5, <1>q, <2>1, ListStep, Zenon
<1>6. CASE UpdateDevice
  <2>1. PICK d \in todo :
          /\ todo' = todo \ {d} /\ (at' # "device" => listed[d].mark # NoBD)
          /\ (UNCHANGED swap \/ listed[d].mark \in members)
          /\ UNCHANGED <<bdc, listed>>
    BY <1>6, DeviceStep, Zenon DEF Replaces
  <2>2. listed[d].mark = NoBD /\ NoBD \notin members
    BY <2>1, PoolAssumption, Zenon DEF StripeInv, TypeOK
  <2> QED
    BY <2>1, <2>2, Zenon DEF StripeInv, Marked, Cleaning
<1>7. CASE CheckResilver \/ RemoveClaimFinalizer \/ UnclaimPredecessor \/ RemoveMark
  BY <1>7, Zenon DEF StripeInv, Cleaning, CheckResilver, RemoveClaimFinalizer, UnclaimPredecessor, RemoveMark
<1>8. CASE \/ RecordReplacement \/ RecordExpansion \/ UpdateStatus \/ WriteStatus \/ SetPoolProperties
           \/ RemoveFinalizer \/ MarkDeletionFailed
  BY <1>8, <1>q, TypeAfter
<1>9. CASE UpdateNewVdevFromCSPI
  <2>1. Growth
    BY <1>9, ExpandStep
  <2> QED
    BY <2>1, Zenon DEF Growth, StripeInv, Marked
<1>10. CASE DeleteCSPI \/ SetCompression \/ UsePool \/ ContainerRestarts \/ ManagerRestarts
  BY <1>10, <1>q, TypeBystanders
<1>11. CASE ReplaceDevice \/ \E x \in swap : Resilver(x)
  BY <1>11, Zenon DEF ReplaceDevice, IsBDReplacementValid, StripeInv
<1>12. CASE ExpandPool \/ ReplaceExistingBlockDevice \/ ClaimAdded \/ ExpandCSPI \/ \E d \in BD : BindClaim(d)
  <2>1. UNCHANGED <<at, listed, todo>>
    BY <1>12, TypeEdits, Zenon
  <2>2. UNCHANGED swap
    BY <1>12, Zenon DEF ExpandPool, ReplaceExistingBlockDevice, ClaimAdded, ExpandCSPI, BindClaim, zpool
  <2>3. \A d \in BD : bdc'[d].mark = NoBD
    <3>1. bdc \in [BD -> Claims] /\ \A d \in BD : bdc[d].mark = NoBD
      BY Zenon DEF TypeOK, StripeInv, Marked
    <3>2. CASE ClaimAdded
      BY <3>1, <3>2 DEF ClaimAdded
    <3>3. CASE \E d \in BD : BindClaim(d)
      BY <3>1, <3>3 DEF BindClaim, Claims
    <3>4. CASE ExpandPool \/ ReplaceExistingBlockDevice \/ ExpandCSPI
      BY <3>1, <3>4, Zenon DEF ExpandPool, ReplaceExistingBlockDevice, ExpandCSPI
    <3> QED
      BY <1>12, <3>2, <3>3, <3>4
  <2> QED
    BY <2>1, <2>2, <2>3, Zenon DEF StripeInv, Marked
<1>13. CASE UNCHANGED vars
  BY <1>13, Zenon DEF vars, zpool, worker, loop, StripeInv, Marked
<1> QED
  BY <1>1, <1>2, <1>3, <1>4, <1>5, <1>6, <1>7, <1>8, <1>9, <1>10, <1>11, <1>12, <1>13, Zenon DEF Next, Work

-----------------------------------------------------------------------------
(* Theorems                                                                *)

Library == INSTANCE FiniteSetTheorems

(* The devices are finitely many: the library's facts about cardinality apply. *)
LEMMA Counts == Sizes
<1>1. \A S : (Library!IsFiniteSet(S) <=> IsFiniteSet(S)) /\ Library!Cardinality(S) = Cardinality(S)
  BY Zenon DEF Library!IsFiniteSet, Library!Cardinality, IsFiniteSet, Cardinality
<1> SUFFICES ASSUME NEW g \in SUBSET BD, NEW h \in SUBSET BD, NEW d,
                    Cardinality(g) = Cardinality(h), h = {d}
             PROVE  \E e : g = {e}
  BY Zenon DEF Sizes
<1>2. IsFiniteSet(g)
  BY <1>1, Library!FS_Subset, PoolAssumption, Zenon
<1>3. Cardinality(g) = 1
  BY <1>1, Library!FS_Singleton, Zenon
<1> QED
  BY <1>1, <1>2, <1>3, Library!FS_Singleton, Zenon

(* A replacement runs in order, from the mark the webhook sets to the one Update takes off. *)
THEOREM Replacing ==
  ASSUME Orderly
  PROVE  Spec => [](IF Striped THEN StripeInv ELSE ReplaceInv)
<1> DEFINE IInv == IF Striped THEN StripeInv ELSE ReplaceInv
<1>1. Init => IInv
  <2>1. Init => StripeInv
    BY DEF Init, StripeInv, Marked, NoClaim, Cleaning
  <2> QED
    BY <2>1, InitReplace
<1>2. TypeOK /\ PhaseInv /\ LoopInv /\ IInv /\ [Next]_vars => IInv'
  BY Counts, StripeStep, ReplaceStep, Zenon
<1> HIDE DEF IInv
<1>3. Spec => []IInv
  BY <1>1, <1>2, TypeCorrect, PTL DEF Spec
<1> QED
  BY <1>3 DEF IInv

(* As long as the pool reads from a device that is being replaced, the device keeps its claim:  *)
(* cleanUpReplacementMarks gives up a claim only when the pool has let go of the device.        *)
THEOREM Claimed ==
  ASSUME Orderly
  PROVE  Spec => []ReplacedDeviceClaimed
<1> DEFINE IInv == IF Striped THEN StripeInv ELSE ReplaceInv
<1>1. IInv => ReplacedDeviceClaimed
  BY Zenon DEF StripeInv, ReplaceInv, SwapInv, ClaimInv, ReplacedDeviceClaimed
<1>2. Spec => []IInv
  BY Replacing
<1> HIDE DEF IInv
<1> QED
  BY <1>1, <1>2, PTL

(* A device leaves the pool only when the CSPI no longer names it: replaceExistingBlockDevice   *)
(* of the CSPC operator comes before replacePoolVdev of the pool manager.                       *)
THEOREM Named ==
  ASSUME Orderly
  PROVE  Spec => []NamedDeviceStays
<1> DEFINE IInv == IF Striped THEN StripeInv ELSE ReplaceInv
<1>1. TypeOK /\ IInv => NamedDeviceStays
  <2> SUFFICES ASSUME TypeOK, IInv, NEW x \in swap
               PROVE  x[1] \notin Devices(cspi.groups)
    BY DEF NamedDeviceStays
  <2>1. ReplaceInv
    BY DEF StripeInv
  <2>2. /\ x[1] \in BD /\ x[2] \in BD /\ bdc[x[2]].mark = x[1] /\ x[2] \in Devices(cspi.groups)
    BY <2>1, Zenon DEF ReplaceInv, SwapInv, TypeOK
  <2>3. Marked(x[2])
    BY <2>2, PoolAssumption, Zenon DEF Marked
  <2> QED
    BY <2>1, <2>2, <2>3, FollowsOut, Zenon DEF ReplaceInv, GroupInv
<1>2. Spec => []IInv
  BY Replacing
<1> HIDE DEF IInv
<1> QED
  BY <1>1, <1>2, TypeCorrect, PTL
=============================================================================

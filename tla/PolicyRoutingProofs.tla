------------------------- MODULE PolicyRoutingProofs -------------------------
(***************************************************************************)
(* Proof that an inference follows a setting of the policy that was in     *)
(* force, or being made, during its call.                                  *)
(***************************************************************************)
EXTENDS PolicyRouting, TLAPS

Allowance == [server : BOOLEAN, devs : SUBSET Device]

Read == [busy : BOOLEAN, local : BOOLEAN, server : BOOLEAN, dev : Device \union {""}]

\* Client c has the id of a segment, and has yet to read from it.
Reading(c) == cpc[c] \in {"attach", "load", "local", "server", "device"}

Types ==
    /\ seg \in Nat /\ segs \in Nat /\ terms \in Nat
    /\ mem \in [Segment -> ShareMemory]
    /\ bpc \in {"up", "load", "local", "server", "clear", "copy"}
    /\ spc \in {"idle", "attach", "local", "server", "device", "copy", "done"}
    /\ set \in Setting
    /\ sseg \in Nat
    /\ cpc \in [Client -> {"idle", "attach", "load", "local", "server", "device", "choose", "infer"}]
    /\ cseg \in [Client -> Nat]
    /\ got \in [Client -> Read]
    /\ went \in [Client -> Device \union {"nowhere", "server", "own"}]
    /\ inForce \in Allowance
    /\ clean \in BOOLEAN
    /\ cut \in BOOLEAN
    /\ seen \in [Client -> Allowance]
    /\ torn \in [Client -> BOOLEAN]

\* Segments are numbered in the order of their creation; the key has the last or none.
Numbered ==
    /\ segs \in 1..(MaxTerm + 1)
    /\ seg \in {0, segs}
    /\ terms <= MaxTerm
    /\ segs <= terms + 1
    /\ seg = 0 => segs <= terms /\ bpc = "up"
    /\ spc # "idle" => sseg \in 1..segs
    /\ \A c \in Client : Reading(c) => cseg[c] \in 1..segs

\* a allows what b allows.
Covers(a, b) == (b.server => a.server) /\ b.devs \subseteq a.devs

\* What is in segment s is allowed by a.
Holds(s, a) == (mem[s].server => a.server) /\ (mem[s].dev # "" => mem[s].dev \in a.devs)

\* A setting is being written, or about to be, to segment s.
Writing(s) == spc # "idle" /\ sseg = s

\* The segment of the key holds what is in force, or what is being set; those that have
\* yet to be created hold nothing.
Published ==
    /\ \A s \in Segment : s > segs => ~mem[s].server /\ mem[s].dev = ""
    /\ seg = 0 => "CPU" \in inForce.devs
    /\ seg # 0 => Holds(seg, IF Writing(seg) THEN Either(inForce, Allowed(set)) ELSE inForce)
    /\ seg # 0 /\ mem[seg].dev = "" => bpc # "up" \/ (spc = "copy" /\ sseg = seg) \/ cut
    /\ bpc # "up" => Covers(inForce, Allowed(CfgSetting))

\* A setting, or a start of the daemon, that nothing overlapped, leaves exactly itself.
Exact ==
    /\ clean /\ Writing(seg) =>
          /\ bpc = "up"
          /\ spc \in {"device", "copy", "done"} => mem[seg].server = OffloadToServer(set.route)
          /\ spc = "done" => mem[seg].dev = set.dev
    /\ clean /\ bpc # "up" =>
          /\ spc = "idle"
          /\ bpc \in {"clear", "copy"} => mem[seg].server = OffloadToServer(CfgRoute)

\* What is being written has been offered to every client in a call.
Offered ==
    \A c \in Client : cpc[c] # "idle" =>
        /\ spc # "idle" => torn[c] /\ Covers(seen[c], Allowed(set))
        /\ bpc # "up"   => torn[c] /\ Covers(seen[c], Allowed(CfgSetting))

\* What a client can read, and what it has read, has been offered to it.
ReadSeen ==
    \A c \in Client :
        /\ Reading(c) /\ shmat(cseg[c]) =>
              Holds(cseg[c], seen[c]) /\ (mem[cseg[c]].dev = "" => torn[c])
        /\ cpc[c] \in {"device", "choose"} => (got[c].server => seen[c].server)
        /\ cpc[c] = "choose" => IF got[c].dev = "" THEN torn[c] ELSE got[c].dev \in seen[c].devs

Bounds == Types /\ Numbered

IInv == Bounds /\ Published /\ Exact /\ Offered /\ ReadSeen /\ RoutedAsSet

-----------------------------------------------------------------------------
(* Types and the numbers of segments.                                      *)

LEMMA ConstantTypes ==
  /\ CfgSetting \in Setting /\ DefaultSetting \in Setting
  /\ DefaultRead \in Read
  /\ InitialMemory \in ShareMemory /\ ZeroMemory \in ShareMemory
  /\ Nothing \in Allowance
  BY PolicyAssumption, Zenon
  DEF CfgSetting, DefaultSetting, Setting, DefaultRead, Read, InitialMemory, ZeroMemory,
      ShareMemory, OffloadToLocal, OffloadToServer, Nothing, Allowance, Route

LEMMA AllowedType ==
  ASSUME NEW s \in Setting
  PROVE  Allowed(s) \in Allowance
  BY Zenon DEF Setting, Allowed, Allowance, OffloadToServer

LEMMA EitherType ==
  ASSUME NEW a \in Allowance, NEW b \in Allowance
  PROVE  Either(a, b) \in Allowance
  BY DEF Either, Allowance

\* A change of one field of a segment keeps its type.
LEMMA MemoryType ==
  ASSUME NEW m \in ShareMemory, NEW b \in BOOLEAN, NEW d \in Device \union {""}
  PROVE  /\ [m EXCEPT !.busy = b] \in ShareMemory
         /\ [m EXCEPT !.local = b] \in ShareMemory
         /\ [m EXCEPT !.server = b] \in ShareMemory
         /\ [m EXCEPT !.pid = b] \in ShareMemory
         /\ [m EXCEPT !.dev = d] \in ShareMemory
  BY DEF ShareMemory

\* A reading of one field of a segment keeps the type of what was read.
LEMMA ReadType ==
  ASSUME NEW g \in Read, NEW m \in ShareMemory
  PROVE  /\ [g EXCEPT !.busy = m.busy] \in Read
         /\ [g EXCEPT !.local = m.local] \in Read
         /\ [g EXCEPT !.server = m.server] \in Read
         /\ [g EXCEPT !.dev = m.dev] \in Read
  BY DEF ShareMemory, Read

LEMMA InitBounds == Init => Bounds
  <1> SUFFICES ASSUME Init PROVE Bounds
    OBVIOUS
  <1>0. MaxTerm \in Nat
    BY PolicyAssumption
  <1>1. mem \in [Segment -> ShareMemory]
    BY ConstantTypes DEF Init, ShmInit
  <1>2. inForce \in Allowance
    BY ConstantTypes, AllowedType DEF Init
  <1>3. Types
    BY <1>1, <1>2, ConstantTypes DEF Init, ShmInit, Types
  <1>4. Numbered
    BY <1>0 DEF Init, ShmInit, Numbered, Reading
  <1> QED
    BY <1>3, <1>4 DEF Bounds

\* A write to one of the segments.
LEMMA WriteBounds ==
  ASSUME Bounds, NEW s \in Segment, NEW m \in ShareMemory, ShmWrite(s, m)
  PROVE  mem' \in [Segment -> ShareMemory] /\ UNCHANGED <<seg, segs, terms>>
  BY DEF Bounds, Types, ShmWrite

\* What is offered to the clients keeps its type.
LEMMA OfferType ==
  ASSUME Types, NEW s \in Setting, Offer(s)
  PROVE  seen' \in [Client -> Allowance]
  <1>1. \A c \in Client : Either(seen[c], Allowed(s)) \in Allowance
    BY AllowedType, EitherType DEF Types
  <1> QED
    BY <1>1, ConstantTypes DEF Offer

\* The segments that are in use are among those there can be.
LEMMA SegmentsInUse ==
  ASSUME Bounds
  PROVE  /\ MaxTerm \in Nat
         /\ seg # 0 => seg \in Segment
         /\ spc # "idle" => sseg \in Segment
         /\ \A c \in Client : Reading(c) => cseg[c] \in Segment
         /\ Found \in Segment
  <1>0. MaxTerm \in Nat /\ segs \in Nat /\ terms \in Nat
    BY PolicyAssumption DEF Bounds, Types
  <1>1. \A s \in 1..segs : s \in Segment
    BY <1>0 DEF Bounds, Numbered, Segment
  <1>2. seg # 0 => seg \in 1..segs
    BY <1>0 DEF Bounds, Numbered
  <1>3. Found \in Segment
    BY <1>0, <1>1, <1>2 DEF Bounds, Numbered, Segment, Found
  <1> QED
    BY <1>0, <1>1, <1>2, <1>3 DEF Bounds, Numbered

\* A segment that has yet to be created is nobody's.
LEMMA NobodysSegment ==
  ASSUME Bounds, NEW s \in Segment, s > segs
  PROVE  s # seg /\ (spc # "idle" => s # sseg) /\ \A c \in Client : Reading(c) => s # cseg[c]
  <1>0. MaxTerm \in Nat
    BY PolicyAssumption
  <1>1. s \in Nat
    BY <1>0 DEF Segment
  <1>2. segs \in Nat
    BY DEF Bounds, Types
  <1> QED
    BY <1>1, <1>2 DEF Bounds, Numbered

LEMMA RealSegments ==
  ASSUME Bounds
  PROVE  (spc # "idle" => sseg # 0) /\ \A c \in Client : Reading(c) => cseg[c] # 0
  BY DEF Bounds, Numbered, Types

LEMMA RealDevices ==
  ASSUME Types
  PROVE  set.dev \in Device /\ set.dev # "" /\ CfgSetting.dev \in Device /\ CfgSetting.dev # ""
  BY PolicyAssumption DEF Types, Setting, CfgSetting

LEMMA SetterBounds ==
  ASSUME Bounds, Setter
  PROVE  Bounds'
  <1> USE DEF Bounds
  <1>1. ASSUME NEW r \in {"LOCAL_ONLY", "SERVER_ONLY"}, NEW d \in Device, SetBegin(r, d)
        PROVE  Bounds'
    <2>1. CASE seg = 0
      BY <1>1, <2>1
      DEF SetBegin, Types, Numbered, Reading, shmVars, setterVars, clientVars
    <2>2. CASE seg # 0
      <3>1. /\ set' = [route |-> r, dev |-> d] /\ spc' = "attach" /\ sseg' = seg
            /\ clean' = (bpc = "up") /\ Offer(set') /\ Tear
            /\ UNCHANGED <<seg, segs, mem, terms, bpc, cpc, cseg, got, went, inForce, cut>>
        BY <1>1, <2>2 DEF SetBegin, shmVars, clientVars
      <3>2. set' \in Setting
        BY <3>1 DEF Setting, Route
      <3>3. seen' \in [Client -> Allowance]
        BY <3>1, <3>2, OfferType
      <3>4. torn' \in [Client -> BOOLEAN] /\ clean' \in BOOLEAN
        BY <3>1, Zenon DEF Tear
      <3> QED
        BY <2>2, <3>1, <3>2, <3>3, <3>4 DEF Types, Numbered, Reading
    <2> QED
      BY <2>1, <2>2
  <1>2. CASE SetAttach
    BY <1>2, ConstantTypes
    DEF SetAttach, Types, Numbered, Reading, shmVars, clientVars, ghostVars
  <1>3. ASSUME NEW from, NEW to \in {"server", "device", "copy", "done"}, NEW m \in ShareMemory,
               spc # "idle", SetWrite(from, to, m)
        PROVE  Bounds'
    <2>1. mem' \in [Segment -> ShareMemory] /\ UNCHANGED <<seg, segs, terms>>
      BY <1>3, WriteBounds, SegmentsInUse DEF SetWrite
    <2>2. spc' = to /\ UNCHANGED <<bpc, set, sseg, cpc, cseg, got, went, inForce, clean, cut, seen, torn>>
      BY <1>3 DEF SetWrite, clientVars, ghostVars
    <2> QED
      BY <1>3, <2>1, <2>2 DEF Types, Numbered, Reading
  <1>4. CASE SetLocal \/ SetServer \/ SetClear \/ SetCopy \/ SetSame
    <2>1. spc # "idle"
      BY <1>4 DEF SetLocal, SetServer, SetClear, SetCopy, SetSame, SetWrite
    <2>2. mem[sseg] \in ShareMemory /\ set.dev \in Device
      BY <2>1, SegmentsInUse DEF Types, Setting
    <2>3. OffloadToLocal(set.route) \in BOOLEAN /\ OffloadToServer(set.route) \in BOOLEAN
      BY Zenon DEF OffloadToLocal, OffloadToServer
    <2>4. /\ [mem[sseg] EXCEPT !.local = OffloadToLocal(set.route)] \in ShareMemory
          /\ [mem[sseg] EXCEPT !.server = OffloadToServer(set.route)] \in ShareMemory
          /\ [mem[sseg] EXCEPT !.dev = ""] \in ShareMemory
          /\ [mem[sseg] EXCEPT !.dev = set.dev] \in ShareMemory
      BY <2>2, <2>3, MemoryType
    <2> QED
      BY <1>3, <1>4, <2>1, <2>2, <2>4 DEF SetLocal, SetServer, SetClear, SetCopy, SetSame
  <1>5. CASE SetAnswer
    <2>1. Either(inForce, Allowed(set)) \in Allowance /\ Allowed(set) \in Allowance
      BY AllowedType, EitherType DEF Types
    <2>2. inForce' \in Allowance
      BY <1>5, <2>1 DEF SetAnswer, Types
    <2>3. clean' \in BOOLEAN /\ cut' \in BOOLEAN
      BY <1>5, Zenon DEF SetAnswer
    <2> QED
      BY <1>5, <2>2, <2>3, ConstantTypes DEF SetAnswer, Types, Numbered, Reading, shmVars, clientVars
  <1>6. CASE SetKilled
    <2>1. Either(inForce, Allowed(set)) \in Allowance
      BY AllowedType, EitherType DEF Types
    <2>2. inForce' \in Allowance
      BY <1>6, <2>1 DEF SetKilled, Types
    <2>3. clean' \in BOOLEAN /\ cut' \in BOOLEAN
      BY <1>6, Zenon DEF SetKilled
    <2> QED
      BY <1>6, <2>2, <2>3, ConstantTypes DEF SetKilled, Types, Numbered, Reading, shmVars, clientVars
  <1> QED
    BY <1>1, <1>2, <1>4, <1>5, <1>6 DEF Setter

\* A reading of client c.
LEMMA ReadBounds ==
  ASSUME Bounds, NEW c \in Client, ReadLoad(c) \/ ReadLocal(c) \/ ReadServer(c) \/ ReadDevice(c)
  PROVE  Bounds'
  <1>1. /\ cpc[c] \in {"load", "local", "server", "device"}
        /\ \E to \in {"local", "server", "device", "choose"} : cpc' = [cpc EXCEPT ![c] = to]
        /\ UNCHANGED <<seg, segs, mem, terms, bpc, spc, set, sseg, cseg, went,
                       inForce, clean, cut, seen, torn>>
    BY DEF ReadLoad, ReadLocal, ReadServer, ReadDevice, ReadStep, shmVars, setterVars, ghostVars
  <1>2. got[c] \in Read /\ mem[cseg[c]] \in ShareMemory
    BY <1>1, SegmentsInUse DEF Bounds, Types, Reading
  <1>3. got' \in [Client -> Read]
    <2>1. \E g \in Read : got' = [got EXCEPT ![c] = g]
      <3>1. \/ got' = [got EXCEPT ![c] = [got[c] EXCEPT !.busy = mem[cseg[c]].busy]]
            \/ got' = [got EXCEPT ![c] = [got[c] EXCEPT !.local = mem[cseg[c]].local]]
            \/ got' = [got EXCEPT ![c] = [got[c] EXCEPT !.server = mem[cseg[c]].server]]
            \/ got' = [got EXCEPT ![c] = [got[c] EXCEPT !.dev = mem[cseg[c]].dev]]
        BY DEF ReadLoad, ReadLocal, ReadServer, ReadDevice
      <3> QED
        BY <1>2, <3>1, ReadType
    <2> QED
      BY <2>1 DEF Bounds, Types
  <1>4. Types'
    BY <1>1, <1>3 DEF Bounds, Types
  <1>5. Numbered'
    BY <1>1 DEF Bounds, Types, Numbered, Reading
  <1> QED
    BY <1>4, <1>5 DEF Bounds

LEMMA InferenceBounds ==
  ASSUME Bounds, NEW c \in Client, Inference(c)
  PROVE  Bounds'
  <1> USE DEF Bounds
  <1>1. CASE InferBegin(c)
    <2>1. Either(inForce, Allowed(set)) \in Allowance
      BY AllowedType, EitherType DEF Types
    <2>2. seen' \in [Client -> Allowance]
      BY <1>1, <2>1 DEF InferBegin, Types
    <2>3. (spc # "idle" \/ bpc # "up" \/ cut) \in BOOLEAN
      OBVIOUS
    <2>4. torn' \in [Client -> BOOLEAN]
      BY <1>1, <2>3 DEF InferBegin, Types
    <2>5. /\ cseg' = [cseg EXCEPT ![c] = seg]
          /\ cpc' = [cpc EXCEPT ![c] = IF seg = 0 THEN "choose" ELSE "attach"]
          /\ got' = [got EXCEPT ![c] = DefaultRead]
          /\ UNCHANGED <<seg, segs, mem, terms, bpc, spc, set, sseg, went, inForce, clean, cut>>
      BY <1>1 DEF InferBegin, shmVars, setterVars
    <2>6. Types'
      BY <2>2, <2>4, <2>5, ConstantTypes DEF Types
    <2>7. Numbered'
      BY <2>5 DEF Types, Numbered, Reading
    <2> QED
      BY <2>6, <2>7
  <1>2. CASE Attach(c)
    BY <1>2 DEF Attach, ReadStep, Types, Numbered, Reading, shmVars, setterVars, ghostVars
  <1>3. CASE AttachCrash(c) \/ InferEnd(c) \/ InferKilled(c)
    <2>1. /\ cpc' = [cpc EXCEPT ![c] = "idle"] /\ cseg' = [cseg EXCEPT ![c] = 0]
          /\ went' = [went EXCEPT ![c] = "nowhere"] /\ seen' = [seen EXCEPT ![c] = Nothing]
          /\ torn' = [torn EXCEPT ![c] = FALSE] /\ got' = [got EXCEPT ![c] = DefaultRead]
          /\ UNCHANGED <<seg, segs, mem, terms, bpc, spc, set, sseg, inForce, clean, cut>>
      BY <1>3 DEF AttachCrash, InferEnd, InferKilled, InferReturn, shmVars, setterVars
    <2>2. Types'
      BY <2>1, ConstantTypes DEF Types
    <2>3. Numbered'
      BY <2>1 DEF Types, Numbered, Reading
    <2> QED
      BY <2>2, <2>3
  <1>4. CASE ReadLoad(c) \/ ReadLocal(c) \/ ReadServer(c) \/ ReadDevice(c)
    BY <1>4, ReadBounds
  <1>5. ASSUME NEW url \in BOOLEAN, NEW own \in BOOLEAN, Choose(c, url, own)
        PROVE  Bounds'
    <2>1. LocalDevice(got[c]) \in Device
      BY PolicyAssumption DEF LocalDevice, Types, Read
    <2>2. went' \in [Client -> Device \union {"nowhere", "server", "own"}]
      BY <1>5, <2>1 DEF Choose, Types
    <2> QED
      BY <1>5, <2>2, ConstantTypes
      DEF Choose, Types, Numbered, Reading, shmVars, setterVars, ghostVars
  <1> QED
    BY <1>1, <1>2, <1>3, <1>4, <1>5 DEF Inference

LEMMA DaemonBounds ==
  ASSUME Bounds,
         \/ DaemonStart \/ SaveCfgParams \/ DaemonTerm \/ DaemonCrash
         \/ \E busy \in BOOLEAN : DaemonSample(busy)
  PROVE  Bounds'
  <1> USE DEF Bounds
  <1>0. MaxTerm \in Nat
    BY PolicyAssumption
  <1>1. CASE DaemonStart
    <2>1. Found \in Segment /\ mem[Found] \in ShareMemory
      BY SegmentsInUse DEF Types
    <2>2. mem' \in [Segment -> ShareMemory]
      BY <1>1, <2>1, MemoryType DEF DaemonStart, CreateShm, Types
    <2>3. inForce' \in Allowance /\ seen' \in [Client -> Allowance]
      BY <1>1, ConstantTypes, AllowedType, EitherType, OfferType DEF DaemonStart, Types
    <2>4. torn' \in [Client -> BOOLEAN] /\ clean' \in BOOLEAN
      BY <1>1, Zenon DEF DaemonStart, Tear
    <2>5. /\ seg' = Found /\ segs' = (IF seg = 0 THEN segs + 1 ELSE segs) /\ bpc' = "load"
          /\ UNCHANGED <<terms, cut, spc, set, sseg, cpc, cseg, got, went>>
      BY <1>1 DEF DaemonStart, CreateShm, setterVars, clientVars
    <2>6. Types'
      BY <2>2, <2>3, <2>4, <2>5 DEF Types, Found
    <2>7. Numbered'
      BY <1>0, <2>5 DEF Types, Numbered, Reading, Found
    <2> QED
      BY <2>6, <2>7
  <1>2. CASE SaveCfgParams
    <2>1. bpc # "up"
      BY <1>2 DEF SaveCfgParams, BootLoad, BootLocal, BootServer, BootClear, BootCopy, BootWrite
    <2>2. seg # 0 /\ seg \in Segment
      BY <2>1, SegmentsInUse DEF Numbered
    <2>3. /\ mem[seg] \in ShareMemory /\ InitialMemory.busy \in BOOLEAN
          /\ InitialMemory.local \in BOOLEAN /\ InitialMemory.server \in BOOLEAN
          /\ InitialMemory.dev \in Device
      BY <2>2, ConstantTypes, PolicyAssumption DEF Types, ShareMemory, InitialMemory
    <2>4. /\ [mem[seg] EXCEPT !.busy = InitialMemory.busy] \in ShareMemory
          /\ [mem[seg] EXCEPT !.local = InitialMemory.local] \in ShareMemory
          /\ [mem[seg] EXCEPT !.server = InitialMemory.server] \in ShareMemory
          /\ [mem[seg] EXCEPT !.dev = ""] \in ShareMemory
          /\ [mem[seg] EXCEPT !.dev = InitialMemory.dev] \in ShareMemory
      BY <2>3, MemoryType
    <2>5. /\ mem' \in [Segment -> ShareMemory]
          /\ bpc' \in {"up", "local", "server", "clear", "copy"}
          /\ UNCHANGED <<seg, segs, terms, spc, set, sseg, cpc, cseg, got, went, seen, torn>>
      BY <1>2, <2>2, <2>4, WriteBounds
      DEF SaveCfgParams, BootLoad, BootLocal, BootServer, BootClear, BootCopy, BootWrite,
          setterVars, clientVars
    <2>6. inForce' \in Allowance
      BY <1>2, ConstantTypes, AllowedType DEF SaveCfgParams, Types
    <2>7. clean' \in BOOLEAN /\ cut' \in BOOLEAN
      BY <1>2, Zenon DEF SaveCfgParams, Types
    <2> QED
      BY <2>2, <2>5, <2>6, <2>7 DEF Types, Numbered, Reading
  <1>3. CASE DaemonTerm
    <2>1. \A s \in Segment : [mem[s] EXCEPT !.pid = FALSE] \in ShareMemory
      BY MemoryType DEF Types
    <2>2. mem' \in [Segment -> ShareMemory]
      BY <1>3, <2>1, ConstantTypes DEF DaemonTerm, DestroyShm, NoPid, Types
    <2>3. inForce' \in Allowance /\ seen' \in [Client -> Allowance]
      BY <1>3, ConstantTypes, AllowedType, OfferType DEF DaemonTerm, Types
    <2>4. clean' \in BOOLEAN /\ cut' \in BOOLEAN
      BY <1>3, Zenon DEF DaemonTerm
    <2>5. /\ seg' = 0 /\ seg # 0 /\ terms < MaxTerm /\ terms' = terms + 1 /\ bpc' = "up"
          /\ UNCHANGED <<segs, spc, set, sseg, cpc, cseg, got, went, torn>>
      BY <1>3 DEF DaemonTerm, DestroyShm, DaemonRuns, setterVars, clientVars
    <2>6. Types'
      BY <2>2, <2>3, <2>4, <2>5 DEF Types
    <2>7. Numbered'
      BY <1>0, <2>5 DEF Types, Numbered, Reading
    <2> QED
      BY <2>6, <2>7
  <1>4. CASE DaemonCrash
    <2>1. \A s \in Segment : [mem[s] EXCEPT !.pid = FALSE] \in ShareMemory
      BY MemoryType DEF Types
    <2>2. mem' \in [Segment -> ShareMemory]
      BY <1>4, <2>1 DEF DaemonCrash, AbandonShm, NoPid
    <2>3. clean' \in BOOLEAN /\ cut' \in BOOLEAN
      BY <1>4, Zenon DEF DaemonCrash
    <2> QED
      BY <1>4, <2>2, <2>3
      DEF DaemonCrash, AbandonShm, Types, Numbered, Reading, setterVars, clientVars, ghostVars
  <1>5. ASSUME NEW busy \in BOOLEAN, DaemonSample(busy) PROVE Bounds'
    <2>1. mem[seg] \in ShareMemory /\ seg \in Segment
      BY <1>5, SegmentsInUse DEF DaemonSample, PublishLoad, DaemonRuns, Types
    <2>2. mem' \in [Segment -> ShareMemory]
      BY <1>5, <2>1, MemoryType DEF DaemonSample, PublishLoad, Types
    <2> QED
      BY <1>5, <2>2
      DEF DaemonSample, PublishLoad, Types, Numbered, Reading, setterVars, clientVars, ghostVars
  <1> QED
    BY <1>1, <1>2, <1>3, <1>4, <1>5

LEMMA NextBounds == Bounds /\ [Next]_vars => Bounds'
  <1>1. Bounds /\ UNCHANGED vars => Bounds'
    BY DEF Bounds, Types, Numbered, Reading, vars, shmVars, setterVars, clientVars, ghostVars
  <1> QED
    BY <1>1, SetterBounds, InferenceBounds, DaemonBounds DEF Next

-----------------------------------------------------------------------------
(* Allowances.                                                             *)

LEMMA AllowedFields ==
  ASSUME NEW s
  PROVE  Allowed(s).server = OffloadToServer(s.route) /\ Allowed(s).devs = {s.dev}
  BY DEF Allowed

LEMMA EitherFields ==
  ASSUME NEW a, NEW b
  PROVE  /\ Either(a, b).server = (a.server \/ b.server)
         /\ Either(a, b).devs = a.devs \union b.devs
  BY DEF Either

LEMMA EitherCovers ==
  ASSUME NEW a \in Allowance, NEW b \in Allowance
  PROVE  Covers(Either(a, b), a) /\ Covers(Either(a, b), b)
  BY EitherFields, Zenon DEF Covers

LEMMA CoversReflexive ==
  ASSUME NEW a
  PROVE  Covers(a, a)
  BY DEF Covers

LEMMA CoversTransitive ==
  ASSUME NEW a, NEW b, NEW c, Covers(a, b), Covers(b, c)
  PROVE  Covers(a, c)
  BY DEF Covers

LEMMA HoldsCovered ==
  ASSUME NEW s, NEW a, NEW b, Holds(s, b), Covers(a, b)
  PROVE  Holds(s, a)
  BY DEF Holds, Covers

\* The constants' allowances.
LEMMA AllowedTypes ==
  ASSUME Types
  PROVE  /\ Allowed(set) \in Allowance /\ Allowed(CfgSetting) \in Allowance
         /\ Allowed(DefaultSetting) \in Allowance /\ inForce \in Allowance
         /\ \A c \in Client : seen[c] \in Allowance
  BY AllowedType, ConstantTypes DEF Types

-----------------------------------------------------------------------------
(* What the steps do to what the segments hold.                            *)

\* The segments hold what they held.
SameContents == \A s \in Segment : mem'[s].server = mem[s].server /\ mem'[s].dev = mem[s].dev

\* A step after which everything is as it was, but for the load and the daemon's pid.
LEMMA QuietStep ==
  ASSUME IInv, Bounds', SameContents,
         UNCHANGED <<seg, segs, bpc, spc, set, sseg, cpc, cseg, got, went,
                     inForce, clean, cut, seen, torn>>
  PROVE  IInv'
  <1> USE DEF IInv
  <1>0. /\ seg # 0 => seg \in Segment
        /\ \A c \in Client : Reading(c) => cseg[c] \in Segment
    BY SegmentsInUse
  <1>1. Published'
    BY <1>0 DEF Published, SameContents, Holds, Writing, Either, Allowed, Covers
  <1>2. Exact'
    <2>1. CASE seg = 0
      <3>1. ~Writing(seg) /\ bpc = "up"
        BY <2>1 DEF Writing, Bounds, Numbered
      <3> QED
        BY <3>1 DEF Exact, Writing
    <2>2. CASE seg # 0
      BY <1>0, <2>2 DEF Exact, SameContents, Writing
    <2> QED
      BY <2>1, <2>2
  <1>3. Offered'
    BY DEF Offered
  <1>4. ReadSeen'
    <2>1. \A c \in Client : shmat(cseg[c])' = shmat(cseg[c]) /\ Reading(c)' = Reading(c)
      BY DEF shmat, Attached, Reading
    <2> QED
      BY <1>0, <2>1 DEF ReadSeen, SameContents, Holds
  <1>5. RoutedAsSet'
    BY DEF RoutedAsSet
  <1> QED
    BY <1>1, <1>2, <1>3, <1>4, <1>5

\* The setter writes one part of its setting, or of no device.
SetterWrites ==
    /\ mem' \in [Segment -> ShareMemory]
    /\ \A s \in Segment : s # sseg => mem'[s] = mem[s]
    /\ mem'[sseg].server = mem[sseg].server \/ mem'[sseg].server = OffloadToServer(set.route)
    /\ mem'[sseg].dev \in {mem[sseg].dev, "", set.dev}

LEMMA SetterWriteStep ==
  ASSUME IInv, Bounds', SetterWrites,
         spc \notin {"idle", "attach"}, spc' \notin {"idle", "attach"},
         UNCHANGED <<seg, segs, bpc, set, sseg, cpc, cseg, got, went, inForce, clean, cut, seen, torn>>,
         sseg = seg /\ mem'[sseg].dev = "" => bpc # "up" \/ spc' = "copy" \/ cut,
         Exact'
  PROVE  IInv'
  <1> USE DEF IInv
  <1>0. /\ seg # 0 => seg \in Segment
        /\ sseg \in Segment /\ sseg \in 1..segs /\ segs \in Nat
        /\ \A c \in Client : Reading(c) => cseg[c] \in Segment
        /\ Allowed(set).server = OffloadToServer(set.route) /\ Allowed(set).devs = {set.dev}
    BY SegmentsInUse, AllowedFields DEF Bounds, Types, Numbered
  <1>1. Published'
    <2>1. ASSUME NEW s \in Segment, s > segs PROVE mem'[s] = mem[s]
      <3>1. s # sseg
        BY <2>1, NobodysSegment
      <3> QED
        BY <3>1 DEF SetterWrites
    <2>2. ASSUME seg # 0
          PROVE  Holds(seg, IF Writing(seg) THEN Either(inForce, Allowed(set)) ELSE inForce)'
      <3>1. CASE sseg = seg
        <4>1. Holds(seg, Either(inForce, Allowed(set)))
          BY <2>2, <3>1 DEF Published, Writing
        <4>2. Covers(Either(inForce, Allowed(set)), Allowed(set))
          BY AllowedTypes, EitherCovers DEF Bounds
        <4>3. /\ mem'[seg].server => Either(inForce, Allowed(set)).server
              /\ mem'[seg].dev # "" => mem'[seg].dev \in Either(inForce, Allowed(set)).devs
          BY <1>0, <3>1, <4>1, <4>2 DEF SetterWrites, Holds, Covers
        <4> QED
          BY <3>1, <4>3 DEF Holds, Writing, Either, Allowed
      <3>2. CASE sseg # seg
        BY <1>0, <2>2, <3>2 DEF Published, SetterWrites, Holds, Writing
      <3> QED
        BY <3>1, <3>2
    <2>3. ASSUME seg # 0, mem'[seg].dev = "" PROVE bpc # "up" \/ (spc' = "copy" /\ sseg = seg) \/ cut
      <3>1. CASE sseg = seg
        BY <2>3, <3>1
      <3>2. CASE sseg # seg
        BY <1>0, <2>3, <3>2 DEF Published, SetterWrites
      <3> QED
        BY <3>1, <3>2
    <2>4. bpc # "up" => Covers(inForce, Allowed(CfgSetting))'
      BY DEF Published, Covers, Allowed, CfgSetting
    <2> QED
      BY <2>1, <2>2, <2>3, <2>4 DEF Published
  <1>2. Offered'
    BY DEF Offered
  <1>3. ReadSeen'
    <2>1. ASSUME NEW c \in Client, Reading(c), shmat(cseg[c])
          PROVE  Holds(cseg[c], seen[c])' /\ (mem'[cseg[c]].dev = "" => torn[c])
      <3>1. cpc[c] # "idle" /\ cseg[c] \in Segment
        BY <1>0, <2>1 DEF Reading
      <3>2. torn[c] /\ Covers(seen[c], Allowed(set))
        BY <3>1 DEF Offered
      <3>3. Holds(cseg[c], seen[c])
        BY <2>1 DEF ReadSeen
      <3> QED
        BY <1>0, <3>1, <3>2, <3>3 DEF SetterWrites, Holds, Covers
    <2>2. \A c \in Client : shmat(cseg[c])' = shmat(cseg[c]) /\ Reading(c)' = Reading(c)
      BY DEF shmat, Attached, Reading
    <2> QED
      BY <2>1, <2>2 DEF ReadSeen
  <1>4. RoutedAsSet'
    BY DEF RoutedAsSet
  <1> QED
    BY <1>1, <1>2, <1>3, <1>4

-----------------------------------------------------------------------------
(* The setter.                                                             *)

\* What each write of the setter does to the segment it has attached.
LEMMA SetterSteps ==
  ASSUME Bounds, SetLocal \/ SetServer \/ SetClear \/ SetCopy \/ SetSame
  PROVE  /\ SetterWrites
         /\ spc \in {"local", "server", "device", "copy"}
         /\ spc' \in {"server", "device", "copy", "done"}
         /\ spc' = "device" => mem'[sseg].server = OffloadToServer(set.route)
         /\ spc' \in {"copy", "done"} => spc \in {"device", "copy"} /\ mem'[sseg].server = mem[sseg].server
         /\ spc' = "done" => mem'[sseg].dev = set.dev
         /\ spc' \notin {"copy", "done"} => spc # "copy" /\ mem'[sseg].dev = mem[sseg].dev
         /\ UNCHANGED <<seg, segs, bpc, set, sseg, cpc, cseg, got, went, inForce, clean, cut, seen, torn>>
  <1>1. spc \in {"local", "server", "device", "copy"}
    BY DEF SetLocal, SetServer, SetClear, SetCopy, SetSame, SetWrite
  <1>2. sseg \in Segment /\ mem \in [Segment -> ShareMemory] /\ mem[sseg] \in ShareMemory
    BY <1>1, SegmentsInUse DEF Bounds, Types
  <1>3. UNCHANGED <<seg, segs, bpc, set, sseg, cpc, cseg, got, went, inForce, clean, cut, seen, torn>>
    BY DEF SetLocal, SetServer, SetClear, SetCopy, SetSame, SetWrite, ShmWrite, clientVars, ghostVars
  <1>4. mem' \in [Segment -> ShareMemory]
    BY SetterBounds DEF Setter, Bounds, Types
  <1>5. \A s \in Segment : s # sseg => mem'[s] = mem[s]
    BY <1>2 DEF SetLocal, SetServer, SetClear, SetCopy, SetSame, SetWrite, ShmWrite
  <1>6. CASE SetLocal
    <2>1. /\ mem'[sseg] = [mem[sseg] EXCEPT !.local = OffloadToLocal(set.route)] /\ spc' = "server"
          /\ spc = "local"
      BY <1>2, <1>6 DEF SetLocal, SetWrite, ShmWrite
    <2>2. mem'[sseg].server = mem[sseg].server /\ mem'[sseg].dev = mem[sseg].dev
      BY <1>2, <2>1 DEF ShareMemory
    <2> QED
      BY <1>1, <1>3, <1>4, <1>5, <2>1, <2>2 DEF SetterWrites
  <1>7. CASE SetServer
    <2>1. /\ mem'[sseg] = [mem[sseg] EXCEPT !.server = OffloadToServer(set.route)] /\ spc' = "device"
          /\ spc = "server"
      BY <1>2, <1>7 DEF SetServer, SetWrite, ShmWrite
    <2>2. mem'[sseg].server = OffloadToServer(set.route) /\ mem'[sseg].dev = mem[sseg].dev
      BY <1>2, <2>1 DEF ShareMemory
    <2> QED
      BY <1>1, <1>3, <1>4, <1>5, <2>1, <2>2 DEF SetterWrites
  <1>8. CASE SetClear
    <2>1. mem'[sseg] = [mem[sseg] EXCEPT !.dev = ""] /\ spc' = "copy" /\ spc = "device"
      BY <1>2, <1>8 DEF SetClear, SetWrite, ShmWrite
    <2>2. mem'[sseg].server = mem[sseg].server /\ mem'[sseg].dev = ""
      BY <1>2, <2>1 DEF ShareMemory
    <2> QED
      BY <1>1, <1>3, <1>4, <1>5, <2>1, <2>2 DEF SetterWrites
  <1>9. CASE SetCopy
    <2>1. mem'[sseg] = [mem[sseg] EXCEPT !.dev = set.dev] /\ spc' = "done" /\ spc = "copy"
      BY <1>2, <1>9 DEF SetCopy, SetWrite, ShmWrite
    <2>2. mem'[sseg].server = mem[sseg].server /\ mem'[sseg].dev = set.dev
      BY <1>2, <2>1 DEF ShareMemory
    <2> QED
      BY <1>1, <1>3, <1>4, <1>5, <2>1, <2>2 DEF SetterWrites
  <1>10. CASE SetSame
    <2>1. mem'[sseg] = mem[sseg] /\ spc' = "done" /\ spc = "device" /\ mem[sseg].dev = set.dev
      BY <1>2, <1>10 DEF SetSame, SetWrite, ShmWrite
    <2> QED
      BY <1>1, <1>3, <1>4, <1>5, <2>1 DEF SetterWrites
  <1> QED
    BY <1>6, <1>7, <1>8, <1>9, <1>10

LEMMA SetterWriteInv ==
  ASSUME IInv, SetLocal \/ SetServer \/ SetClear \/ SetCopy \/ SetSame
  PROVE  IInv'
  <1>1. Bounds /\ Bounds'
    BY SetterBounds DEF Setter, IInv
  <1>2. Exact'
    BY <1>1, SetterSteps DEF IInv, Exact, Writing
  <1>3. sseg = seg /\ mem'[sseg].dev = "" => bpc # "up" \/ spc' = "copy" \/ cut
    <2>1. set.dev # "" /\ (spc # "idle" => sseg # 0)
      BY <1>1, RealDevices, RealSegments DEF Bounds
    <2> QED
      BY <1>1, <2>1, SetterSteps DEF IInv, Published
  <1> QED
    BY <1>1, <1>2, <1>3, SetterSteps, SetterWriteStep

LEMMA SetBeginInv ==
  ASSUME IInv, NEW r \in {"LOCAL_ONLY", "SERVER_ONLY"}, NEW d \in Device, SetBegin(r, d)
  PROVE  IInv'
  <1> USE DEF IInv
  <1>0. Bounds' /\ spc = "idle"
    BY SetterBounds DEF Setter, SetBegin
  <1>1. CASE seg = 0
    <2>1. UNCHANGED vars
      BY <1>1 DEF SetBegin, vars, setterVars, ghostVars
    <2> QED
      BY <1>0, <2>1, QuietStep DEF vars, shmVars, setterVars, clientVars, ghostVars, SameContents
  <1>2. CASE seg # 0
    <2>1. /\ spc' = "attach" /\ sseg' = seg /\ clean' = (bpc = "up") /\ Offer(set') /\ Tear
          /\ UNCHANGED <<seg, segs, mem, terms, bpc, cpc, cseg, got, went, inForce, cut>>
      BY <1>2 DEF SetBegin, shmVars, clientVars
    <2>2. /\ Allowed(set') \in Allowance
          /\ \A c \in Client : seen[c] \in Allowance
      BY <1>0, AllowedTypes, AllowedType DEF Bounds, Types
    <2>3. \A c \in Client : cpc[c] # "idle" =>
             torn'[c] /\ Covers(seen'[c], seen[c]) /\ Covers(seen'[c], Allowed(set'))
      BY <2>1, <2>2, EitherCovers DEF Offer, Tear
    <2>4. Published'
      <3>1. Holds(seg, inForce)
        BY <1>0, <1>2 DEF Published, Writing
      <3>2. Covers(Either(inForce, Allowed(set')), inForce)
        BY <2>2, EitherCovers DEF Bounds, Types
      <3>3. Holds(seg, Either(inForce, Allowed(set')))
        BY <3>1, <3>2, HoldsCovered
      <3>4. Holds(seg, IF Writing(seg) THEN Either(inForce, Allowed(set)) ELSE inForce)'
        BY <1>2, <2>1, <3>3 DEF Holds, Writing, Either, Allowed
      <3> QED
        BY <1>0, <1>2, <2>1, <3>4 DEF Published, Writing, Covers, Allowed, CfgSetting
    <2>5. Exact'
      BY <2>1 DEF Exact, Writing
    <2>6. Offered'
      <3>1. ASSUME NEW c \in Client, cpc[c] # "idle", bpc # "up"
            PROVE  Covers(seen'[c], Allowed(CfgSetting))
        BY <2>3, <3>1, CoversTransitive DEF Offered
      <3> QED
        BY <2>1, <2>3, <3>1 DEF Offered, Covers, Allowed, CfgSetting
    <2>7. ReadSeen'
      <3>1. \A c \in Client : Reading(c)' = Reading(c) /\ (Reading(c) => cpc[c] # "idle")
        BY <2>1 DEF Reading
      <3>2. \A c \in Client : shmat(cseg[c])' => shmat(cseg[c])
        BY <2>1 DEF shmat, Attached
      <3> QED
        BY <2>1, <2>3, <3>1, <3>2 DEF ReadSeen, Holds, Covers
    <2>8. RoutedAsSet'
      BY <2>1, <2>3 DEF RoutedAsSet, Covers
    <2> QED
      BY <1>0, <2>4, <2>5, <2>6, <2>7, <2>8
  <1> QED
    BY <1>1, <1>2

LEMMA SetAttachInv ==
  ASSUME IInv, SetAttach
  PROVE  IInv'
  <1> USE DEF IInv
  <1>0. /\ Bounds' /\ spc = "attach"
        /\ UNCHANGED <<seg, segs, mem, bpc, cpc, cseg, got, went, inForce, clean, cut, seen, torn>>
    BY SetterBounds DEF Setter, SetAttach, shmVars, clientVars, ghostVars
  <1>1. CASE shmat(sseg)
    <2>1. spc' = "local" /\ UNCHANGED <<set, sseg>>
      BY <1>1 DEF SetAttach
    <2>2. Published'
      BY <1>0, <2>1 DEF Published, Holds, Writing, Either, Allowed, Covers, CfgSetting
    <2>3. Exact' /\ Offered' /\ RoutedAsSet'
      BY <1>0, <2>1 DEF Exact, Writing, Offered, RoutedAsSet, Covers, Allowed, CfgSetting
    <2>4. ReadSeen'
      <3>1. \A c \in Client : shmat(cseg[c])' => shmat(cseg[c])
        BY <1>0, <1>1, <2>1 DEF shmat, Attached
      <3> QED
        BY <1>0, <2>1, <3>1 DEF ReadSeen, Reading, Holds
    <2> QED
      BY <1>0, <2>2, <2>3, <2>4
  <1>2. CASE ~shmat(sseg)
    <2>1. spc' = "idle" /\ set' = CfgSetting /\ sseg' = 0 /\ sseg # seg
      BY <1>2 DEF SetAttach, shmat
    <2>2. Published'
      BY <1>0, <2>1 DEF Published, Holds, Writing, Covers, Allowed, CfgSetting
    <2>3. Exact' /\ Offered' /\ RoutedAsSet'
      BY <1>0, <2>1 DEF Exact, Writing, Offered, RoutedAsSet, Covers, Allowed, CfgSetting
    <2>4. ReadSeen'
      <3>1. \A c \in Client : shmat(cseg[c])' => shmat(cseg[c])
        BY <1>0, <2>1 DEF shmat, Attached
      <3> QED
        BY <1>0, <2>1, <3>1 DEF ReadSeen, Reading, Holds
    <2> QED
      BY <1>0, <2>2, <2>3, <2>4
  <1> QED
    BY <1>1, <1>2

LEMMA SetAnswerInv ==
  ASSUME IInv, SetAnswer
  PROVE  IInv'
  <1> USE DEF IInv
  <1>0. /\ Bounds' /\ spc = "done" /\ spc' = "idle" /\ sseg' = 0
        /\ clean' = (clean \/ bpc = "up") /\ cut' = (cut /\ ~(clean /\ sseg = seg))
        /\ inForce' = IF sseg # seg THEN inForce
                      ELSE IF clean THEN Allowed(set) ELSE Either(inForce, Allowed(set))
        /\ UNCHANGED <<seg, segs, mem, bpc, cpc, cseg, got, went, seen, torn>>
    BY SetterBounds DEF Setter, SetAnswer, shmVars, clientVars
  <1>1. sseg # 0
    BY <1>0 DEF Bounds, Types, Numbered
  <1>2. Published'
    <2>1. CASE sseg # seg
      BY <1>0, <2>1 DEF Published, Holds, Writing, Covers, Allowed, CfgSetting
    <2>2. CASE sseg = seg /\ clean
      <3>1. /\ bpc = "up" /\ mem[seg].server = OffloadToServer(set.route)
            /\ mem[seg].dev = set.dev
        BY <1>0, <2>2 DEF Exact, Writing
      <3>2. set.dev # ""
        BY PolicyAssumption DEF Bounds, Types, Setting
      <3>3. inForce'.server = OffloadToServer(set.route) /\ inForce'.devs = {set.dev}
        BY <1>0, <2>2, AllowedFields
      <3> QED
        BY <1>0, <1>1, <2>2, <3>1, <3>2, <3>3 DEF Published, Holds, Writing
    <2>3. CASE sseg = seg /\ ~clean
      <3>1. inForce' = Either(inForce, Allowed(set))
        BY <1>0, <2>3
      <3>2. Holds(seg, inForce')
        BY <1>0, <1>1, <2>3, <3>1 DEF Published, Writing
      <3>3. bpc # "up" => Covers(inForce', Allowed(CfgSetting))
        <4>1. Covers(inForce', inForce)
          BY <3>1, AllowedTypes, EitherCovers DEF Bounds
        <4> QED
          BY <4>1, CoversTransitive DEF Published
      <3>4. mem[seg].dev = "" => bpc # "up" \/ cut'
        BY <1>0, <1>1, <2>3 DEF Published, Writing
      <3> QED
        BY <1>0, <1>1, <2>3, <3>2, <3>3, <3>4 DEF Published, Holds, Writing, Covers, Allowed, CfgSetting
    <2> QED
      BY <2>1, <2>2, <2>3
  <1>3. Exact' /\ Offered' /\ RoutedAsSet'
    BY <1>0 DEF Exact, Writing, Offered, RoutedAsSet, Covers, Allowed, CfgSetting
  <1>4. ReadSeen'
    <2>1. \A c \in Client : shmat(cseg[c])' => shmat(cseg[c])
      BY <1>0 DEF shmat, Attached
    <2> QED
      BY <1>0, <2>1 DEF ReadSeen, Reading, Holds
  <1> QED
    BY <1>0, <1>2, <1>3, <1>4

LEMMA SetKilledInv ==
  ASSUME IInv, SetKilled
  PROVE  IInv'
  <1> USE DEF IInv
  <1>0. /\ Bounds' /\ spc # "idle" /\ spc' = "idle" /\ sseg' = 0
        /\ clean' = (clean \/ bpc = "up") /\ cut' = (cut \/ (spc = "copy" /\ sseg = seg))
        /\ inForce' = IF sseg # seg THEN inForce ELSE Either(inForce, Allowed(set))
        /\ UNCHANGED <<seg, segs, mem, bpc, cpc, cseg, got, went, seen, torn>>
    BY SetterBounds DEF Setter, SetKilled, shmVars, clientVars
  <1>1. sseg # 0
    BY <1>0 DEF Bounds, Types, Numbered
  <1>2. Published'
    <2>1. CASE sseg # seg
      BY <1>0, <2>1 DEF Published, Holds, Writing, Covers, Allowed, CfgSetting
    <2>2. CASE sseg = seg
      <3>1. inForce' = Either(inForce, Allowed(set))
        BY <1>0, <2>2
      <3>2. Holds(seg, inForce')
        BY <1>0, <1>1, <2>2, <3>1 DEF Published, Writing
      <3>3. bpc # "up" => Covers(inForce', Allowed(CfgSetting))
        <4>1. Covers(inForce', inForce)
          BY <3>1, AllowedTypes, EitherCovers DEF Bounds
        <4> QED
          BY <4>1, CoversTransitive DEF Published
      <3>4. mem[seg].dev = "" => bpc # "up" \/ cut'
        BY <1>0, <1>1, <2>2 DEF Published, Writing
      <3> QED
        BY <1>0, <1>1, <2>2, <3>2, <3>3, <3>4 DEF Published, Holds, Writing, Covers, Allowed, CfgSetting
    <2> QED
      BY <2>1, <2>2
  <1>3. Exact' /\ Offered' /\ RoutedAsSet'
    BY <1>0 DEF Exact, Writing, Offered, RoutedAsSet, Covers, Allowed, CfgSetting
  <1>4. ReadSeen'
    <2>1. \A c \in Client : shmat(cseg[c])' => shmat(cseg[c])
      BY <1>0 DEF shmat, Attached
    <2> QED
      BY <1>0, <2>1 DEF ReadSeen, Reading, Holds
  <1> QED
    BY <1>0, <1>2, <1>3, <1>4

LEMMA SetterInv ==
  ASSUME IInv, Setter
  PROVE  IInv'
  BY SetBeginInv, SetAttachInv, SetterWriteInv, SetAnswerInv, SetKilledInv DEF Setter

-----------------------------------------------------------------------------
(* The clients.                                                            *)

\* What the invariant says of client c.
ClientOK(c) ==
    /\ cpc[c] # "idle" /\ spc # "idle" => torn[c] /\ Covers(seen[c], Allowed(set))
    /\ cpc[c] # "idle" /\ bpc # "up"   => torn[c] /\ Covers(seen[c], Allowed(CfgSetting))
    /\ Reading(c) /\ shmat(cseg[c]) =>
          Holds(cseg[c], seen[c]) /\ (mem[cseg[c]].dev = "" => torn[c])
    /\ cpc[c] \in {"device", "choose"} => (got[c].server => seen[c].server)
    /\ cpc[c] = "choose" => IF got[c].dev = "" THEN torn[c] ELSE got[c].dev \in seen[c].devs
    /\ cpc[c] = "infer" =>
          /\ went[c] = "server" => seen[c].server
          /\ went[c] \in Device => went[c] \in seen[c].devs \/ (torn[c] /\ went[c] = "CPU")

LEMMA ClientsOK == Offered /\ ReadSeen /\ RoutedAsSet <=> \A c \in Client : ClientOK(c)
  BY DEF Offered, ReadSeen, RoutedAsSet, ClientOK

LEMMA ClientsOKNext == (Offered /\ ReadSeen /\ RoutedAsSet <=> \A c \in Client : ClientOK(c))'
  BY DEF Offered, ReadSeen, RoutedAsSet, ClientOK

\* A step of client c leaves the segments, the daemon, the setter and the other clients
\* alone, and attaches c to no segment that is gone.
StepOf(c) ==
    /\ UNCHANGED <<seg, segs, mem, bpc, spc, set, sseg, inForce, clean, cut>>
    /\ \A d \in Client : d # c =>
          /\ cpc'[d] = cpc[d] /\ cseg'[d] = cseg[d] /\ got'[d] = got[d] /\ went'[d] = went[d]
          /\ seen'[d] = seen[d] /\ torn'[d] = torn[d]
    /\ cpc'[c] \in {"load", "local", "server", "device"} => cseg'[c] = cseg[c] /\ shmat(cseg[c])

\* After such a step it remains to show what is said of c.
LEMMA ClientInv ==
  ASSUME IInv, Bounds', NEW c \in Client, StepOf(c), ClientOK(c)'
  PROVE  IInv'
  <1> USE DEF StepOf
  <1>1. Published' /\ Exact'
    BY DEF IInv, Published, Exact, Holds, Writing, Either, Allowed, Covers, CfgSetting
  <1>2. ASSUME NEW d \in Client, d # c PROVE ClientOK(d)'
    <2>1. ClientOK(d)
      BY ClientsOK DEF IInv
    <2>2. shmat(cseg[d])' => shmat(cseg[d])
      <3>1. ASSUME NEW e \in Client, cseg'[e] = cseg[d],
                   cpc'[e] \in {"load", "local", "server", "device"}
            PROVE  shmat(cseg[d])
        BY <3>1 DEF shmat, Attached
      <3> QED
        BY <1>2, <3>1 DEF shmat, Attached
    <2> QED
      BY <1>2, <2>1, <2>2 DEF ClientOK, Reading, Holds, Covers, Allowed, CfgSetting
  <1> QED
    BY <1>1, <1>2, ClientsOKNext DEF IInv

LEMMA InferBeginInv ==
  ASSUME IInv, NEW c \in Client, InferBegin(c)
  PROVE  IInv'
  <1> USE DEF IInv
  <1>0. Bounds' /\ Types /\ Types'
    BY InferenceBounds DEF Inference, Bounds
  <1>1. /\ cpc[c] = "idle" /\ cseg'[c] = seg
        /\ cpc'[c] = IF seg = 0 THEN "choose" ELSE "attach"
        /\ got'[c] = DefaultRead
        /\ seen'[c] = IF spc = "idle" THEN inForce ELSE Either(inForce, Allowed(set))
        /\ torn'[c] = (spc # "idle" \/ bpc # "up" \/ cut)
        /\ UNCHANGED <<seg, segs, mem, bpc, spc, set, sseg, went, inForce, clean, cut>>
        /\ \A d \in Client : d # c =>
              /\ cpc'[d] = cpc[d] /\ cseg'[d] = cseg[d] /\ got'[d] = got[d]
              /\ seen'[d] = seen[d] /\ torn'[d] = torn[d]
    BY <1>0 DEF InferBegin, Types, shmVars, setterVars
  <1>2. StepOf(c)
    BY <1>1 DEF StepOf
  <1>3. /\ Covers(seen'[c], inForce)
        /\ spc # "idle" => Covers(seen'[c], Allowed(set))
    BY <1>0, <1>1, AllowedTypes, EitherCovers, CoversReflexive
  <1>4. bpc # "up" => Covers(seen'[c], Allowed(CfgSetting))
    BY <1>3, CoversTransitive DEF Published
  <1>5. CASE seg = 0
    <2>1. "CPU" \in inForce.devs /\ ~got'[c].server /\ got'[c].dev = "CPU"
      <3>1. ~DefaultRead.server /\ DefaultRead.dev = "CPU"
        BY Zenon DEF DefaultRead
      <3> QED
        BY <1>1, <1>5, <3>1 DEF Published
    <2> QED
      <3>1. ClientOK(c)'
        BY <1>1, <1>3, <1>4, <1>5, <2>1 DEF ClientOK, Reading, Covers, Allowed, CfgSetting
      <3> QED
        BY <1>0, <1>2, <3>1, ClientInv
  <1>6. CASE seg # 0
    <2>1. Holds(seg, seen'[c])
      <3>1. CASE Writing(seg)
        BY <1>1, <1>6, <3>1 DEF Published, Writing
      <3>2. CASE ~Writing(seg)
        BY <1>3, <1>6, <3>2, HoldsCovered DEF Published
      <3> QED
        BY <3>1, <3>2
    <2>2. mem[seg].dev = "" => torn'[c]
      BY <1>1, <1>6 DEF Published
    <2>3. ClientOK(c)'
      BY <1>1, <1>3, <1>4, <1>6, <2>1, <2>2 DEF ClientOK, Holds, Covers, Allowed, CfgSetting
    <2> QED
      BY <1>0, <1>2, <2>3, ClientInv
  <1> QED
    BY <1>5, <1>6

LEMMA ReadInv ==
  ASSUME IInv, NEW c \in Client, ReadLoad(c) \/ ReadLocal(c) \/ ReadServer(c) \/ ReadDevice(c)
  PROVE  IInv'
  <1> USE DEF IInv
  <1>0. Bounds' /\ Types /\ Types' /\ ClientOK(c)
    BY ReadBounds, ClientsOK DEF Bounds
  <1>1. /\ cpc[c] \in {"load", "local", "server", "device"}
        /\ cpc'[c] \in {"local", "server", "device", "choose"}
        /\ \A d \in Client : d # c => cpc'[d] = cpc[d] /\ got'[d] = got[d]
        /\ UNCHANGED <<seg, segs, mem, bpc, spc, set, sseg, cseg, went, inForce, clean, cut, seen, torn>>
    BY <1>0 DEF ReadLoad, ReadLocal, ReadServer, ReadDevice, ReadStep, Types, shmVars, setterVars, ghostVars
  <1>2. /\ shmat(cseg[c]) /\ Reading(c)
        /\ Holds(cseg[c], seen[c]) /\ (mem[cseg[c]].dev = "" => torn[c])
    BY <1>0, <1>1 DEF shmat, Attached, Reading, ClientOK
  <1>3. StepOf(c)
    BY <1>1, <1>2 DEF StepOf
  <1>4. /\ cpc'[c] = "device" => got'[c].server = mem[cseg[c]].server
        /\ cpc'[c] = "choose" => /\ cpc[c] = "device" /\ got'[c].server = got[c].server
                                 /\ got'[c].dev = mem[cseg[c]].dev
    <2>1. CASE ReadLoad(c) \/ ReadLocal(c)
      BY <1>0, <2>1 DEF ReadLoad, ReadLocal, ReadStep, Types
    <2>2. CASE ReadServer(c)
      <3>1. got'[c] = [got[c] EXCEPT !.server = mem[cseg[c]].server] /\ cpc'[c] = "device"
        BY <1>0, <2>2 DEF ReadServer, ReadStep, Types
      <3>2. got[c] \in Read
        BY <1>0 DEF Types
      <3> QED
        BY <3>1, <3>2 DEF Read
    <2>3. CASE ReadDevice(c)
      <3>1. /\ got'[c] = [got[c] EXCEPT !.dev = mem[cseg[c]].dev]
            /\ cpc'[c] = "choose" /\ cpc[c] = "device"
        BY <1>0, <2>3 DEF ReadDevice, ReadStep, Types
      <3>2. got[c] \in Read
        BY <1>0 DEF Types
      <3> QED
        BY <3>1, <3>2 DEF Read
    <2> QED
      BY <2>1, <2>2, <2>3
  <1>5. ClientOK(c)'
    BY <1>0, <1>1, <1>2, <1>4 DEF ClientOK, Reading, Holds, Covers, Allowed, CfgSetting
  <1> QED
    BY <1>0, <1>3, <1>5, ClientInv

LEMMA ChooseInv ==
  ASSUME IInv, NEW c \in Client, NEW url \in BOOLEAN, NEW own \in BOOLEAN, Choose(c, url, own)
  PROVE  IInv'
  <1> USE DEF IInv
  <1>0. Bounds' /\ Types /\ Types' /\ ClientOK(c)
    BY InferenceBounds, ClientsOK DEF Inference, Bounds
  <1>1. /\ cpc[c] = "choose" /\ cpc'[c] = "infer"
        /\ went'[c] = IF toServer(got[c], url) THEN "server"
                      ELSE IF own THEN "own" ELSE LocalDevice(got[c])
        /\ \A d \in Client : d # c => /\ cpc'[d] = cpc[d] /\ got'[d] = got[d]
                                      /\ cseg'[d] = cseg[d] /\ went'[d] = went[d]
        /\ UNCHANGED <<seg, segs, mem, bpc, spc, set, sseg, inForce, clean, cut, seen, torn>>
    BY <1>0 DEF Choose, Types, shmVars, setterVars, ghostVars
  <1>2. StepOf(c)
    BY <1>1 DEF StepOf
  <1>3. /\ got[c].server => seen[c].server
        /\ IF got[c].dev = "" THEN torn[c] ELSE got[c].dev \in seen[c].devs
    BY <1>0, <1>1 DEF ClientOK
  <1>4. /\ went'[c] = "server" => seen[c].server
        /\ went'[c] \in Device => went'[c] \in seen[c].devs \/ (torn[c] /\ went'[c] = "CPU")
    <2>1. CASE toServer(got[c], url)
      BY <1>1, <1>3, <2>1, RoutingAssumption DEF toServer
    <2>2. CASE ~toServer(got[c], url) /\ own
      BY <1>1, <2>2, RoutingAssumption
    <2>3. CASE ~toServer(got[c], url) /\ ~own
      <3>1. LocalDevice(got[c]) \in Device
        BY <1>0, PolicyAssumption DEF LocalDevice, Types, Read
      <3> QED
        BY <1>1, <1>3, <2>3, <3>1, RoutingAssumption DEF LocalDevice
    <2> QED
      BY <2>1, <2>2, <2>3
  <1>5. ClientOK(c)'
    BY <1>0, <1>1, <1>4 DEF ClientOK, Reading, Covers, Allowed, CfgSetting
  <1> QED
    BY <1>0, <1>2, <1>5, ClientInv

LEMMA InferenceInv ==
  ASSUME IInv, NEW c \in Client, Inference(c)
  PROVE  IInv'
  <1>0. Bounds' /\ Types /\ Types' /\ ClientOK(c)
    BY InferenceBounds, ClientsOK DEF Inference, Bounds, IInv
  <1>1. CASE Attach(c)
    <2>1. /\ cpc[c] = "attach" /\ cpc'[c] = "load" /\ shmat(cseg[c])
          /\ \A d \in Client : d # c => cpc'[d] = cpc[d]
          /\ UNCHANGED <<seg, segs, mem, bpc, spc, set, sseg, cseg, got, went, inForce, clean, cut, seen, torn>>
      BY <1>0, <1>1 DEF Attach, ReadStep, Types, shmVars, setterVars, ghostVars
    <2>2. StepOf(c)
      BY <2>1 DEF StepOf
    <2>3. ClientOK(c)'
      BY <1>0, <2>1 DEF ClientOK, Reading, Holds, Covers, Allowed, CfgSetting
    <2> QED
      BY <1>0, <2>2, <2>3, ClientInv
  <1>2. CASE AttachCrash(c) \/ InferEnd(c) \/ InferKilled(c)
    <2>1. /\ cpc'[c] = "idle"
          /\ \A d \in Client : d # c => /\ cpc'[d] = cpc[d] /\ seen'[d] = seen[d] /\ torn'[d] = torn[d]
                                        /\ cseg'[d] = cseg[d] /\ went'[d] = went[d] /\ got'[d] = got[d]
          /\ UNCHANGED <<seg, segs, mem, bpc, spc, set, sseg, inForce, clean, cut>>
      BY <1>0, <1>2 DEF AttachCrash, InferEnd, InferKilled, InferReturn, Types, shmVars, setterVars
    <2>2. StepOf(c)
      BY <2>1 DEF StepOf
    <2>3. ClientOK(c)'
      BY <2>1 DEF ClientOK, Reading
    <2> QED
      BY <1>0, <2>2, <2>3, ClientInv
  <1> QED
    BY <1>1, <1>2, InferBeginInv, ReadInv, ChooseInv DEF Inference

-----------------------------------------------------------------------------
(* The daemon.                                                             *)

\* A client keeps what it may have seen, and may see more, when the segments it can read
\* hold what they held and nothing is being written that was not before.
LEMMA SeesMore ==
  ASSUME NEW c \in Client, ClientOK(c),
         UNCHANGED <<spc, set, cpc, cseg, got, went>>,
         cpc[c] # "idle" => Covers(seen'[c], seen[c]) /\ (torn[c] => torn'[c]),
         cpc[c] # "idle" /\ bpc' # "up" => torn'[c] /\ Covers(seen'[c], Allowed(CfgSetting)),
         Reading(c) /\ shmat(cseg[c])' =>
            /\ shmat(cseg[c])
            /\ mem'[cseg[c]].server = mem[cseg[c]].server /\ mem'[cseg[c]].dev = mem[cseg[c]].dev
  PROVE  ClientOK(c)'
  <1>1. cpc[c] # "idle" /\ spc # "idle" => torn'[c] /\ Covers(seen'[c], Allowed(set))
    <2> SUFFICES ASSUME cpc[c] # "idle", spc # "idle"
                 PROVE  torn'[c] /\ Covers(seen'[c], Allowed(set))
      OBVIOUS
    <2>1. torn[c] /\ Covers(seen[c], Allowed(set))
      BY DEF ClientOK
    <2> QED
      BY <2>1, CoversTransitive
  <1>2. Reading(c) => cpc[c] # "idle"
    BY DEF Reading
  <1>3. Reading(c)' = Reading(c)
    BY DEF Reading
  <1>4. Reading(c) /\ shmat(cseg[c])' =>
           Holds(cseg[c], seen[c])' /\ (mem'[cseg[c]].dev = "" => torn'[c])
    BY <1>2 DEF ClientOK, Holds, Covers
  <1> QED
    BY <1>1, <1>3, <1>4 DEF ClientOK, Covers, Allowed, CfgSetting

LEMMA DaemonStartInv ==
  ASSUME IInv, DaemonStart
  PROVE  IInv'
  <1> USE DEF IInv
  <1>0. Bounds' /\ Types /\ Found \in Segment /\ mem[Found] \in ShareMemory
    BY DaemonBounds, SegmentsInUse DEF Bounds, Types
  <1>1. /\ seg' = Found /\ segs' = (IF seg = 0 THEN segs + 1 ELSE segs) /\ bpc' = "load"
        /\ inForce' = Either(inForce, Allowed(CfgSetting)) /\ clean' = (spc = "idle") /\ cut' = cut
        /\ Offer(CfgSetting) /\ Tear
        /\ mem' = [mem EXCEPT ![Found] = [mem[Found] EXCEPT !.pid = TRUE]]
        /\ UNCHANGED <<spc, set, sseg, cpc, cseg, got, went>>
    BY DEF DaemonStart, CreateShm, setterVars, clientVars
  <1>2. SameContents
    <2>1. /\ [mem[Found] EXCEPT !.pid = TRUE].server = mem[Found].server
          /\ [mem[Found] EXCEPT !.pid = TRUE].dev = mem[Found].dev
      BY <1>0 DEF ShareMemory
    <2> QED
      BY <1>0, <1>1, <2>1 DEF SameContents, Types
  <1>3. Covers(inForce', inForce) /\ Covers(inForce', Allowed(CfgSetting))
    BY <1>0, <1>1, AllowedTypes, EitherCovers
  <1>4. Found # 0 /\ (seg # 0 => Found = seg) /\ (seg = 0 => Found > segs /\ Found = segs + 1)
    BY <1>0 DEF Found, Types
  <1>5. Published'
    <2>1. ASSUME NEW s \in Segment, s > segs' PROVE ~mem'[s].server /\ mem'[s].dev = ""
      <3>1. s > segs
        <4>1. MaxTerm \in Nat
          BY PolicyAssumption
        <4>2. s \in Nat /\ segs \in Nat
          BY <1>0, <4>1 DEF Types, Segment
        <4> QED
          BY <1>1, <2>1, <4>2
      <3> QED
        BY <1>2, <3>1 DEF Published, SameContents
    <2>2. Holds(seg, IF Writing(seg) THEN Either(inForce, Allowed(set)) ELSE inForce)'
      <3>1. CASE seg = 0
        <4>1. ~mem[Found].server /\ mem[Found].dev = ""
          BY <1>0, <1>4, <3>1 DEF Published
        <4>2. ~mem'[Found].server /\ mem'[Found].dev = ""
          BY <1>0, <1>2, <4>1 DEF SameContents
        <4> QED
          BY <1>1, <4>2 DEF Holds
      <3>2. CASE seg # 0
        <4>1. Holds(seg, IF Writing(seg) THEN Either(inForce, Allowed(set)) ELSE inForce)
          BY <3>2 DEF Published
        <4>2. Covers(IF Writing(seg) THEN Either(inForce', Allowed(set)) ELSE inForce',
                     IF Writing(seg) THEN Either(inForce, Allowed(set)) ELSE inForce)
          <5>1. Covers(Either(inForce', Allowed(set)), Either(inForce, Allowed(set)))
            <6>1. Either(inForce, Allowed(set)).server => Either(inForce', Allowed(set)).server
              BY <1>3, EitherFields, Zenon DEF Covers
            <6>2. Either(inForce, Allowed(set)).devs \subseteq Either(inForce', Allowed(set)).devs
              <7>1. /\ inForce.devs \subseteq inForce'.devs
                    /\ Either(inForce, Allowed(set)).devs = inForce.devs \union Allowed(set).devs
                    /\ Either(inForce', Allowed(set)).devs = inForce'.devs \union Allowed(set).devs
                BY <1>3, EitherFields DEF Covers
              <7> QED
                BY <7>1
            <6> QED
              BY <6>1, <6>2 DEF Covers
          <5> QED
            BY <1>3, <5>1
        <4>3. Holds(seg, IF Writing(seg) THEN Either(inForce', Allowed(set)) ELSE inForce')
          BY <4>1, <4>2, HoldsCovered
        <4> QED
          <5>1. seg' = seg /\ seg \in Segment
            BY <1>0, <1>1, <1>4, <3>2
          <5>2. Writing(seg)' = Writing(seg) /\ Allowed(set)' = Allowed(set)
            BY <1>1, <5>1 DEF Writing
          <5>3. /\ mem'[seg].server = mem[seg].server
                /\ mem'[seg].dev = mem[seg].dev
            BY <1>2, <5>1 DEF SameContents
          <5> QED
            BY <1>1, <4>3, <5>1, <5>2, <5>3 DEF Holds
      <3> QED
        BY <3>1, <3>2
    <2> QED
      <3>1. Covers(inForce, Allowed(CfgSetting))'
        BY <1>3 DEF Covers, Allowed, CfgSetting
      <3> QED
        BY <1>1, <1>4, <2>1, <2>2, <3>1 DEF Published
  <1>6. Exact'
    BY <1>1 DEF Exact, Writing
  <1>7. ASSUME NEW c \in Client PROVE ClientOK(c)'
    <2>1. cpc[c] # "idle" => /\ torn'[c] /\ Covers(seen'[c], seen[c])
                             /\ Covers(seen'[c], Allowed(CfgSetting))
      BY <1>0, <1>1, AllowedTypes, EitherCovers DEF Offer, Tear
    <2>2. Reading(c) /\ shmat(cseg[c])' => shmat(cseg[c]) /\ cseg[c] \in Segment
      <3>1. Reading(c) => cseg[c] \in Segment /\ cseg[c] \in 1..segs
        BY SegmentsInUse DEF Bounds, Numbered
      <3>2. Reading(c) /\ cseg[c] = Found => cseg[c] = seg
        BY <1>0, <1>4, <3>1 DEF Types
      <3> QED
        BY <1>1, <3>1, <3>2 DEF shmat, Attached
    <2> QED
      BY <1>1, <1>2, <2>1, <2>2, ClientsOK, SeesMore DEF SameContents
  <1> QED
    BY <1>0, <1>5, <1>6, <1>7, ClientsOKNext

LEMMA DaemonTermInv ==
  ASSUME IInv, DaemonTerm
  PROVE  IInv'
  <1> USE DEF IInv
  <1>0. Bounds' /\ Types /\ seg \in Segment
    BY DaemonBounds, SegmentsInUse DEF Bounds, DaemonTerm, DestroyShm, DaemonRuns
  <1>1. /\ seg' = 0 /\ bpc' = "up" /\ inForce' = Allowed(DefaultSetting)
        /\ mem' = (IF Attached(seg) THEN NoPid ELSE [mem EXCEPT ![seg] = ZeroMemory])
        /\ Offer(DefaultSetting)
        /\ UNCHANGED <<segs, spc, set, sseg, cpc, cseg, got, went, torn>>
    BY DEF DaemonTerm, DestroyShm, setterVars, clientVars
  <1>2. \A s \in Segment : s # seg \/ Attached(seg) =>
           mem'[s].server = mem[s].server /\ mem'[s].dev = mem[s].dev
    <2>1. \A s \in Segment : mem[s] \in ShareMemory
      BY <1>0 DEF Types
    <2>2. \A s \in Segment : [mem[s] EXCEPT !.pid = FALSE].server = mem[s].server
                             /\ [mem[s] EXCEPT !.pid = FALSE].dev = mem[s].dev
      BY <2>1 DEF ShareMemory
    <2> QED
      BY <1>0, <1>1, <2>2 DEF NoPid, Types
  <1>3. Published'
    <2>1. "CPU" \in inForce'.devs
      BY <1>1 DEF Allowed, DefaultSetting
    <2>2. \A s \in Segment : s > segs => s # seg
      BY NobodysSegment
    <2> QED
      BY <1>1, <1>2, <2>1, <2>2 DEF Published
  <1>4. Exact'
    <2>1. ~Writing(seg)'
      BY <1>1, RealSegments DEF Writing
    <2> QED
      BY <1>1, <2>1 DEF Exact
  <1>5. ASSUME NEW c \in Client PROVE ClientOK(c)'
    <2>1. cpc[c] # "idle" => Covers(seen'[c], seen[c])
      BY <1>0, <1>1, AllowedTypes, EitherCovers DEF Offer
    <2>2. Reading(c) /\ shmat(cseg[c])' => cseg[c] \in Segment /\ Attached(cseg[c])
      BY <1>1, SegmentsInUse, RealSegments DEF shmat, Attached
    <2>3. Reading(c) /\ shmat(cseg[c])' =>
             /\ shmat(cseg[c])
             /\ mem'[cseg[c]].server = mem[cseg[c]].server /\ mem'[cseg[c]].dev = mem[cseg[c]].dev
      BY <1>2, <2>2 DEF shmat
    <2> QED
      BY <1>1, <2>1, <2>3, ClientsOK, SeesMore
  <1> QED
    BY <1>0, <1>3, <1>4, <1>5, ClientsOKNext

\* What each write of a starting daemon does to the segment.
LEMMA BootSteps ==
  ASSUME Bounds, SaveCfgParams
  PROVE  /\ bpc # "up" /\ seg # 0 /\ seg \in Segment
         /\ \A s \in Segment : s # seg => mem'[s] = mem[s]
         /\ mem'[seg].server = mem[seg].server \/ mem'[seg].server = OffloadToServer(CfgRoute)
         /\ mem'[seg].dev \in {mem[seg].dev, "", CfgDevice}
         /\ bpc' = "clear" => mem'[seg].server = OffloadToServer(CfgRoute)
         /\ bpc' \in {"copy", "up"} =>
               bpc \in {"clear", "copy"} /\ mem'[seg].server = mem[seg].server
         /\ bpc' = "up" =>
               /\ bpc = "copy" /\ mem'[seg].dev = CfgDevice
               /\ inForce' = IF clean THEN Allowed(CfgSetting) ELSE inForce
               /\ clean' = (clean \/ spc = "idle") /\ cut' = (cut /\ ~clean)
         /\ bpc' # "up" => UNCHANGED <<inForce, clean, cut>>
         /\ UNCHANGED <<seg, segs, spc, set, sseg, cpc, cseg, got, went, seen, torn>>
  <1> USE DEF BootWrite, ShmWrite
  <1>0. /\ bpc # "up"
        /\ UNCHANGED <<seg, segs, spc, set, sseg, cpc, cseg, got, went, seen, torn>>
    BY DEF SaveCfgParams, BootLoad, BootLocal, BootServer, BootClear, BootCopy, setterVars, clientVars
  <1>1. seg # 0 /\ seg \in Segment /\ mem \in [Segment -> ShareMemory] /\ mem[seg] \in ShareMemory
    BY <1>0, SegmentsInUse DEF Bounds, Numbered, Types
  <1>2. InitialMemory.server = OffloadToServer(CfgRoute) /\ InitialMemory.dev = CfgDevice
    BY DEF InitialMemory
  <1>3. \A s \in Segment : s # seg => mem'[s] = mem[s]
    BY <1>1 DEF SaveCfgParams, BootLoad, BootLocal, BootServer, BootClear, BootCopy
  <1>4. CASE BootLoad /\ UNCHANGED <<inForce, clean, cut>>
    <2>1. mem'[seg] = [mem[seg] EXCEPT !.busy = InitialMemory.busy] /\ bpc' = "local"
      BY <1>1, <1>4 DEF BootLoad
    <2>2. mem'[seg].server = mem[seg].server /\ mem'[seg].dev = mem[seg].dev
      BY <1>1, <2>1 DEF ShareMemory
    <2> QED
      BY <1>0, <1>1, <1>3, <1>4, <2>1, <2>2
  <1>5. CASE BootLocal /\ UNCHANGED <<inForce, clean, cut>>
    <2>1. mem'[seg] = [mem[seg] EXCEPT !.local = InitialMemory.local] /\ bpc' = "server"
      BY <1>1, <1>5 DEF BootLocal
    <2>2. mem'[seg].server = mem[seg].server /\ mem'[seg].dev = mem[seg].dev
      BY <1>1, <2>1 DEF ShareMemory
    <2> QED
      BY <1>0, <1>1, <1>3, <1>5, <2>1, <2>2
  <1>6. CASE BootServer /\ UNCHANGED <<inForce, clean, cut>>
    <2>1. mem'[seg] = [mem[seg] EXCEPT !.server = InitialMemory.server] /\ bpc' = "clear"
      BY <1>1, <1>6 DEF BootServer
    <2>2. mem'[seg].server = InitialMemory.server /\ mem'[seg].dev = mem[seg].dev
      BY <1>1, <2>1 DEF ShareMemory
    <2> QED
      BY <1>0, <1>1, <1>2, <1>3, <1>6, <2>1, <2>2
  <1>7. CASE BootClear /\ UNCHANGED <<inForce, clean, cut>>
    <2>1. mem'[seg] = [mem[seg] EXCEPT !.dev = ""] /\ bpc' = "copy" /\ bpc = "clear"
      BY <1>1, <1>7 DEF BootClear
    <2>2. mem'[seg].server = mem[seg].server /\ mem'[seg].dev = ""
      BY <1>1, <2>1 DEF ShareMemory
    <2> QED
      BY <1>0, <1>1, <1>3, <1>7, <2>1, <2>2
  <1>8. CASE /\ BootCopy
             /\ inForce' = IF clean THEN Allowed(CfgSetting) ELSE inForce
             /\ clean' = (clean \/ spc = "idle") /\ cut' = (cut /\ ~clean)
    <2>1. mem'[seg] = [mem[seg] EXCEPT !.dev = InitialMemory.dev] /\ bpc' = "up" /\ bpc = "copy"
      BY <1>1, <1>8 DEF BootCopy
    <2>2. mem'[seg].server = mem[seg].server /\ mem'[seg].dev = InitialMemory.dev
      BY <1>1, <2>1 DEF ShareMemory
    <2> QED
      BY <1>0, <1>1, <1>2, <1>3, <1>8, <2>1, <2>2
  <1> QED
    BY <1>4, <1>5, <1>6, <1>7, <1>8 DEF SaveCfgParams

LEMMA SaveCfgParamsInv ==
  ASSUME IInv, SaveCfgParams
  PROVE  IInv'
  <1> USE DEF IInv
  <1>0. /\ Bounds' /\ Types
        /\ Allowed(CfgSetting).server = OffloadToServer(CfgRoute)
        /\ Allowed(CfgSetting).devs = {CfgDevice} /\ CfgDevice # ""
    <2>1. Bounds' /\ Types
      BY DaemonBounds DEF Bounds
    <2>2. /\ Allowed(CfgSetting).server = OffloadToServer(CfgRoute)
          /\ Allowed(CfgSetting).devs = {CfgDevice}
      BY AllowedFields DEF CfgSetting
    <2>3. CfgDevice # ""
      BY PolicyAssumption
    <2> QED
      BY <2>1, <2>2, <2>3
  <1>1. Covers(inForce, Allowed(CfgSetting))
    BY BootSteps DEF Published
  <1>2. Published'
    <2>1. \A s \in Segment : s > segs => s # seg
      BY NobodysSegment
    <2>2. CASE bpc' # "up" \/ ~clean
      <3>1. UNCHANGED <<inForce, seg, segs, spc, sseg, set>> /\ seg # 0 /\ seg \in Segment
        BY <2>2, BootSteps
      <3>2. Holds(seg, IF Writing(seg) THEN Either(inForce, Allowed(set)) ELSE inForce)
        BY <3>1 DEF Published
      <3>3. Covers(IF Writing(seg) THEN Either(inForce, Allowed(set)) ELSE inForce,
                   Allowed(CfgSetting))
        BY <1>0, <1>1, AllowedTypes, EitherCovers, CoversTransitive
      <3>4. Holds(seg, IF Writing(seg) THEN Either(inForce, Allowed(set)) ELSE inForce)'
        BY <1>0, <3>1, <3>2, <3>3, BootSteps DEF Holds, Covers, Writing, Either, Allowed
      <3>5. mem'[seg].dev = "" => bpc' # "up"
        BY <1>0, BootSteps
      <3> QED
        BY <1>1, <2>1, <3>1, <3>4, <3>5, BootSteps DEF Published, Covers, Allowed, CfgSetting
    <2>3. CASE bpc' = "up" /\ clean
      <3>1. /\ UNCHANGED <<seg, segs, spc, sseg, set>> /\ seg # 0
            /\ mem'[seg].server = mem[seg].server /\ mem'[seg].dev = CfgDevice
            /\ inForce' = Allowed(CfgSetting) /\ bpc = "copy"
        BY <2>3, BootSteps
      <3>2. spc = "idle" /\ mem[seg].server = OffloadToServer(CfgRoute)
        BY <2>3, <3>1 DEF Exact
      <3>3. Holds(seg, inForce)' /\ ~Writing(seg)'
        BY <1>0, <3>1, <3>2 DEF Holds, Writing
      <3>4. \A s \in Segment : s > segs => ~mem'[s].server /\ mem'[s].dev = ""
        BY <2>1, BootSteps DEF Published
      <3> QED
        BY <1>0, <2>3, <3>1, <3>3, <3>4 DEF Published
    <2> QED
      BY <2>2, <2>3
  <1>3. Exact'
    <2>1. ~(clean /\ Writing(seg)) /\ (clean => spc = "idle")
      BY BootSteps DEF Exact
    <2>2. CASE bpc' # "up"
      <3>1. bpc \in {"clear", "copy"} /\ clean => mem[seg].server = OffloadToServer(CfgRoute)
        BY BootSteps DEF Exact
      <3> QED
        <4>1. bpc' \in {"clear", "copy"} /\ clean => mem'[seg].server = OffloadToServer(CfgRoute)
          BY <2>2, <3>1, BootSteps
        <4>2. UNCHANGED <<clean, spc, seg, sseg>>
          BY <2>2, BootSteps
        <4>3. ~(clean /\ Writing(seg))'
          BY <2>1, <4>2 DEF Writing
        <4> QED
          BY <2>1, <4>1, <4>2, <4>3 DEF Exact
    <2>3. CASE bpc' = "up"
      BY <2>1, <2>3, BootSteps DEF Exact, Writing
    <2> QED
      BY <2>2, <2>3
  <1>4. ASSUME NEW c \in Client PROVE ClientOK(c)'
    <2>0. ClientOK(c) /\ UNCHANGED <<seg, spc, set, sseg, cpc, cseg, got, went, seen, torn>> /\ bpc # "up"
      BY ClientsOK, BootSteps
    <2>1. cpc[c] # "idle" => torn[c] /\ Covers(seen[c], Allowed(CfgSetting))
      BY <2>0 DEF ClientOK
    <2>2. shmat(cseg[c])' = shmat(cseg[c]) /\ Reading(c)' = Reading(c)
      BY <2>0 DEF shmat, Attached, Reading
    <2>3. ASSUME Reading(c), shmat(cseg[c])
          PROVE  Holds(cseg[c], seen[c])' /\ (mem'[cseg[c]].dev = "" => torn[c])
      <3>1. cpc[c] # "idle" /\ cseg[c] \in Segment /\ Holds(cseg[c], seen[c])
        BY <2>0, <2>3, SegmentsInUse DEF ClientOK, Reading
      <3> QED
        BY <1>0, <2>0, <2>1, <3>1, BootSteps DEF Holds, Covers
    <2> QED
      BY <2>0, <2>1, <2>2, <2>3 DEF ClientOK, Covers, Allowed, CfgSetting
  <1> QED
    BY <1>0, <1>2, <1>3, <1>4, ClientsOKNext

LEMMA DaemonCrashInv ==
  ASSUME IInv, DaemonCrash
  PROVE  IInv'
  <1> USE DEF IInv
  <1>0. /\ Bounds' /\ mem \in [Segment -> ShareMemory] /\ seg \in Segment
        /\ \A c \in Client : Reading(c) => cseg[c] \in Segment
    BY DaemonBounds, SegmentsInUse DEF Bounds, Types, DaemonCrash, AbandonShm, DaemonRuns
  <1>1. /\ bpc' = "up" /\ clean' = (clean \/ spc = "idle") /\ cut' = (cut \/ bpc # "up")
        /\ UNCHANGED <<seg, segs, spc, set, sseg, cpc, cseg, got, went, inForce, seen, torn>>
    BY DEF DaemonCrash, AbandonShm, setterVars, clientVars
  <1>2. SameContents
    <2>1. \A s \in Segment : [mem[s] EXCEPT !.pid = FALSE].server = mem[s].server
                             /\ [mem[s] EXCEPT !.pid = FALSE].dev = mem[s].dev
      BY <1>0 DEF ShareMemory
    <2> QED
      BY <2>1 DEF DaemonCrash, AbandonShm, NoPid, SameContents
  <1>3. Published'
    BY <1>0, <1>1, <1>2 DEF Published, SameContents, Holds, Writing, Either, Allowed
  <1>4. Exact'
    BY <1>0, <1>1, <1>2 DEF Exact, SameContents, Writing
  <1>5. Offered' /\ RoutedAsSet'
    BY <1>1 DEF Offered, RoutedAsSet, Covers, Allowed
  <1>6. ReadSeen'
    <2>1. \A c \in Client : shmat(cseg[c])' = shmat(cseg[c]) /\ Reading(c)' = Reading(c)
      BY <1>1 DEF shmat, Attached, Reading
    <2> QED
      BY <1>0, <1>1, <1>2, <2>1 DEF ReadSeen, SameContents, Holds
  <1> QED
    BY <1>0, <1>3, <1>4, <1>5, <1>6

LEMMA DaemonInv ==
  ASSUME IInv,
         \/ DaemonStart \/ SaveCfgParams \/ DaemonTerm \/ DaemonCrash
         \/ \E busy \in BOOLEAN : DaemonSample(busy)
  PROVE  IInv'
  <1>0. Bounds' /\ mem \in [Segment -> ShareMemory] /\ (seg # 0 => seg \in Segment)
    BY DaemonBounds, SegmentsInUse DEF IInv, Bounds, Types
  <1>1. CASE DaemonCrash
    BY <1>1, DaemonCrashInv
  <1>2. ASSUME NEW busy \in BOOLEAN, DaemonSample(busy) PROVE IInv'
    <2>1. seg \in Segment /\ mem' = [mem EXCEPT ![seg] = [mem[seg] EXCEPT !.busy = busy]]
      BY <1>0, <1>2 DEF DaemonSample, PublishLoad, DaemonRuns
    <2>2. /\ [mem[seg] EXCEPT !.busy = busy].server = mem[seg].server
          /\ [mem[seg] EXCEPT !.busy = busy].dev = mem[seg].dev
      BY <1>0, <2>1 DEF ShareMemory
    <2>3. SameContents
      BY <1>0, <2>1, <2>2 DEF SameContents
    <2> QED
      BY <1>0, <1>2, <2>3, QuietStep
      DEF DaemonSample, PublishLoad, setterVars, clientVars, ghostVars
  <1> QED
    BY <1>1, <1>2, DaemonStartInv, SaveCfgParamsInv, DaemonTermInv

-----------------------------------------------------------------------------
LEMMA InitInv == Init => IInv
  <1> SUFFICES ASSUME Init PROVE IInv
    OBVIOUS
  <1>0. Bounds /\ MaxTerm \in Nat
    BY InitBounds, PolicyAssumption
  <1>1. /\ seg = 1 /\ segs = 1 /\ bpc = "up" /\ spc = "idle" /\ inForce = Allowed(CfgSetting)
        /\ mem = [s \in Segment |-> IF s = 1 THEN InitialMemory ELSE ZeroMemory]
        /\ \A c \in Client : cpc[c] = "idle"
    BY DEF Init, ShmInit
  <1>2. 1 \in Segment
    BY <1>0 DEF Segment
  <1>3. Published
    <2>1. ~ZeroMemory.server /\ ZeroMemory.dev = ""
      BY Zenon DEF ZeroMemory
    <2>2. /\ InitialMemory.server = OffloadToServer(CfgRoute) /\ InitialMemory.dev = CfgDevice
          /\ inForce.server = OffloadToServer(CfgRoute) /\ inForce.devs = {CfgDevice}
      BY <1>1, AllowedFields DEF InitialMemory, CfgSetting
    <2>3. CfgDevice # ""
      BY PolicyAssumption
    <2>4. \A s \in Segment : s > segs => s # 1
      BY <1>1
    <2>5. \A s \in Segment : s > segs => ~mem[s].server /\ mem[s].dev = ""
      BY <1>1, <2>1, <2>4
    <2>6. Holds(seg, inForce) /\ mem[seg].dev # "" /\ ~Writing(seg)
      BY <1>1, <1>2, <2>2, <2>3 DEF Holds, Writing
    <2>7. Holds(seg, IF Writing(seg) THEN Either(inForce, Allowed(set)) ELSE inForce)
      BY <2>6
    <2>8. seg # 0 /\ bpc = "up"
      BY <1>1
    <2> QED
      BY <2>5, <2>6, <2>7, <2>8, Zenon DEF Published
  <1>4. Exact
    BY <1>1 DEF Exact, Writing
  <1>5. \A c \in Client : ClientOK(c)
    BY <1>1 DEF ClientOK, Reading
  <1> QED
    BY <1>0, <1>3, <1>4, <1>5, ClientsOK DEF IInv

LEMMA NextInv == IInv /\ [Next]_vars => IInv'
  <1> SUFFICES ASSUME IInv, [Next]_vars PROVE IInv'
    OBVIOUS
  <1>1. CASE UNCHANGED vars
    <2>1. Bounds'
      BY <1>1, NextBounds DEF IInv
    <2> QED
      BY <1>1, <2>1, QuietStep
      DEF vars, shmVars, setterVars, clientVars, ghostVars, SameContents
  <1> QED
    BY <1>1, SetterInv, InferenceInv, DaemonInv DEF Next

\* Nothing protects the shared memory, and still: for any number of processes that run
\* inferences while a policy is set, the setter is killed between any two of its writes, a
\* daemon starts, dies at any point of its start or is replaced and its segment removed,
\* none goes to the remote server, and none runs on a device, that no setting in force or
\* being made during its call allows; but for the CPU, while the segment is being written
\* or after a kill that cut off the last writing of it.
THEOREM Routed == Spec => []RoutedAsSet
  <1>1. IInv => RoutedAsSet
    BY DEF IInv
  <1> QED
    BY <1>1, InitInv, NextInv, PTL DEF Spec
=============================================================================

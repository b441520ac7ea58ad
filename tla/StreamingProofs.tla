--------------------------- MODULE StreamingProofs ---------------------------
(***************************************************************************)
(* Proofs about StreamLib and Streaming, for every set of plugin files,     *)
(* pipelines and states of a limb, and every number of persons.             *)
(***************************************************************************)
EXTENDS Streaming, SequenceTheorems, WellFoundedInduction, TLAPS

-----------------------------------------------------------------------------
(* The inductive invariant. *)

\* The plugins and the ones whose init has not run yet.
LibShape ==
    /\ todo \subseteq (1 .. 2) \X Plugin
    /\ plugins \in Seq(Plugin) /\ inits \in Seq(Plugin)
    /\ probes \in [Launched -> SUBSET Plugin]
    /\ todo # {} => inits = plugins /\ registered = {}

\* The launcher is the first of the plugins, and until its init no other has run.
LauncherFirst ==
    /\ \A i \in DOMAIN plugins : plugins[i] = "launcher" => i = 1
    /\ "launcher" \in ToSet(inits) => inits = plugins

\* A probe whose init has run is on its pipeline.
InitsDone ==
    \A p \in DOMAIN ProbeOf :
        p \in ToSet(plugins) /\ p \notin ToSet(inits) /\ ProbeOf[p] \in registered => p \in probes[ProbeOf[p]]

LibInv == LibShape /\ LauncherFirst /\ InitsDone

PC == {"idle", "do", "spawn", "stop_thread", "join", "stop_pipeline", "stuck", "dead"}

Shape ==
    /\ pc \in PC
    /\ pooling \in BOOLEAN /\ person \in BOOLEAN
    /\ thread \in {"none", "find", "reset", "loop", "ended"}
    /\ elems \in [gst : [Launched -> {"none", "made", "playing"}], lost : SUBSET Launched]
    /\ gHumans = [numbers |-> gHumans.numbers, limb |-> gHumans.limb]
    /\ blur \in [image : BOOLEAN, bg_img : BOOLEAN, callback : BOOLEAN]

\* The request of each place of the request loop.
Requested ==
    /\ pc \in {"do", "spawn", "stop_thread", "join", "stop_pipeline"} => req \in Requests /\ req[2] \in Served
    /\ pc \in {"spawn", "stop_thread", "join"} => req[2] = "pose"

\* The pose pipeline, its thread and its flag come and go together, but for what a request
\* has done so far.
Together ==
    /\ "pose" \in pipelines => elems.gst["pose"] = "playing" \/ pc \in {"stuck", "dead"}
    /\ pc \in {"idle", "do", "stop_thread"} \/ (pc = "stop_pipeline" /\ req[2] # "pose") =>
          ("pose" \in pipelines <=> thread # "none") /\ ("pose" \in pipelines <=> pooling)
    /\ pc = "spawn" => "pose" \in pipelines
    /\ pc = "join" => ~pooling
    /\ pc = "stop_pipeline" /\ req[2] = "pose" => ~pooling /\ thread = "none"

\* Whoever was polled since the timer has started is still in the result and in gHumans.
PersonKept == person => gReadResult.number # 0 /\ gHumans.numbers # 0

IInv == LibInv /\ Shape /\ Requested /\ Together /\ PersonKept /\ FreshStatus /\ BackgroundReady

-----------------------------------------------------------------------------
USE PluginAssumption, StreamingAssumption

(* The loading of the plugins. *)

LEMMA MinInSet ==
  ASSUME NEW S \in SUBSET Nat, S # {}
  PROVE  Min(S) \in S /\ \A y \in S : Min(S) <= y
  <1> DEFINE R == {ss \in Nat \X Nat : ss[1] < ss[2]}
  <1>1. IsWellFoundedOn(R, Nat)
    BY NatLessThanWellFounded, Zenon DEF OpToRel
  <1>2. \A x, y \in Nat : y < x => <<y, x>> \in R
    OBVIOUS
  <1> HIDE DEF R
  <1>3. PICK x \in S : \A y \in S : <<y, x>> \notin R
    BY <1>1, WFMin, Zenon
  <1>4. ASSUME NEW y \in S PROVE x <= y
    <2>1. x \in Nat /\ y \in Nat
      OBVIOUS
    <2>2. ~(y < x)
      BY <1>2, <1>3, <2>1, Zenon
    <2> QED
      BY <2>1, <2>2
  <1> QED
    BY <1>4, Zenon DEF Min

LEMMA InsertedAt ==
  ASSUME NEW q \in Seq(Plugin), NEW p \in Plugin, NEW k \in 1 .. Len(q) + 1
  PROVE  /\ InsertAt(q, k, p) \in Seq(Plugin) /\ Len(InsertAt(q, k, p)) = Len(q) + 1
         /\ \A i \in 1 .. Len(q) + 1 :
               InsertAt(q, k, p)[i] = IF i < k THEN q[i] ELSE IF i = k THEN p ELSE q[i - 1]
  <1> DEFINE a == SubSeq(q, 1, k - 1)
             b == SubSeq(q, k, Len(q))
  <1>1. a \in Seq(Plugin) /\ Len(a) = k - 1 /\ \A i \in 1 .. k - 1 : a[i] = q[i]
    OBVIOUS
  <1>2. b \in Seq(Plugin) /\ Len(b) = Len(q) - k + 1 /\ \A i \in 1 .. Len(q) - k + 1 : b[i] = q[k + i - 1]
    OBVIOUS
  <1> HIDE DEF a, b
  <1>3. InsertAt(q, k, p) = a \o <<p>> \o b
    BY DEF InsertAt, a, b
  <1>4. /\ a \o <<p>> \in Seq(Plugin) /\ Len(a \o <<p>>) = k
        /\ \A i \in 1 .. k : (a \o <<p>>)[i] = IF i < k THEN q[i] ELSE p
    BY <1>1
  <1> DEFINE c == a \o <<p>>
  <1> HIDE DEF c
  <1>5. c \o b \in Seq(Plugin) /\ Len(c \o b) = Len(q) + 1
        /\ \A i \in 1 .. Len(q) + 1 : (c \o b)[i] = IF i < k THEN q[i] ELSE IF i = k THEN p ELSE q[i - 1]
    <2>1. c \in Seq(Plugin) /\ Len(c) = k /\ \A i \in 1 .. k : c[i] = IF i < k THEN q[i] ELSE p
      BY <1>4 DEF c
    <2>2. Len(c \o b) = Len(q) + 1 /\ c \o b \in Seq(Plugin)
      BY <1>2, <2>1
    <2>3. ASSUME NEW i \in 1 .. Len(q) + 1, i <= k PROVE (c \o b)[i] = IF i < k THEN q[i] ELSE p
      BY <1>2, <2>1, <2>3
    <2>4. ASSUME NEW i \in 1 .. Len(q) + 1, i > k PROVE (c \o b)[i] = q[i - 1]
      <3>1. (c \o b)[i] = b[i - k] /\ i - k \in 1 .. Len(q) - k + 1
        BY <1>2, <2>1, <2>4
      <3> QED
        BY <1>2, <3>1
    <2> QED
      BY <2>2, <2>3, <2>4
  <1> QED
    BY <1>3, <1>5 DEF c

\* add_plugin leaves the launcher first.
LEMMA AddPluginIs ==
  ASSUME LibInv, NEW p \in Plugin
  PROVE  /\ AddPlugin(p) \in Seq(Plugin)
         /\ \A i \in DOMAIN AddPlugin(p) : AddPlugin(p)[i] = "launcher" => i = 1
  <1>1. CASE p \in ToSet(plugins)
    BY <1>1 DEF AddPlugin, LibInv, LibShape, LauncherFirst
  <1>2. CASE p \notin ToSet(plugins)
    <2> DEFINE S == {i \in DOMAIN plugins : Priority[plugins[i]] <= Priority[p]} \cup {Len(plugins) + 1}
               k == Min(S)
    <2>1. plugins \in Seq(Plugin)
      BY DEF LibInv, LibShape
    <2>2. S \in SUBSET (1 .. Len(plugins) + 1) /\ Len(plugins) + 1 \in S
      BY <2>1
    <2>3. k \in S /\ \A y \in S : k <= y
      <3>1. S \in SUBSET Nat /\ S # {}
        BY <2>1, <2>2
      <3> HIDE DEF S
      <3> QED
        BY <3>1, MinInSet
    <2>4. k \in 1 .. Len(plugins) + 1
      BY <2>2, <2>3
    <2>5. AddPlugin(p) = InsertAt(plugins, k, p)
      BY <1>2 DEF AddPlugin
    <2>6. p = "launcher" => k = 1
      <3> SUFFICES ASSUME p = "launcher", Len(plugins) # 0 PROVE k = 1
        BY <2>1, <2>4
      <3>1. 1 \in DOMAIN plugins /\ plugins[1] \in Plugin
        BY <2>1
      <3>2. 1 \in S
        BY <3>1 DEF Priority, Plugin
      <3> HIDE DEF S, k
      <3> QED
        BY <2>3, <2>4, <3>2
    <2>7. k = 1 /\ p # "launcher" => \A i \in DOMAIN plugins : plugins[i] # "launcher"
      <3> SUFFICES ASSUME k = 1, p # "launcher", NEW i \in DOMAIN plugins, plugins[i] = "launcher" PROVE FALSE
        OBVIOUS
      <3>1. i = 1 /\ Len(plugins) >= 1
        BY <2>1 DEF LibInv, LauncherFirst
      <3>2. Priority[plugins[1]] = 0 /\ Priority[p] = -10
        BY <3>1 DEF Priority, Plugin
      <3> QED
        BY <2>1, <2>3, <3>1, <3>2
    <2> HIDE DEF k, S
    <2> DEFINE new == InsertAt(plugins, k, p)
    <2>8. /\ new \in Seq(Plugin) /\ Len(new) = Len(plugins) + 1
          /\ \A i \in 1 .. Len(plugins) + 1 : new[i] = IF i < k THEN plugins[i] ELSE IF i = k THEN p ELSE plugins[i - 1]
      BY <2>1, <2>4, InsertedAt
    <2> HIDE DEF new
    <2>9. ASSUME NEW i \in DOMAIN new, new[i] = "launcher" PROVE i = 1
      <3>1. i \in 1 .. Len(plugins) + 1
        BY <2>8
      <3>2. CASE i < k
        <4>1. i \in DOMAIN plugins /\ plugins[i] = "launcher"
          BY <2>1, <2>4, <2>8, <2>9, <3>1, <3>2
        <4> QED
          BY <4>1 DEF LibInv, LauncherFirst
      <3>3. CASE i = k
        BY <2>6, <2>8, <2>9, <3>1, <3>3
      <3>4. CASE i > k
        <4>1. i - 1 \in DOMAIN plugins /\ plugins[i - 1] = "launcher"
          BY <2>1, <2>4, <2>8, <2>9, <3>1, <3>4
        <4>2. i - 1 = 1
          BY <4>1 DEF LibInv, LauncherFirst
        <4>3. k = 1
          BY <2>4, <3>4, <3>1, <4>2
        <4>4. p = "launcher"
          BY <2>7, <4>1, <4>3
        <4> QED
          BY <1>2, <4>1, <4>4 DEF ToSet
      <3> QED
        BY <2>4, <3>1, <3>2, <3>3, <3>4
    <2> QED
      BY <2>5, <2>8, <2>9 DEF new
  <1> QED
    BY <1>1, <1>2

LEMMA LoadPluginInv ==
  ASSUME LibInv, LoadPlugin
  PROVE  LibInv'
  <1>1. PICK f \in todo : /\ todo' = todo \ {f} /\ inits' = plugins' /\ UNCHANGED <<registered, probes>>
                          /\ plugins' = plugins \/ plugins' = AddPlugin(f[2])
    BY DEF LoadPlugin
  <1>2. f[2] \in Plugin /\ registered = {}
    BY <1>1 DEF LibInv, LibShape
  <1>3. plugins' \in Seq(Plugin) /\ \A i \in DOMAIN plugins' : plugins'[i] = "launcher" => i = 1
    BY <1>1, <1>2, AddPluginIs DEF LibInv, LibShape, LauncherFirst
  <1> QED
    BY <1>1, <1>2, <1>3 DEF LibInv, LibShape, LauncherFirst, InitsDone

\* The set of a sequence loses at most the head with its tail.
LEMMA ToSetTail ==
  ASSUME NEW q \in Seq(Plugin), q # <<>>
  PROVE  /\ Tail(q) \in Seq(Plugin) /\ Head(q) = q[1] /\ Head(q) \in ToSet(q)
         /\ \A x : x \in ToSet(q) => x = Head(q) \/ x \in ToSet(Tail(q))
         /\ \A x \in ToSet(Tail(q)) : \E i \in DOMAIN q : i # 1 /\ q[i] = x
  <1>1. Len(q) >= 1 /\ Len(Tail(q)) = Len(q) - 1 /\ Tail(q) \in Seq(Plugin) /\ Head(q) = q[1]
        /\ \A i \in 1 .. Len(q) - 1 : Tail(q)[i] = q[i + 1]
    OBVIOUS
  <1>2. Head(q) \in ToSet(q)
    BY <1>1 DEF ToSet
  <1>3. ASSUME NEW x \in ToSet(q), x # Head(q) PROVE x \in ToSet(Tail(q))
    <2>1. PICK i \in 1 .. Len(q) : q[i] = x
      BY DEF ToSet
    <2>2. i - 1 \in 1 .. Len(Tail(q)) /\ Tail(q)[i - 1] = x
      BY <1>1, <1>3, <2>1
    <2>3. DOMAIN Tail(q) = 1 .. Len(Tail(q))
      BY <1>1
    <2> QED
      BY <2>2, <2>3, Zenon DEF ToSet
  <1>4. ASSUME NEW x \in ToSet(Tail(q)) PROVE \E i \in DOMAIN q : i # 1 /\ q[i] = x
    <2>1. PICK i \in 1 .. Len(q) - 1 : Tail(q)[i] = x
      BY <1>1 DEF ToSet
    <2>2. i + 1 \in DOMAIN q /\ i + 1 # 1 /\ q[i + 1] = x
      BY <1>1, <2>1
    <2> QED
      BY <2>2
  <1> QED
    BY <1>1, <1>2, <1>3, <1>4

LEMMA InitPluginInv ==
  ASSUME LibInv, InitPlugin
  PROVE  LibInv'
  <1> DEFINE h == Head(inits)
  <1>1. /\ todo = {} /\ inits # <<>> /\ inits' = Tail(inits) /\ UNCHANGED <<todo, plugins>>
        /\ inits \in Seq(Plugin) /\ h \in Plugin
    BY DEF InitPlugin, LibInv, LibShape
  <1>2. /\ inits' \in Seq(Plugin) /\ h = inits[1] /\ h \in ToSet(inits)
        /\ \A x : x \in ToSet(inits) => x = h \/ x \in ToSet(inits')
        /\ \A x \in ToSet(inits') : \E i \in DOMAIN inits : i # 1 /\ inits[i] = x
    BY <1>1, ToSetTail
  <1>3. "launcher" \notin ToSet(inits')
    <2> SUFFICES ASSUME "launcher" \in ToSet(inits') PROVE FALSE
      OBVIOUS
    <2>1. PICK i \in DOMAIN inits : i # 1 /\ inits[i] = "launcher"
      BY <1>2
    <2>2. "launcher" \in ToSet(inits)
      BY <2>1 DEF ToSet
    <2> QED
      BY <2>1, <2>2 DEF LibInv, LauncherFirst
  <1>4. LauncherFirst'
    BY <1>1, <1>3 DEF LibInv, LauncherFirst
  <1>5. DOMAIN ProbeOf = {"pose", "emotion"} /\ ProbeOf["pose"] = "pose" /\ ProbeOf["emotion"] = "emotion2"
    BY DEF ProbeOf
  <1> HIDE DEF h
  <1>6. CASE h = "launcher"
    <2>1. UNCHANGED probes
      BY <1>6 DEF InitPlugin, LauncherInit, h
    <2>2. \A p \in ToSet(plugins) : p # "launcher" => p \in ToSet(inits')
      BY <1>2, <1>6 DEF LibInv, LauncherFirst
    <2>3. InitsDone'
      BY <1>1, <1>5, <2>2 DEF InitsDone
    <2> QED
      BY <1>1, <1>2, <1>4, <2>1, <2>3 DEF LibInv, LibShape
  <1>7. CASE h = "backgroundblur"
    <2>1. UNCHANGED probes /\ registered' = registered \cup {"backgroundblur"}
      BY <1>7 DEF InitPlugin, BlurInit, h
    <2>2. InitsDone'
      BY <1>1, <1>2, <1>5, <1>7, <2>1 DEF LibInv, InitsDone
    <2> QED
      BY <1>1, <1>2, <1>4, <2>1, <2>2 DEF LibInv, LibShape
  <1>8. CASE h \in {"pose", "emotion"}
    <2>1. UNCHANGED registered /\ probes' = IF ProbeOf[h] \in registered
                 THEN [probes EXCEPT ![ProbeOf[h]] = @ \cup {h}] ELSE probes
      BY <1>8 DEF InitPlugin, ProbeInit, h
    <2>2. ProbeOf[h] \in Launched
      BY <1>5, <1>8 DEF Launched
    <2>3. /\ probes' \in [Launched -> SUBSET Plugin]
          /\ \A p \in Launched : probes[p] \subseteq probes'[p]
          /\ ProbeOf[h] \in registered => h \in probes'[ProbeOf[h]]
      BY <1>1, <2>1, <2>2 DEF LibInv, LibShape
    <2>4. InitsDone'
      BY <1>1, <1>2, <1>5, <2>1, <2>3 DEF LibInv, InitsDone, Launched
    <2> QED
      BY <1>1, <1>2, <1>4, <2>3, <2>4 DEF LibInv, LibShape
  <1> QED
    BY <1>1, <1>6, <1>7, <1>8 DEF Plugin

-----------------------------------------------------------------------------
(* The service. *)

LEMMA PoseServed ==
  ASSUME NEW r \in Requests, r[1] \notin {"refused", "healthcheck", "notjson"}
  PROVE  /\ r[2] \in Served /\ r[2] \in Pipeline
         /\ r[3] # "none" => r[2] = "backgroundblur"
         /\ r[3] \in BlurConfigs
  BY DEF Requests, BlurConfigs

LEMMA InitInv == Init => IInv
  <1> SUFFICES ASSUME Init PROVE IInv
    OBVIOUS
  <1>1. LibInv
    BY DEF Init, LibInit, LibInv, LibShape, LauncherFirst, InitsDone, ToSet
  <1>2. Shape
    BY DEF Init, ServiceInit, Shape, PC, NoElements
  <1>3. Requested /\ Together /\ PersonKept
    BY DEF Init, ServiceInit, Requested, Together, PersonKept
  <1> QED
    BY <1>1, <1>2, <1>3 DEF Init, ServiceInit, IInv, FreshStatus, BackgroundReady

\* Parts that depend on a few variables each.
LEMMA LibKept ==
  ASSUME LibInv, UNCHANGED libVars
  PROVE  LibInv'
  BY DEF LibInv, libVars, LibShape, LauncherFirst, InitsDone, ToSet

LEMMA AcceptInv ==
  ASSUME IInv, Accept
  PROVE  IInv'
  <1>1. PICK r \in Requests : IF r[1] \in {"refused", "healthcheck", "notjson"} THEN UNCHANGED <<pc, req>> ELSE pc' = "do" /\ req' = r
    BY DEF Accept
  <1>2. LibInv'
    BY LibKept DEF IInv, Accept
  <1>3. Shape' /\ PersonKept' /\ BackgroundReady' /\ FreshStatus'
    BY <1>1 DEF IInv, Accept, Shape, PC, PersonKept, BackgroundReady, FreshStatus
  <1>4. Requested' /\ Together'
    BY <1>1, PoseServed DEF IInv, Accept, Requested, Together
  <1> QED
    BY <1>2, <1>3, <1>4 DEF IInv

\* What a start leaves of the elements: the others' are as they were, and the pose pipeline's is
\* playing when the start succeeds.
LEMMA Started ==
  ASSUME Shape, NEW p \in Pipeline, NEW how \in CreateOutcomes(p), NEW plays \in BOOLEAN, NEW e,
         e = IF CreateOk(p, how) THEN LaunchStart(PipelineCreate(elems, p, how), Under(p), plays) ELSE PipelineCreate(elems, p, how)
  PROVE  /\ e \in [gst : [Launched -> {"none", "made", "playing"}], lost : SUBSET Launched]
         /\ p # "pose" => e.gst["pose"] = elems.gst["pose"]
         /\ p = "pose" /\ CreateOk(p, how) /\ StartOk(p, plays) => e.gst["pose"] = "playing"
  <1> DEFINE T == [gst : [Launched -> {"none", "made", "playing"}], lost : SUBSET Launched]
  <1>1. Under(p) \in Launched /\ (p # "pose" => Under(p) # "pose") /\ (p = "pose" => Under(p) = "pose") /\ elems \in T /\ "pose" \in Launched
    BY DEF Under, Pipeline, Launched, Shape
  <1>2. ASSUME NEW x \in T, NEW u \in Launched, NEW w
        PROVE  LaunchCreate(x, u, w) \in T /\ (u # "pose" => LaunchCreate(x, u, w).gst["pose"] = x.gst["pose"])
    BY <1>1 DEF LaunchCreate
  <1>3. ASSUME NEW x \in T, NEW u \in Launched
        PROVE  /\ LaunchRemove(x, u) \in T /\ (u # "pose" => LaunchRemove(x, u).gst["pose"] = x.gst["pose"])
               /\ LaunchStart(x, u, plays) \in T /\ (u # "pose" => LaunchStart(x, u, plays).gst["pose"] = x.gst["pose"])
               /\ plays => LaunchStart(x, u, plays).gst[u] = "playing"
    BY <1>1 DEF LaunchRemove, LaunchStart
  <1> DEFINE made == PipelineCreate(elems, p, how)
  <1>4. made \in T /\ (p # "pose" => made.gst["pose"] = elems.gst["pose"])
    <2> HIDE DEF T
    <2> DEFINE ok == LaunchCreate(elems, Under(p), "ok")
               any == LaunchCreate(elems, Under(p), how)
    <2>1. ok \in T /\ any \in T /\ (p # "pose" => ok.gst["pose"] = elems.gst["pose"] /\ any.gst["pose"] = elems.gst["pose"])
      BY <1>1, <1>2
    <2>2. LaunchRemove(ok, Under(p)) \in T /\ (p # "pose" => LaunchRemove(ok, Under(p)).gst["pose"] = elems.gst["pose"])
      BY <1>1, <1>3, <2>1
    <2>3. made \in {elems, any, LaunchRemove(ok, Under(p))}
      BY DEF PipelineCreate
    <2> QED
      BY <1>1, <2>1, <2>2, <2>3
  <1> HIDE DEF T, made
  <1>5. e = IF CreateOk(p, how) THEN LaunchStart(made, Under(p), plays) ELSE made
    BY DEF made
  <1> QED
    BY <1>1, <1>3, <1>4, <1>5 DEF StartOk, T

\* What is left of the callback of backgroundblur.
LEMMA BlurKept ==
  ASSUME Shape, BackgroundReady, NEW p, NEW how, NEW o
  PROVE  /\ Blurred(p, how) \in [image : BOOLEAN, bg_img : BOOLEAN, callback : BOOLEAN]
         /\ Blurred(p, how).image => Blurred(p, how).bg_img
         /\ Configured(Blurred(p, how), o) \in [image : BOOLEAN, bg_img : BOOLEAN, callback : BOOLEAN]
         /\ Configured(Blurred(p, how), o).image => Configured(Blurred(p, how), o).bg_img
         /\ Configured(blur, o) \in [image : BOOLEAN, bg_img : BOOLEAN, callback : BOOLEAN]
         /\ Configured(blur, o).image => Configured(blur, o).bg_img
  <1> DEFINE T == [image : BOOLEAN, bg_img : BOOLEAN, callback : BOOLEAN]
  <1>1. Blurred(p, how) \in T /\ (Blurred(p, how).image => Blurred(p, how).bg_img)
    BY DEF Blurred, Shape, BackgroundReady
  <1>2. ASSUME NEW b \in T, b.image => b.bg_img
        PROVE  Configured(b, o) \in T /\ (Configured(b, o).image => Configured(b, o).bg_img)
    BY <1>2 DEF Configured
  <1>3. blur \in T /\ (blur.image => blur.bg_img)
    BY DEF Shape, BackgroundReady
  <1> HIDE DEF T
  <1> QED
    BY <1>1, <1>2, <1>3 DEF T

LEMMA StartInv ==
  ASSUME IInv, Start
  PROVE  IInv'
  <1> DEFINE p == req[2]
  <1>1. /\ pc = "do" /\ req[1] = "start" /\ req \in Requests /\ req[2] \in Served /\ req[2] \in Pipeline
        /\ (req[2] = "pose" => req[3] = "none") /\ person' = FALSE
        /\ UNCHANGED <<libVars, pooling, thread, gHumans, polled, seen>>
        /\ ("pose" \in pipelines <=> thread # "none") /\ ("pose" \in pipelines <=> pooling)
    BY PoseServed DEF Start, IInv, Requested, Together
  <1>2. LibInv' /\ FreshStatus' /\ PersonKept'
    BY <1>1, LibKept DEF IInv, FreshStatus, PersonKept
  <1>3. CASE p \in pipelines /\ UNCHANGED <<elems, gReadResult, blur, pipelines, torn>>
             /\ IF p = "pose" THEN pc' = "spawn" /\ UNCHANGED req ELSE Reply
    BY <1>1, <1>2, <1>3 DEF IInv, Shape, PC, Requested, Together, BackgroundReady, Reply
  <1>4. CASE p \notin pipelines /\ StartNew(p, req[3])
    <2>1. PICK how \in CreateOutcomes(p), plays \in BOOLEAN :
            LET made == PipelineCreate(elems, p, how)
                ok == CreateOk(p, how) /\ StartOk(p, plays)
            IN  /\ elems' = IF CreateOk(p, how) THEN LaunchStart(made, Under(p), plays) ELSE made
                /\ IF ~ok
                   THEN Reply /\ blur' = Blurred(p, how) /\ UNCHANGED <<pipelines, torn>>
                   ELSE \E o \in ConfigOutcomes(req[3]) :
                            /\ blur' = Configured(Blurred(p, how), o)
                            /\ IF o = "crash"
                               THEN Die /\ UNCHANGED <<pipelines, torn>>
                               ELSE /\ pipelines' = pipelines \cup {p}
                                    /\ IF p = "pose" THEN pc' = "spawn" /\ UNCHANGED req ELSE Reply
      BY <1>4 DEF StartNew
    <2>2. /\ elems' \in [gst : [Launched -> {"none", "made", "playing"}], lost : SUBSET Launched]
          /\ p # "pose" => elems'.gst["pose"] = elems.gst["pose"]
          /\ p = "pose" /\ CreateOk(p, how) /\ StartOk(p, plays) => elems'.gst["pose"] = "playing"
      BY <1>1, <2>1, Started DEF IInv
    <2>3. blur' \in [image : BOOLEAN, bg_img : BOOLEAN, callback : BOOLEAN] /\ BackgroundReady'
      BY <2>1, BlurKept DEF IInv, BackgroundReady
    <2>4. \/ Reply /\ UNCHANGED pipelines
          \/ Die
          \/ /\ pipelines' = pipelines \cup {p} /\ CreateOk(p, how) /\ StartOk(p, plays)
             /\ IF p = "pose" THEN pc' = "spawn" /\ UNCHANGED req ELSE Reply
      BY <2>1
    <2>5. Die => p # "pose" /\ UNCHANGED pipelines
      BY <1>1, <2>1 DEF ConfigOutcomes, Die, Reply
    <2>6. Shape'
      BY <1>1, <2>2, <2>3, <2>4 DEF IInv, Shape, PC, Reply, Die
    <2>7. Requested'
      BY <1>1, <2>4 DEF Requested, Reply, Die
    <2>8. Together'
      BY <1>1, <1>4, <2>2, <2>4, <2>5 DEF IInv, Together, Reply, Die
    <2> QED
      BY <1>2, <2>3, <2>6, <2>7, <2>8 DEF IInv
  <1> QED
    BY <1>3, <1>4 DEF Start

LEMMA SpawnInv ==
  ASSUME IInv, Spawn
  PROVE  IInv'
  <1>1. LibInv'
    BY LibKept DEF IInv, Spawn
  <1>2. Shape' /\ PersonKept' /\ BackgroundReady' /\ FreshStatus'
    BY DEF IInv, Spawn, Shape, PC, PersonKept, BackgroundReady, FreshStatus, Reply, Die
  <1>3. Requested' /\ Together'
    BY DEF IInv, Spawn, Requested, Together, Reply, Die
  <1> QED
    BY <1>1, <1>2, <1>3 DEF IInv

LEMMA StopInv ==
  ASSUME IInv, Stop
  PROVE  IInv'
  <1>1. LibInv'
    BY LibKept DEF IInv, Stop
  <1>2. Shape' /\ PersonKept' /\ BackgroundReady' /\ FreshStatus'
    BY DEF IInv, Stop, Shape, PC, PersonKept, BackgroundReady, FreshStatus
  <1>3. Requested' /\ Together'
    BY DEF IInv, Stop, Requested, Together
  <1> QED
    BY <1>1, <1>2, <1>3 DEF IInv

LEMMA StopThreadInv ==
  ASSUME IInv, StopThread
  PROVE  IInv'
  <1>1. LibInv'
    BY LibKept DEF IInv, StopThread
  <1>2. Shape' /\ PersonKept' /\ BackgroundReady' /\ FreshStatus'
    BY DEF IInv, StopThread, Shape, PC, PersonKept, BackgroundReady, FreshStatus
  <1>3. Requested' /\ Together'
    BY DEF IInv, StopThread, Requested, Together
  <1> QED
    BY <1>1, <1>2, <1>3 DEF IInv

LEMMA StartHangsInv ==
  ASSUME IInv, StartHangs
  PROVE  IInv'
  <1> DEFINE p == req[2]
             T == [gst : [Launched -> {"none", "made", "playing"}], lost : SUBSET Launched]
  <1>1. /\ p \in Pipeline /\ p \notin pipelines /\ pc' = "stuck" /\ person' = FALSE
        /\ UNCHANGED <<libVars, pipelines, pooling, thread, gHumans, seen>>
    BY DEF StartHangs, IInv, Requested
  <1>2. PICK how \in CreateOutcomes(p) :
          /\ CreateOk(p, how) /\ blur' = Blurred(p, how)
          /\ elems' = LaunchStart(PipelineCreate(elems, p, how), Under(p), TRUE)
    BY DEF StartHangs
  <1>3. elems' \in T
    BY <1>1, <1>2, Started DEF IInv
  <1>4. blur' \in [image : BOOLEAN, bg_img : BOOLEAN, callback : BOOLEAN] /\ BackgroundReady'
    BY <1>2, BlurKept DEF IInv, BackgroundReady
  <1>5. LibInv' /\ FreshStatus' /\ PersonKept'
    BY <1>1, LibKept DEF IInv, FreshStatus, PersonKept
  <1>6. Shape' /\ Requested' /\ Together'
    BY <1>1, <1>3, <1>4 DEF IInv, Shape, PC, Requested, Together
  <1> QED
    BY <1>4, <1>5, <1>6 DEF IInv

LEMMA StopHangsInv ==
  ASSUME IInv, StopHangs
  PROVE  IInv'
  <1> DEFINE T == [gst : [Launched -> {"none", "made", "playing"}], lost : SUBSET Launched]
  <1>1. /\ req[2] \in Pipeline /\ pc' = "stuck" /\ elems' = LaunchStop(elems, Under(req[2]))
        /\ UNCHANGED <<libVars, pipelines, pooling, thread, gHumans, gReadResult, blur, seen, person>>
    BY DEF StopHangs, IInv, Requested
  <1>2. elems' \in T
    <2>1. Under(req[2]) \in Launched /\ elems \in T
      BY <1>1 DEF IInv, Shape, Under, Pipeline, Launched
    <2> QED
      BY <1>1, <2>1 DEF LaunchStop
  <1>3. LibInv' /\ FreshStatus' /\ PersonKept' /\ BackgroundReady'
    BY <1>1, LibKept DEF IInv, FreshStatus, PersonKept, BackgroundReady
  <1>4. Shape' /\ Requested' /\ Together'
    BY <1>1, <1>2 DEF IInv, Shape, PC, Requested, Together
  <1> QED
    BY <1>3, <1>4 DEF IInv

LEMMA KilledInv ==
  ASSUME IInv, Killed
  PROVE  IInv'
  <1>1. LibInv'
    BY LibKept DEF IInv, Killed
  <1>2. Shape' /\ PersonKept' /\ BackgroundReady' /\ FreshStatus'
    BY DEF IInv, Killed, Shape, PC, PersonKept, BackgroundReady, FreshStatus, Die
  <1>3. Requested' /\ Together'
    BY DEF IInv, Killed, Requested, Together, Die
  <1> QED
    BY <1>1, <1>2, <1>3 DEF IInv

LEMMA JoinInv ==
  ASSUME IInv, Join
  PROVE  IInv'
  <1>1. LibInv'
    BY LibKept DEF IInv, Join
  <1>2. Shape' /\ PersonKept' /\ BackgroundReady' /\ FreshStatus'
    BY DEF IInv, Join, Shape, PC, PersonKept, BackgroundReady, FreshStatus
  <1>3. Requested' /\ Together'
    BY DEF IInv, Join, Requested, Together
  <1> QED
    BY <1>1, <1>2, <1>3 DEF IInv

\* A pose pipeline in the map is playing, so its stop succeeds and it leaves the map.
LEMMA StopPipelineInv ==
  ASSUME IInv, StopPipeline
  PROVE  IInv'
  <1> DEFINE p == req[2]
             stopped == p \in pipelines /\ StopOk(elems, p)
  <1>1. /\ elems' = IF stopped THEN PipelineStopRemove(elems, p) ELSE elems
        /\ pipelines' = IF stopped THEN pipelines \ {p} ELSE pipelines
        /\ pc = "stop_pipeline" /\ pc' = "idle"
        /\ UNCHANGED <<libVars, pooling, thread, gHumans, gReadResult, gDelayTimer, blur, polled, seen, person>>
    BY DEF StopPipeline, Reply
  <1>2. p \in Pipeline /\ "pose" \in Launched
    BY <1>1 DEF IInv, Requested, Launched
  <1>3. elems' \in [gst : [Launched -> {"none", "made", "playing"}], lost : SUBSET Launched]
        /\ (p # "pose" => elems'.gst["pose"] = elems.gst["pose"])
    <2>1. Under(p) \in Launched /\ (p # "pose" => Under(p) # "pose")
      BY <1>2 DEF Under, Pipeline, Launched
    <2>2. elems \in [gst : [Launched -> {"none", "made", "playing"}], lost : SUBSET Launched]
      BY DEF IInv, Shape
    <2> QED
      BY <1>1, <1>2, <2>1, <2>2 DEF PipelineStopRemove, LaunchRemove, LaunchStop
  <1>4. p = "pose" => "pose" \notin pipelines'
    BY <1>1 DEF IInv, Together, StopOk, LaunchStopOk
  <1>5. LibInv'
    BY <1>1, LibKept DEF IInv
  <1>6. Shape' /\ PersonKept' /\ BackgroundReady' /\ FreshStatus'
    BY <1>1, <1>3 DEF IInv, Shape, PC, PersonKept, BackgroundReady, FreshStatus
  <1>7. Requested' /\ Together'
    BY <1>1, <1>3, <1>4 DEF IInv, Requested, Together
  <1> QED
    BY <1>5, <1>6, <1>7 DEF IInv

LEMMA ReadInv ==
  ASSUME IInv, Read
  PROVE  IInv'
  <1>1. LibInv'
    BY LibKept DEF IInv, Read
  <1>2. Shape' /\ PersonKept' /\ BackgroundReady' /\ FreshStatus'
    BY DEF IInv, Read, Shape, PC, PersonKept, BackgroundReady, FreshStatus, Reply
  <1>3. /\ pc = "do" /\ req[1] = "read" /\ UNCHANGED <<pipelines, elems, thread>>
        /\ \/ pc' = "stop_thread" /\ UNCHANGED req /\ req[2] = "pose"
           \/ pc' = "idle"
        /\ UNCHANGED pooling
    BY DEF Read, Reply
  <1>4. Requested' /\ Together'
    BY <1>3 DEF IInv, Requested, Together
  <1> QED
    BY <1>1, <1>2, <1>4 DEF IInv

LEMMA ConfigInv ==
  ASSUME IInv, Config
  PROVE  IInv'
  <1>1. LibInv'
    BY LibKept DEF IInv, Config
  <1>2. (Reply \/ Die) /\ blur' \in [image : BOOLEAN, bg_img : BOOLEAN, callback : BOOLEAN] /\ BackgroundReady'
    <2>1. blur' = blur \/ \E o : blur' = Configured(blur, o)
      BY DEF Config
    <2>2. Reply \/ Die
      BY DEF Config
    <2> QED
      BY <2>1, <2>2, BlurKept DEF IInv, Shape, BackgroundReady
  <1>3. Shape' /\ PersonKept' /\ FreshStatus'
    BY <1>2 DEF IInv, Config, Shape, PC, PersonKept, FreshStatus, Reply, Die
  <1>4. Requested' /\ Together'
    BY <1>2 DEF IInv, Config, Requested, Together, Reply, Die
  <1> QED
    BY <1>1, <1>2, <1>3, <1>4 DEF IInv

-----------------------------------------------------------------------------
(* The polling thread, the frames and the clock. *)

LEMMA PollFindInv ==
  ASSUME IInv, PollFind
  PROVE  IInv'
  <1>1. LibInv'
    BY LibKept DEF IInv, PollFind
  <1>2. Shape' /\ PersonKept' /\ BackgroundReady' /\ FreshStatus'
    BY DEF IInv, PollFind, Shape, PC, PersonKept, BackgroundReady, FreshStatus, Die
  <1>3. Requested' /\ Together'
    BY DEF IInv, PollFind, Requested, Together, Die
  <1> QED
    BY <1>1, <1>2, <1>3 DEF IInv

LEMMA PollResetInv ==
  ASSUME IInv, PollReset
  PROVE  IInv'
  <1>1. LibInv'
    BY LibKept DEF IInv, PollReset
  <1>2. gHumans' = [numbers |-> gHumans.numbers, limb |-> [i \in People |-> LimbReset]]
    BY DEF PollReset, IInv, Shape
  <1>3. FreshStatus'
    BY <1>2 DEF FreshStatus, LimbReset
  <1>4. Shape' /\ PersonKept' /\ BackgroundReady'
    BY <1>2 DEF IInv, PollReset, Shape, PC, PersonKept, BackgroundReady
  <1>5. Requested' /\ Together'
    BY DEF IInv, PollReset, Requested, Together
  <1> QED
    BY <1>1, <1>3, <1>4, <1>5 DEF IInv

\* update_status takes a status from the last sample or keeps it.
LEMMA UpdateStatusIs ==
  ASSUME NEW r, NEW i \in People
  PROVE  /\ UpdateStatus(r).numbers = r.number
         /\ UpdateStatus(r) = [numbers |-> UpdateStatus(r).numbers, limb |-> UpdateStatus(r).limb]
         /\ UpdateStatus(r).limb[i].current \in {gHumans.limb[i].current, r.limb[i], INVALID}
  <1>1. UpdateStatus(r).numbers = r.number /\ UpdateStatus(r) = [numbers |-> UpdateStatus(r).numbers, limb |-> UpdateStatus(r).limb]
    BY DEF UpdateStatus
  <1>2. UpdateStatus(r).limb[i] \in {LimbUpdate(gHumans.limb[i], r.limb[i]), LimbReset, gHumans.limb[i]}
    BY DEF UpdateStatus
  <1>3. LimbUpdate(gHumans.limb[i], r.limb[i]).current \in {gHumans.limb[i].current, r.limb[i]}
    BY DEF LimbUpdate
  <1>4. LimbReset.current = INVALID
    BY DEF LimbReset
  <1> QED
    BY <1>1, <1>2, <1>3, <1>4

LEMMA PollInv ==
  ASSUME IInv, Poll
  PROVE  IInv'
  <1>1. LibInv'
    BY LibKept DEF IInv, Poll
  <1>2. CASE ~pooling /\ thread' = "ended" /\ UNCHANGED <<gHumans, polled, seen, person>>
    <2>1. Shape' /\ PersonKept' /\ BackgroundReady' /\ FreshStatus'
      BY <1>2 DEF IInv, Poll, Shape, PersonKept, BackgroundReady, FreshStatus
    <2>2. Requested' /\ Together'
      BY <1>2 DEF IInv, Poll, Requested, Together
    <2> QED
      BY <1>1, <2>1, <2>2 DEF IInv
  <1>3. CASE pooling /\ UNCHANGED <<thread, gHumans, seen, person>>
    <2>1. Shape' /\ PersonKept' /\ BackgroundReady' /\ FreshStatus'
      BY <1>3 DEF IInv, Poll, Shape, PersonKept, BackgroundReady, FreshStatus
    <2>2. Requested' /\ Together'
      BY <1>3 DEF IInv, Poll, Requested, Together
    <2> QED
      BY <1>1, <2>1, <2>2 DEF IInv
  <1>4. CASE /\ pooling /\ UNCHANGED thread /\ gHumans' = UpdateStatus(gReadResult)
             /\ seen' = seen \cup {<<i, gReadResult.limb[i]>> : i \in {j \in People : gReadResult.limb[j] # INVALID}}
             /\ person' = (person \/ gReadResult.number # 0)
    <2>1. FreshStatus'
      <3> SUFFICES ASSUME NEW i \in People, gHumans'.limb[i].current # INVALID PROVE <<i, gHumans'.limb[i].current>> \in seen'
        BY DEF FreshStatus
      <3>1. gHumans'.limb[i].current \in {gHumans.limb[i].current, gReadResult.limb[i]}
        BY <1>4, UpdateStatusIs
      <3>2. CASE gHumans'.limb[i].current = gHumans.limb[i].current
        BY <1>4, <3>2 DEF IInv, FreshStatus, Poll
      <3>3. CASE gHumans'.limb[i].current = gReadResult.limb[i]
        BY <1>4, <3>3
      <3> QED
        BY <3>1, <3>2, <3>3
    <2>2. gHumans' = [numbers |-> gHumans'.numbers, limb |-> gHumans'.limb] /\ gHumans'.numbers = gReadResult.number
      BY <1>4 DEF UpdateStatus
    <2>3. Shape'
      BY <1>4, <2>2 DEF IInv, Poll, Shape
    <2>4. PersonKept'
      BY <1>4, <2>2 DEF IInv, Poll, PersonKept, Shape
    <2>5. Requested' /\ Together' /\ BackgroundReady'
      BY <1>4 DEF IInv, Poll, Requested, Together, BackgroundReady
    <2> QED
      BY <1>1, <2>1, <2>3, <2>4, <2>5 DEF IInv
  <1> QED
    BY <1>2, <1>3, <1>4 DEF Poll

\* A frame replaces the result by one with somebody in it, or leaves it.
LEMMA PoseFrameInv ==
  ASSUME IInv, PoseFrame
  PROVE  IInv'
  <1>1. gReadResult' = gReadResult \/ gReadResult'.number # 0
    <2>1. \A poses, hits, limb : Found(poses, hits, limb) = gReadResult \/ Found(poses, hits, limb).number # 0
      BY DEF Found
    <2>2. \E poses, hits, limb : gReadResult' = Found(poses, hits, limb)
      BY Zenon DEF PoseFrame
    <2> QED
      BY <2>1, <2>2
  <1>2. LibInv'
    BY LibKept DEF IInv, PoseFrame
  <1>3. Shape' /\ PersonKept' /\ BackgroundReady' /\ FreshStatus'
    BY <1>1 DEF IInv, PoseFrame, Shape, PersonKept, BackgroundReady, FreshStatus
  <1>4. Requested' /\ Together'
    BY DEF IInv, PoseFrame, Requested, Together
  <1> QED
    BY <1>2, <1>3, <1>4 DEF IInv

LEMMA BlurFrameFailsInv ==
  ASSUME IInv, BlurFrameFails
  PROVE  IInv'
  <1>1. LibInv'
    BY LibKept DEF IInv, BlurFrameFails
  <1>2. Shape' /\ PersonKept' /\ BackgroundReady' /\ FreshStatus'
    BY DEF IInv, BlurFrameFails, Shape, PC, PersonKept, BackgroundReady, FreshStatus, Die
  <1>3. Requested' /\ Together'
    BY DEF IInv, BlurFrameFails, Requested, Together, Die
  <1> QED
    BY <1>1, <1>2, <1>3 DEF IInv

LEMMA TickInv ==
  ASSUME IInv, Tick
  PROVE  IInv'
  <1>1. LibInv'
    BY LibKept DEF IInv, Tick
  <1> QED
    BY <1>1 DEF IInv, Tick, Shape, PersonKept, BackgroundReady, FreshStatus, Requested, Together

LEMMA RestartInv ==
  ASSUME IInv, Restart
  PROVE  IInv'
  <1>1. LibInv'
    BY DEF Restart, LibInv, LibShape, LauncherFirst, InitsDone, ToSet
  <1>2. Shape'
    BY DEF Restart, Shape, PC, NoElements
  <1> QED
    BY <1>1, <1>2 DEF Restart, IInv, PersonKept, BackgroundReady, FreshStatus, Requested, Together

LEMMA LoadPluginsInv ==
  ASSUME IInv, LoadPlugins
  PROVE  IInv'
  <1>1. LibInv'
    BY LoadPluginInv, InitPluginInv DEF LoadPlugins, IInv
  <1>2. UNCHANGED serviceVars
    BY DEF LoadPlugins
  <1> QED
    BY <1>1, <1>2 DEF IInv, serviceVars, Shape, PersonKept, BackgroundReady, FreshStatus, Requested, Together

LEMMA StutterInv ==
  ASSUME IInv, UNCHANGED vars
  PROVE  IInv'
  <1>1. LibInv'
    BY LibKept DEF IInv, vars
  <1> QED
    BY <1>1 DEF IInv, vars, serviceVars, Shape, PersonKept, BackgroundReady, FreshStatus, Requested, Together

LEMMA Invariance == Spec => []IInv
  <1>1. IInv /\ [Next]_vars => IInv'
    BY LoadPluginsInv, AcceptInv, StartInv, StartHangsInv, SpawnInv, StopInv, StopThreadInv, JoinInv, StopPipelineInv, StopHangsInv, KilledInv, ReadInv, ConfigInv, PollFindInv,
       PollResetInv, PollInv, PoseFrameInv, BlurFrameFailsInv, TickInv, RestartInv, StutterInv DEF Next, Handle, PollThread
  <1> QED
    BY <1>1, InitInv, PTL DEF Spec

-----------------------------------------------------------------------------
(* The properties. *)

\* Whatever files the plugin directories hold and in whatever order plugin_init reads them,
\* the probes of the loaded plugins are on their pipelines.
THEOREM ProbesProved == Spec => []ProbesAttached
  <1>1. IInv => ProbesAttached
    BY DEF IInv, LibInv, InitsDone, ProbesAttached, Loaded, ToSet
  <1> QED
    BY <1>1, Invariance, PTL

\* Between two requests of do_streaming the polling thread lives with the pose pipeline.
THEOREM PolledProved == Spec => []PolledWhileStarted
  <1>1. IInv => PolledWhileStarted
    BY DEF IInv, Shape, Together, PolledWhileStarted
  <1> QED
    BY <1>1, Invariance, PTL

\* A polling thread has no status of an earlier session.
THEOREM FreshProved == Spec => []FreshStatus
  <1>1. IInv => FreshStatus
    BY DEF IInv
  <1> QED
    BY <1>1, Invariance, PTL

\* read_pipeline finds a pose pipeline to be stopped only when nobody was polled between the
\* start of the timer and its copy of gHumans: whoever was polled is still there.
THEOREM UnseenProved == Spec => StoppedOnlyUnseen
  <1>1. IInv /\ [Next]_vars => [pc = "do" /\ req[1] = "read" /\ pc' = "stop_thread" => ~person]_vars
    <2> SUFFICES ASSUME IInv, Next, pc = "do", req[1] = "read", pc' = "stop_thread" PROVE ~person
      OBVIOUS
    <2>1. Read
      BY DEF Next, LoadPlugins, serviceVars, Accept, Handle, Start, StartHangs, Spawn, Stop, StopThread, Join, StopPipeline,
             StopHangs, Config, PollThread, PollFind, PollReset, Poll, PoseFrame, BlurFrameFails, Tick, Killed, Restart, Reply, Die
    <2>2. gHumans.numbers = 0
      BY <2>1 DEF Read, Reply
    <2> QED
      BY <2>2 DEF IInv, PersonKept
  <1> QED
    BY <1>1, Invariance, PTL DEF Spec, StoppedOnlyUnseen

\* blur_callback has a background whenever it is to use one.
THEOREM BackgroundProved == Spec => []BackgroundReady
  <1>1. IInv => BackgroundReady
    BY DEF IInv
  <1> QED
    BY <1>1, Invariance, PTL
=============================================================================

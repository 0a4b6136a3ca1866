----------------------- MODULE SessionLifecycleProofs -----------------------
(***************************************************************************)
(* The registries of SessionLifecycle keep their types, and what the       *)
(* lifecycle job ends was the job's to end, for any number of schedules,   *)
(* rooms, connections and pipelines.                                       *)
(***************************************************************************)
EXTENDS SessionLifecycle, TLAPS

-----------------------------------------------------------------------------
(* Types                                                                    *)

PipeType == [state : PipeState, schedule : Schedules \cup {None},
             auto : BOOLEAN, room : Rooms \cup {NoCamera}, feed : 0..MaxGrabbers]
JobType == [pc : {"idle", "work", "attach", "stopping"},
            to_start : SUBSET Schedules, to_end : SUBSET Schedules,
            current : Schedules \cup {None}, stops : Pipes \cup {None},
            place : [Schedules -> Rooms \cup {NoCamera}]]
ViewerType == [pc : {"idle", "gather", "start", "attach", "done"},
               schedule : Schedules \cup {None},
               room : Rooms \cup {NoCamera}, feed : 0..MaxGrabbers]
EnderType == [pc : {"idle", "stop", "drop"}, stops : Pipes \cup {None}]

\* A task that is about to act on a schedule or a room has one.
TasksHaveTargets ==
    /\ job.pc \in {"attach", "stopping"} => job.current \in Schedules
    /\ \A v \in Viewers :
         /\ viewer[v].pc \in {"gather", "start", "attach"} => viewer[v].schedule \in Schedules
         /\ viewer[v].pc \in {"start", "attach"} => viewer[v].room \in Rooms

TypeInv == TypeOK /\ TasksHaveTargets

SharedType ==
    /\ registry \in [Schedules -> Pipes \cup {None}]
    /\ pipe \in [Pipes -> PipeType]
    /\ grabber \in [Rooms -> 0..MaxGrabbers]
    /\ made \in [Rooms -> 0..MaxGrabbers]

LEMMA EnsureGrabberType ==
    ASSUME SharedType, NEW r \in Rooms, EnsureGrabber(r)
    PROVE  /\ grabber' \in [Rooms -> 0..MaxGrabbers]
           /\ made' \in [Rooms -> 0..MaxGrabbers]
<1>1. CASE grabber[r] # 0
  BY <1>1 DEF EnsureGrabber, SharedType
<1>2. CASE grabber[r] = 0
  <2>1. made[r] \in 0..MaxGrabbers /\ made[r] < MaxGrabbers
    BY <1>2 DEF EnsureGrabber, SharedType
  <2>2. made[r] + 1 \in 0..MaxGrabbers
    BY <2>1, LifecycleAssumption DEF LifecycleAssumption
  <2> QED
    BY <1>2, <2>2 DEF EnsureGrabber, SharedType
<1> QED
  BY <1>1, <1>2

LEMMA LaunchType ==
    ASSUME SharedType, NEW s \in Schedules, NEW r \in Rooms, NEW feed \in 0..MaxGrabbers,
           Launch(s, r, feed)
    PROVE  /\ registry' \in [Schedules -> Pipes \cup {None}]
           /\ pipe' \in [Pipes -> PipeType]
<1>1. CASE UNCHANGED <<pipe, registry>>
  BY <1>1 DEF SharedType
<1>2. ASSUME NEW p \in Pipes,
             pipe' = [pipe EXCEPT ![p] =
               [state |-> "running", schedule |-> s, auto |-> InWindow(s),
                room |-> r, feed |-> feed]],
             registry' = [registry EXCEPT ![s] = p]
      PROVE  /\ registry' \in [Schedules -> Pipes \cup {None}]
             /\ pipe' \in [Pipes -> PipeType]
  <2>1. InWindow(s) \in BOOLEAN
    BY DEF InWindow
  <2>2. [state |-> "running", schedule |-> s, auto |-> InWindow(s),
         room |-> r, feed |-> feed] \in PipeType
    BY <2>1 DEF PipeType, PipeState
  <2> QED
    BY <1>2, <2>2 DEF SharedType
<1> QED
  BY <1>1, <1>2 DEF Launch

LEMMA AttachType ==
    ASSUME SharedType, NEW s \in Schedules, NEW r \in Rooms \cup {NoCamera}, Attach(s, r)
    PROVE  SharedType'
<1>1. CASE r = NoCamera
  BY <1>1 DEF Attach, SharedType
<1>2. CASE r # NoCamera
  <2>1. r \in Rooms /\ EnsureGrabber(r) /\ Launch(s, r, grabber'[r])
    BY <1>2 DEF Attach
  <2>2. grabber' \in [Rooms -> 0..MaxGrabbers] /\ made' \in [Rooms -> 0..MaxGrabbers]
    BY <2>1, EnsureGrabberType
  <2>3. grabber'[r] \in 0..MaxGrabbers
    BY <2>1, <2>2
  <2> QED
    BY <2>1, <2>2, <2>3, LaunchType DEF SharedType
<1> QED
  BY <1>1, <1>2

LEMMA PopAndStopType ==
    ASSUME SharedType, NEW s \in Schedules, registry[s] # None, PopAndStop(s)
    PROVE  /\ registry' \in [Schedules -> Pipes \cup {None}]
           /\ pipe' \in [Pipes -> PipeType]
<1>1. registry[s] \in Pipes
  BY DEF SharedType
<1>2. [pipe[registry[s]] EXCEPT !.state = "stopping"] \in PipeType
  BY <1>1 DEF SharedType, PipeType, PipeState
<1>3. pipe' = [pipe EXCEPT ![registry[s]] = [pipe[registry[s]] EXCEPT !.state = "stopping"]]
  BY <1>1 DEF PopAndStop, SharedType
<1> QED
  BY <1>1, <1>2, <1>3 DEF SharedType, PopAndStop

LEMMA OpenCloseType ==
    ASSUME TypeOK, NEW s \in Schedules
    PROVE  /\ Open(s) => active' \in [Schedules -> {"no", "auto", "manual"}]
           /\ Close(s) => /\ active' \in [Schedules -> {"no", "auto", "manual"}]
                          /\ ended' \subseteq Schedules
BY DEF TypeOK, Open, Close

LEMMA InitType == Init => TypeInv
<1> SUFFICES ASSUME Init PROVE TypeInv
  OBVIOUS
<1>1. 0 \in 0..MaxTime /\ 0 \in 0..MaxGrabbers
  BY LifecycleAssumption DEF LifecycleAssumption
<1>2. NoPipe \in PipeType
  BY <1>1 DEF NoPipe, PipeType, PipeState
<1>3. JobIdle \in JobType /\ ViewerIdle \in ViewerType /\ EnderIdle \in EnderType
  BY <1>1, LifecycleAssumption
     DEF LifecycleAssumption, JobIdle, JobType, ViewerIdle, ViewerType, EnderIdle, EnderType
<1>4. /\ place \in [Schedules -> Rooms \cup {NoCamera}]
      /\ grabber \in [Rooms -> 0..MaxGrabbers] /\ made \in [Rooms -> 0..MaxGrabbers]
  BY LifecycleAssumption DEF LifecycleAssumption, Init
<1>5. TypeOK
  BY <1>1, <1>2, <1>3, <1>4 DEF Init, TypeOK, PipeType, JobType, ViewerType, EnderType
<1>6. TasksHaveTargets
  BY DEF Init, TasksHaveTargets, JobIdle, ViewerIdle
<1> QED
  BY <1>5, <1>6 DEF TypeInv

\* What a step leaves alone of the shared state keeps its type.
LEMMA TypeParts ==
    ASSUME TypeOK
    PROVE  /\ SharedType
           /\ job \in JobType /\ viewer \in [Viewers -> ViewerType]
           /\ ender \in [Schedules -> EnderType]
BY DEF TypeOK, SharedType, JobType, ViewerType, EnderType, PipeType

\* What the steps of the job and of a connection make of their records.
LEMMA JobRecords ==
    ASSUME NEW j \in JobType, NEW s \in Schedules, NEW p \in Pipes \cup {None}
    PROVE  /\ [j EXCEPT !.pc = "attach", !.current = s, !.to_start = @ \ {s}] \in JobType
           /\ [j EXCEPT !.to_start = @ \ {s}] \in JobType
           /\ [j EXCEPT !.pc = "work", !.current = None] \in JobType
           /\ [j EXCEPT !.pc = "stopping", !.current = s, !.stops = p,
                         !.to_end = @ \ {s}] \in JobType
           /\ [j EXCEPT !.to_end = @ \ {s}] \in JobType
           /\ [j EXCEPT !.pc = "work", !.current = None, !.stops = None] \in JobType
BY DEF JobType

LEMMA ViewerRecords ==
    ASSUME NEW w \in ViewerType, NEW s \in Schedules, NEW r \in Rooms \cup {NoCamera},
           NEW feed \in 0..MaxGrabbers
    PROVE  /\ [w EXCEPT !.pc = "gather", !.schedule = s] \in ViewerType
           /\ [w EXCEPT !.pc = "start", !.room = r] \in ViewerType
           /\ [w EXCEPT !.pc = "attach", !.feed = feed] \in ViewerType
BY DEF ViewerType

\* Each step of the job.
LEMMA JobStepType ==
    ASSUME TypeInv, Job
    PROVE  TypeInv'
<1> USE TypeParts
<1>1. CASE JobGather
  <2>1. job' \in JobType /\ job'.pc = "work"
    BY <1>1, LifecycleAssumption
       DEF JobGather, JobIdle, JobType, TypeInv, TypeOK, LifecycleAssumption
  <2> QED
    BY <1>1, <2>1 DEF JobGather, TypeInv, TypeOK, TasksHaveTargets, JobType, people, table
<1>2. CASE JobStart
  <2>1. PICK s \in job.to_start :
         IF active[s] = "no"
         THEN /\ Open(s)
              /\ job' = [job EXCEPT !.pc = "attach", !.current = s, !.to_start = @ \ {s}]
              /\ UNCHANGED <<registry, pipe, grabber, made>>
         ELSE /\ Attach(s, job.place[s])
              /\ job' = [job EXCEPT !.to_start = @ \ {s}]
              /\ UNCHANGED active
    BY <1>2 DEF JobStart
  <2>2. s \in Schedules /\ job.place[s] \in Rooms \cup {NoCamera} /\ job.pc = "work"
    BY <1>2, <2>1 DEF JobStart, TypeInv, JobType
  <2>j. job \in JobType
    BY DEF TypeInv
  <2>3. UNCHANGED <<now, ended, people, table>>
    BY <1>2 DEF JobStart
  <2>4. job' \in JobType /\ (job'.pc = "attach" => job'.current = s)
                         /\ job'.pc \in {"work", "attach"}
    <3>1. job' \in JobType
      BY <2>1, <2>2, <2>j, JobRecords
    <3> QED
      BY <2>1, <2>2, <2>j, <3>1 DEF JobType
  <2>5. SharedType' /\ active' \in [Schedules -> {"no", "auto", "manual"}]
    <3>1. CASE active[s] = "no"
      BY <2>1, <2>2, <3>1, OpenCloseType DEF TypeInv, SharedType
    <3>2. CASE active[s] # "no"
      BY <2>1, <2>2, <3>2, AttachType DEF TypeInv, TypeOK
    <3> QED
      BY <3>1, <3>2
  <2> QED
    BY <2>2, <2>3, <2>4, <2>5
       DEF TypeInv, TypeOK, TasksHaveTargets, SharedType, JobType, PipeType, people, table
<1>3. CASE JobAttach
  <2>1. job.current \in Schedules
    BY <1>3 DEF JobAttach, TypeInv, TasksHaveTargets
  <2>2. job.place[job.current] \in Rooms \cup {NoCamera}
    BY <2>1 DEF TypeInv, JobType
  <2>3. SharedType'
    BY <1>3, <2>1, <2>2, AttachType DEF JobAttach, TypeInv
  <2>4. job' = [job EXCEPT !.pc = "work", !.current = None]
    BY <1>3 DEF JobAttach
  <2>5. job' \in JobType /\ job'.pc = "work"
    <3>1. job \in JobType
      BY DEF TypeInv
    <3>2. job' \in JobType
      BY <2>1, <2>4, <3>1, JobRecords
    <3> QED
      BY <2>4, <3>1, <3>2 DEF JobType
  <2> QED
    BY <1>3, <2>3, <2>5
       DEF JobAttach, TypeInv, TypeOK, TasksHaveTargets, SharedType, JobType, PipeType, people, table
<1>4. CASE JobStop
  <2>1. PICK s \in job.to_end :
         IF registry[s] # None
         THEN /\ PopAndStop(s)
              /\ job' = [job EXCEPT !.pc = "stopping", !.current = s,
                                    !.stops = registry[s], !.to_end = @ \ {s}]
              /\ UNCHANGED <<active, ended>>
         ELSE /\ Close(s)
              /\ job' = [job EXCEPT !.to_end = @ \ {s}]
              /\ UNCHANGED <<registry, pipe>>
    BY <1>4 DEF JobStop
  <2>2. s \in Schedules /\ registry[s] \in Pipes \cup {None} /\ job.pc = "work"
    BY <1>4, <2>1 DEF JobStop, TypeInv, JobType, SharedType
  <2>3. UNCHANGED <<now, grabber, made, people, table>>
    BY <1>4 DEF JobStop
  <2>4. job' \in JobType /\ (job'.pc = "stopping" => job'.current = s)
                         /\ job'.pc \in {"work", "stopping"}
    <3>1. job \in JobType
      BY DEF TypeInv
    <3>2. job' \in JobType
      <4>1. CASE registry[s] # None
        <5>1. job' = [job EXCEPT !.pc = "stopping", !.current = s,
                                 !.stops = registry[s], !.to_end = @ \ {s}]
          BY <2>1, <4>1
        <5> QED
          BY <2>2, <3>1, <5>1, JobRecords
      <4>2. CASE registry[s] = None
        BY <2>1, <2>2, <3>1, <4>2, JobRecords
      <4> QED
        BY <4>1, <4>2
    <3> QED
      BY <2>1, <2>2, <3>1, <3>2 DEF JobType
  <2>5. /\ SharedType'
        /\ active' \in [Schedules -> {"no", "auto", "manual"}] /\ ended' \subseteq Schedules
    <3>1. CASE registry[s] = None
      BY <2>1, <2>2, <2>3, <3>1, OpenCloseType DEF TypeInv, SharedType
    <3>2. CASE registry[s] # None
      BY <2>1, <2>2, <2>3, <3>2, PopAndStopType DEF TypeInv, TypeOK, SharedType
    <3> QED
      BY <3>1, <3>2
  <2> QED
    BY <2>2, <2>3, <2>4, <2>5
       DEF TypeInv, TypeOK, TasksHaveTargets, SharedType, JobType, PipeType, people, table
<1>5. CASE JobClose
  <2>1. job.current \in Schedules
    BY <1>5 DEF JobClose, TypeInv, TasksHaveTargets
  <2>2. active' \in [Schedules -> {"no", "auto", "manual"}] /\ ended' \subseteq Schedules
    BY <1>5, <2>1, OpenCloseType DEF JobClose, TypeInv
  <2>3. job' = [job EXCEPT !.pc = "work", !.current = None, !.stops = None]
    BY <1>5 DEF JobClose
  <2>4. job' \in JobType /\ job'.pc = "work"
    <3>1. job \in JobType
      BY DEF TypeInv
    <3>2. job' \in JobType
      BY <2>1, <2>3, <3>1, JobRecords
    <3> QED
      BY <2>3, <3>1, <3>2 DEF JobType
  <2> QED
    BY <1>5, <2>2, <2>4
       DEF JobClose, TypeInv, TypeOK, TasksHaveTargets, JobType, people, table
<1>6. CASE JobDone
  <2>1. job' \in JobType /\ job'.pc = "idle"
    BY <1>6, LifecycleAssumption DEF JobDone, JobIdle, JobType, LifecycleAssumption
  <2> QED
    BY <1>6, <2>1 DEF JobDone, TypeInv, TypeOK, TasksHaveTargets, JobType, people, table
<1> QED
  BY <1>1, <1>2, <1>3, <1>4, <1>5, <1>6 DEF Job

LEMMA ViewerStepType ==
    ASSUME TypeInv, NEW v \in Viewers,
           ViewerConnects(v) \/ ViewerGathers(v) \/ ViewerStarts(v) \/ ViewerAttaches(v)
    PROVE  TypeInv'
<1> USE TypeParts
<1>0. viewer[v] \in ViewerType /\ ViewerDone \in ViewerType /\ ViewerDone.pc = "done"
  BY LifecycleAssumption
     DEF TypeInv, ViewerDone, ViewerIdle, ViewerType, LifecycleAssumption
<1>1. CASE ViewerConnects(v)
  <2>1. PICK s \in Schedules :
          viewer' = [viewer EXCEPT ![v] = [ViewerIdle EXCEPT !.pc = "gather", !.schedule = s]]
    BY <1>1 DEF ViewerConnects
  <2>2. [ViewerIdle EXCEPT !.pc = "gather", !.schedule = s] \in ViewerType
    <3>1. ViewerIdle \in ViewerType
      BY LifecycleAssumption DEF ViewerIdle, ViewerType, LifecycleAssumption
    <3>2. 0 \in 0..MaxGrabbers
      BY LifecycleAssumption DEF LifecycleAssumption
    <3> QED
      BY <3>1, <3>2, ViewerRecords
  <2>3. viewer' \in [Viewers -> ViewerType]
    BY <2>1, <2>2 DEF TypeInv
  <2>4. TasksHaveTargets'
    BY <1>1, <2>1 DEF ViewerConnects, TypeInv, TasksHaveTargets, ViewerIdle
  <2> QED
    BY <1>1, <2>3, <2>4 DEF ViewerConnects, TypeInv, TypeOK, ViewerType, table
<1>2. CASE ViewerGathers(v)
  <2>1. viewer[v].schedule \in Schedules
    BY <1>2 DEF ViewerGathers, TypeInv, TasksHaveTargets
  <2>2. place[viewer[v].schedule] \in Rooms \cup {NoCamera}
    BY <2>1 DEF TypeInv, TypeOK
  <2>3. \/ viewer' = [viewer EXCEPT ![v] = ViewerDone]
        \/ /\ place[viewer[v].schedule] # NoCamera
           /\ viewer' = [viewer EXCEPT ![v] =
                [viewer[v] EXCEPT !.pc = "start", !.room = place[viewer[v].schedule]]]
    BY <1>2 DEF ViewerGathers
  <2> DEFINE sent == [viewer[v] EXCEPT !.pc = "start", !.room = place[viewer[v].schedule]]
  <2>s. sent \in ViewerType /\ sent.schedule = viewer[v].schedule
        /\ sent.pc = "start" /\ sent.room = place[viewer[v].schedule]
    BY <1>0, <2>2 DEF ViewerType
  <2>v. viewer \in [Viewers -> ViewerType]
    BY DEF TypeInv
  <2>4. viewer' \in [Viewers -> ViewerType]
    <3> HIDE DEF sent
    <3>1. viewer' = [viewer EXCEPT ![v] = ViewerDone] \/ viewer' = [viewer EXCEPT ![v] = sent]
      BY <2>3 DEF sent
    <3> QED
      BY <1>0, <2>s, <2>v, <3>1
  <2>5. /\ viewer'[v].pc \in {"gather", "start", "attach"} => viewer'[v].schedule \in Schedules
        /\ viewer'[v].pc \in {"start", "attach"} => viewer'[v].room \in Rooms
        /\ \A w \in Viewers \ {v} : viewer'[w] = viewer[w]
    <3> HIDE DEF sent
    <3>1. \/ viewer' = [viewer EXCEPT ![v] = ViewerDone]
          \/ place[viewer[v].schedule] # NoCamera /\ viewer' = [viewer EXCEPT ![v] = sent]
      BY <2>3 DEF sent
    <3> QED
      BY <1>0, <2>1, <2>2, <2>s, <2>v, <3>1
  <2>6. TasksHaveTargets'
    BY <1>2, <2>5 DEF ViewerGathers, TypeInv, TasksHaveTargets
  <2> QED
    BY <1>2, <2>4, <2>6 DEF ViewerGathers, TypeInv, TypeOK, ViewerType, table
<1>3. CASE ViewerStarts(v)
  <2> DEFINE s == viewer[v].schedule
             r == viewer[v].room
  <2>1. s \in Schedules /\ r \in Rooms
    BY <1>3 DEF ViewerStarts, TypeInv, TasksHaveTargets
  <2>2. CASE active[s] = "no"
    <3>1. /\ EnsureGrabber(r) /\ Open(s) /\ UNCHANGED <<registry, pipe>>
          /\ viewer' = [viewer EXCEPT ![v] =
               [viewer[v] EXCEPT !.pc = "attach", !.feed = grabber'[r]]]
      BY <1>3, <2>2 DEF ViewerStarts
    <3>2. grabber' \in [Rooms -> 0..MaxGrabbers] /\ made' \in [Rooms -> 0..MaxGrabbers]
      BY <2>1, <3>1, EnsureGrabberType DEF TypeInv
    <3>3. active' \in [Schedules -> {"no", "auto", "manual"}]
      BY <2>1, <3>1, OpenCloseType DEF TypeInv
    <3>4. viewer' \in [Viewers -> ViewerType]
      BY <1>0, <2>1, <3>1, <3>2 DEF TypeInv, ViewerType
    <3>5. TasksHaveTargets'
      BY <1>3, <2>1, <3>1 DEF ViewerStarts, TypeInv, TasksHaveTargets
    <3> QED
      BY <1>3, <3>1, <3>2, <3>3, <3>4, <3>5
         DEF ViewerStarts, TypeInv, TypeOK, ViewerType, table
  <2>3. CASE active[s] # "no"
    <3>1. /\ Attach(s, r) /\ UNCHANGED active
          /\ viewer' = [viewer EXCEPT ![v] = ViewerDone]
      BY <1>3, <2>3 DEF ViewerStarts
    <3>2. SharedType'
      BY <2>1, <3>1, AttachType DEF TypeInv
    <3>3. viewer' \in [Viewers -> ViewerType]
      BY <1>0, <3>1 DEF TypeInv
    <3>4. TasksHaveTargets'
      BY <1>0, <1>3, <3>1 DEF ViewerStarts, TypeInv, TasksHaveTargets
    <3> QED
      BY <1>3, <3>1, <3>2, <3>3, <3>4
         DEF ViewerStarts, TypeInv, TypeOK, SharedType, PipeType, ViewerType, table
  <2> QED
    BY <2>2, <2>3
<1>4. CASE ViewerAttaches(v)
  <2>1. /\ viewer[v].schedule \in Schedules /\ viewer[v].room \in Rooms
        /\ viewer[v].feed \in 0..MaxGrabbers
    BY <1>0, <1>4 DEF ViewerAttaches, TypeInv, TasksHaveTargets, ViewerType
  <2>2. /\ registry' \in [Schedules -> Pipes \cup {None}]
        /\ pipe' \in [Pipes -> PipeType]
    BY <1>4, <2>1, LaunchType DEF ViewerAttaches, TypeInv
  <2>3. viewer' \in [Viewers -> ViewerType]
    BY <1>0, <1>4 DEF ViewerAttaches, TypeInv
  <2>4. TasksHaveTargets'
    BY <1>0, <1>4 DEF ViewerAttaches, TypeInv, TasksHaveTargets
  <2> QED
    BY <1>4, <2>2, <2>3, <2>4 DEF ViewerAttaches, TypeInv, TypeOK, PipeType, ViewerType, table
<1> QED
  BY <1>1, <1>2, <1>3, <1>4

LEMMA OperatorStepType ==
    ASSUME TypeInv, NEW s \in Schedules,
           \/ OperatorStarts(s) \/ OperatorAttaches(s) \/ OperatorEnds(s)
           \/ OperatorStops(s) \/ OperatorDrops(s)
    PROVE  TypeInv'
<1>t. /\ TypeOK /\ TasksHaveTargets /\ SharedType
      /\ ender \in [Schedules -> EnderType]
      /\ place[s] \in Rooms \cup {NoCamera} /\ registry[s] \in Pipes \cup {None}
  BY TypeParts DEF TypeInv, TypeOK
<1>a. ASSUME AttachIfMissing(s) PROVE SharedType'
  <2>1. CASE registry[s] = None
    BY <1>a, <1>t, <2>1, AttachType DEF AttachIfMissing
  <2>2. CASE registry[s] # None /\ place[s] = NoCamera
    BY <1>a, <1>t, <2>2 DEF AttachIfMissing, SharedType
  <2>3. CASE registry[s] # None /\ place[s] # NoCamera
    <3>1. place[s] \in Rooms /\ EnsureGrabber(place[s]) /\ UNCHANGED <<pipe, registry>>
      BY <1>a, <1>t, <2>3 DEF AttachIfMissing
    <3> QED
      BY <1>t, <3>1, EnsureGrabberType DEF SharedType
  <2> QED
    BY <2>1, <2>2, <2>3
<1>1. CASE OperatorStarts(s)
  <2>1. \/ /\ Open(s) /\ starter' = starter \cup {s}
           /\ UNCHANGED <<registry, pipe, grabber, made>>
        \/ AttachIfMissing(s) /\ UNCHANGED <<active, starter>>
    BY <1>1 DEF OperatorStarts
  <2>2. /\ SharedType' /\ starter' \subseteq Schedules
        /\ active' \in [Schedules -> {"no", "auto", "manual"}]
    BY <1>t, <1>a, <2>1, OpenCloseType DEF SharedType, TypeOK
  <2> QED
    BY <1>1, <1>t, <2>2
       DEF OperatorStarts, TypeInv, TypeOK, TasksHaveTargets, SharedType, PipeType, table
<1>2. CASE OperatorAttaches(s)
  <2>1. SharedType'
    BY <1>2, <1>a DEF OperatorAttaches
  <2> QED
    BY <1>2, <1>t, <2>1
       DEF OperatorAttaches, TypeInv, TypeOK, TasksHaveTargets, SharedType, PipeType, table
<1>3. CASE OperatorEnds(s)
  <2>1. active' \in [Schedules -> {"no", "auto", "manual"}] /\ ended' \subseteq Schedules
    BY <1>3, <1>t, OpenCloseType DEF OperatorEnds
  <2>2. ender' = [ender EXCEPT ![s] = [ender[s] EXCEPT !.pc = "stop"]]
    BY <1>3 DEF OperatorEnds
  <2>3. [ender[s] EXCEPT !.pc = "stop"] \in EnderType
    BY <1>t DEF EnderType
  <2>4. ender' \in [Schedules -> EnderType]
    BY <1>t, <2>2, <2>3
  <2> QED
    BY <1>3, <1>t, <2>1, <2>4
       DEF OperatorEnds, TypeInv, TypeOK, TasksHaveTargets, EnderType, table
<1>g. /\ EnderIdle \in EnderType /\ [pc |-> "drop", stops |-> registry[s]] \in EnderType
      /\ DropGrabber(place[s]) => grabber' \in [Rooms -> 0..MaxGrabbers]
  <2>1. 0 \in 0..MaxGrabbers
    BY LifecycleAssumption DEF LifecycleAssumption
  <2> QED
    BY <1>t, <2>1 DEF EnderIdle, EnderType, DropGrabber, SharedType
<1>4. CASE OperatorStops(s)
  <2>1. CASE registry[s] # None
    <3>1. /\ PopAndStop(s) /\ UNCHANGED grabber
          /\ ender' = [ender EXCEPT ![s] = [pc |-> "drop", stops |-> registry[s]]]
      BY <1>4, <2>1 DEF OperatorStops
    <3>2. registry' \in [Schedules -> Pipes \cup {None}] /\ pipe' \in [Pipes -> PipeType]
      BY <1>t, <2>1, <3>1, PopAndStopType
    <3>3. ender' \in [Schedules -> EnderType]
      BY <1>t, <1>g, <3>1
    <3> QED
      BY <1>4, <1>t, <3>1, <3>2, <3>3
         DEF OperatorStops, TypeInv, TypeOK, TasksHaveTargets, PipeType, EnderType, table
  <2>2. CASE registry[s] = None
    <3>1. /\ DropGrabber(place[s]) /\ UNCHANGED <<registry, pipe>>
          /\ ender' = [ender EXCEPT ![s] = EnderIdle]
      BY <1>4, <2>2 DEF OperatorStops
    <3>2. ender' \in [Schedules -> EnderType] /\ grabber' \in [Rooms -> 0..MaxGrabbers]
      BY <1>t, <1>g, <3>1
    <3> QED
      BY <1>4, <1>t, <3>1, <3>2
         DEF OperatorStops, TypeInv, TypeOK, TasksHaveTargets, EnderType, table
  <2> QED
    BY <2>1, <2>2
<1>5. CASE OperatorDrops(s)
  <2>1. ender' \in [Schedules -> EnderType] /\ grabber' \in [Rooms -> 0..MaxGrabbers]
    BY <1>5, <1>t, <1>g DEF OperatorDrops
  <2> QED
    BY <1>5, <1>t, <2>1
       DEF OperatorDrops, TypeInv, TypeOK, TasksHaveTargets, EnderType, table
<1> QED
  BY <1>1, <1>2, <1>3, <1>4, <1>5

LEMMA ScheduleStepType ==
    ASSUME TypeInv, NEW s \in Schedules,
           \/ \E r \in Rooms \cup {NoCamera} : MoveSchedule(s, r)
           \/ MoveEnds(s) \/ DeleteSchedule(s)
    PROVE  TypeInv'
<1>t. /\ TypeOK /\ TasksHaveTargets /\ SharedType
      /\ registry[s] \in Pipes \cup {None}
  BY TypeParts DEF TypeInv, TypeOK
<1>1. ASSUME NEW r \in Rooms \cup {NoCamera}, MoveSchedule(s, r) PROVE TypeInv'
  <2>1. place' \in [Schedules -> Rooms \cup {NoCamera}]
    BY <1>1, <1>t DEF MoveSchedule, TypeOK
  <2>2. /\ pipe' \in [Pipes -> PipeType] /\ mover' \in [Schedules -> Pipes \cup {None}]
        /\ grabber' \in [Rooms -> 0..MaxGrabbers] /\ made' \in [Rooms -> 0..MaxGrabbers]
    <3>1. CASE ~IsRunning(s)
      BY <1>1, <1>t, <3>1 DEF MoveSchedule, SharedType, TypeOK
    <3>2. CASE IsRunning(s) /\ r = NoCamera
      <4>1. registry[s] \in Pipes
        BY <1>t, <3>2 DEF IsRunning
      <4>2. /\ pipe' = [pipe EXCEPT ![registry[s]] = [pipe[registry[s]] EXCEPT !.state = "stopping"]]
            /\ mover' = [mover EXCEPT ![s] = registry[s]] /\ UNCHANGED <<grabber, made>>
        BY <1>1, <3>2 DEF MoveSchedule
      <4>3. [pipe[registry[s]] EXCEPT !.state = "stopping"] \in PipeType
        BY <1>t, <4>1 DEF SharedType, PipeType, PipeState
      <4> QED
        BY <1>t, <4>1, <4>2, <4>3 DEF SharedType, TypeOK
    <3>3. CASE IsRunning(s) /\ r # NoCamera
      <4>1. registry[s] \in Pipes /\ r \in Rooms
        BY <1>t, <3>3 DEF IsRunning
      <4>2. /\ EnsureGrabber(r) /\ UNCHANGED mover
            /\ pipe' = [pipe EXCEPT ![registry[s]] =
                 [pipe[registry[s]] EXCEPT !.room = r, !.feed = grabber'[r]]]
        BY <1>1, <3>3 DEF MoveSchedule
      <4>3. grabber' \in [Rooms -> 0..MaxGrabbers] /\ made' \in [Rooms -> 0..MaxGrabbers]
        BY <1>t, <4>1, <4>2, EnsureGrabberType
      <4>4. pipe[registry[s]] \in PipeType /\ grabber'[r] \in 0..MaxGrabbers
        BY <1>t, <4>1, <4>3 DEF SharedType
      <4>5. [pipe[registry[s]] EXCEPT !.room = r, !.feed = grabber'[r]] \in PipeType
        BY <4>1, <4>4 DEF PipeType
      <4> QED
        BY <1>t, <4>1, <4>2, <4>3, <4>5 DEF SharedType, TypeOK
    <3> QED
      BY <3>1, <3>2, <3>3
  <2> QED
    BY <1>1, <1>t, <2>1, <2>2
       DEF MoveSchedule, TypeInv, TypeOK, TasksHaveTargets, PipeType
<1>2. CASE MoveEnds(s)
  <2>1. /\ active' \in [Schedules -> {"no", "auto", "manual"}] /\ ended' \subseteq Schedules
        /\ registry' \in [Schedules -> Pipes \cup {None}]
        /\ mover' \in [Schedules -> Pipes \cup {None}]
    BY <1>2, <1>t, OpenCloseType DEF MoveEnds, TypeOK
  <2> QED
    BY <1>2, <1>t, <2>1 DEF MoveEnds, TypeInv, TypeOK, TasksHaveTargets, table
<1>3. CASE DeleteSchedule(s)
  BY <1>3, <1>t DEF DeleteSchedule, TypeInv, TypeOK, TasksHaveTargets, people
<1> QED
  BY <1>1, <1>2, <1>3

LEMMA TimeStepType ==
    ASSUME TypeInv, Tick \/ PipeStops \/ SelfStop
    PROVE  TypeInv'
<1>t. TypeOK /\ TasksHaveTargets /\ SharedType
  BY TypeParts DEF TypeInv
<1>1. CASE Tick
  <2>1. now' \in 0..MaxTime
    BY <1>1, <1>t, LifecycleAssumption DEF Tick, TypeOK, LifecycleAssumption
  <2> QED
    BY <1>1, <1>t, <2>1 DEF Tick, TypeInv, TypeOK, TasksHaveTargets, people, table
<1>2. CASE PipeStops \/ SelfStop
  <2>1. PICK p \in Pipes, t \in {"stopped", "halted"} :
          pipe' = [pipe EXCEPT ![p] = [pipe[p] EXCEPT !.state = t]]
    BY <1>2 DEF PipeStops, SelfStop
  <2>2. [pipe[p] EXCEPT !.state = t] \in PipeType
    BY <1>t DEF SharedType, PipeType, PipeState
  <2>3. pipe' \in [Pipes -> PipeType]
    BY <1>t, <2>1, <2>2 DEF SharedType
  <2> QED
    BY <1>2, <1>t, <2>3
       DEF PipeStops, SelfStop, TypeInv, TypeOK, TasksHaveTargets, PipeType, people, table
<1> QED
  BY <1>1, <1>2

LEMMA TypeStep == TypeInv /\ [Next]_vars => TypeInv'
<1> SUFFICES ASSUME TypeInv, [Next]_vars PROVE TypeInv'
  OBVIOUS
<1>1. CASE Tick \/ PipeStops \/ SelfStop
  BY <1>1, TimeStepType
<1>2. CASE Job
  BY <1>2, JobStepType
<1>3. ASSUME NEW v \in Viewers,
             ViewerConnects(v) \/ ViewerGathers(v) \/ ViewerStarts(v) \/ ViewerAttaches(v)
      PROVE  TypeInv'
  BY <1>3, ViewerStepType
<1>4. ASSUME NEW s \in Schedules,
             \/ OperatorStarts(s) \/ OperatorAttaches(s) \/ OperatorEnds(s)
             \/ OperatorStops(s) \/ OperatorDrops(s)
      PROVE  TypeInv'
  BY <1>4, OperatorStepType
<1>5. ASSUME NEW s \in Schedules,
             \/ \E r \in Rooms \cup {NoCamera} : MoveSchedule(s, r)
             \/ MoveEnds(s) \/ DeleteSchedule(s)
      PROVE  TypeInv'
  BY <1>5, ScheduleStepType
<1>6. CASE UNCHANGED vars
  BY <1>6 DEF vars, people, table, TypeInv, TypeOK, TasksHaveTargets
<1> QED
  BY <1>1, <1>2, <1>3, <1>4, <1>5, <1>6 DEF Next

\* The registries of sessions, pipelines and grabbers keep their types, in
\* particular a room never gets more grabbers than were created for it.
THEOREM TypeCorrect == Spec => []TypeOK
<1>1. Init => TypeInv
  BY InitType
<1>2. TypeInv /\ [Next]_vars => TypeInv'
  BY TypeStep
<1>3. TypeInv => TypeOK
  BY DEF TypeInv
<1> QED
  BY <1>1, <1>2, <1>3, PTL DEF Spec

-----------------------------------------------------------------------------
(* What the job ends                                                        *)

\* The schedules the job has still to end, the one whose pipeline it waits
\* for among them.
Ending == job.to_end \cup IF job.pc = "stopping" THEN {job.current} ELSE {}

\* Since the job looked, their windows are over, which nothing undoes; and
\* whoever could open such a session again would open it by hand, before the
\* end of its window.  The job itself starts other sessions in this round.
DueIsDue ==
    \A s \in Ending :
        /\ now > WindowEnd[s] /\ active[s] \in {"auto", "no"}
        /\ s \notin job.to_start

\* A connection about to open a session read the clock in this minute.
OpensInTime ==
    Prompt => \A v \in Viewers : viewer[v].pc = "start" => InWindow(viewer[v].schedule)

DueInv == TypeInv /\ DueIsDue /\ OpensInTime

LEMMA NumbersOfADay ==
    ASSUME TypeInv, NEW s \in Schedules
    PROVE  /\ now \in Nat /\ WindowStart[s] \in Nat /\ WindowEnd[s] \in Nat
           /\ StartGrace \in Nat
BY LifecycleAssumption DEF LifecycleAssumption, TypeInv, TypeOK

LEMMA JobStepDue ==
    ASSUME DueInv, Job
    PROVE  DueIsDue'
<1>t. TypeInv /\ job \in JobType /\ active \in [Schedules -> {"no", "auto", "manual"}]
  BY TypeParts DEF DueInv, TypeInv, TypeOK
<1>1. CASE JobGather
  <2>1. /\ job'.pc = "work"
        /\ job'.to_start = {s \in Schedules : ShouldStart(s)}
        /\ job'.to_end = {s \in Schedules : ShouldEnd(s)}
        /\ now' = now /\ active' = active
    BY <1>1 DEF JobGather, JobIdle
  <2> QED
    BY <2>1 DEF DueIsDue, Ending, ShouldStart, ShouldEnd
<1>2. CASE JobStart
  <2>1. PICK s \in job.to_start :
          /\ active' = active \/ Open(s)
          /\ job' = [job EXCEPT !.pc = "attach", !.current = s, !.to_start = @ \ {s}]
             \/ job' = [job EXCEPT !.to_start = @ \ {s}]
    BY <1>2 DEF JobStart
  <2>2. job.pc = "work" /\ now' = now
    BY <1>2 DEF JobStart
  <2>3. job'.to_end = job.to_end /\ job'.to_start = job.to_start \ {s}
        /\ job'.pc \in {"work", "attach"}
    BY <1>t, <2>1, <2>2 DEF JobType
  <2>4. \A u \in Schedules \ {s} : active'[u] = active[u]
    BY <1>t, <2>1 DEF Open
  <2> QED
    BY <1>t, <2>2, <2>3, <2>4 DEF DueInv, DueIsDue, Ending, JobType
<1>3. CASE JobAttach
  <2>1. job' = [job EXCEPT !.pc = "work", !.current = None]
    BY <1>3 DEF JobAttach
  <2>2. job'.to_end = job.to_end /\ job'.to_start = job.to_start /\ job'.pc = "work"
    BY <1>t, <2>1 DEF JobType
  <2> QED
    BY <1>3, <2>2 DEF JobAttach, DueInv, DueIsDue, Ending
<1>4. CASE JobStop
  <2>1. PICK s \in job.to_end :
         IF registry[s] # None
         THEN /\ job' = [job EXCEPT !.pc = "stopping", !.current = s,
                                    !.stops = registry[s], !.to_end = @ \ {s}]
              /\ UNCHANGED <<active, ended>>
         ELSE /\ Close(s)
              /\ job' = [job EXCEPT !.to_end = @ \ {s}]
    BY <1>4 DEF JobStop
  <2>2. job.pc = "work" /\ now' = now /\ s \in Schedules
    BY <1>4, <1>t DEF JobStop, JobType
  <2>3. Ending' \subseteq job.to_end /\ job'.to_start = job.to_start
    <3>1. CASE registry[s] # None
      <4>1. job' = [job EXCEPT !.pc = "stopping", !.current = s,
                               !.stops = registry[s], !.to_end = @ \ {s}]
        BY <2>1, <3>1
      <4>2. /\ job'.pc = "stopping" /\ job'.current = s
            /\ job'.to_end = job.to_end \ {s} /\ job'.to_start = job.to_start
        BY <1>t, <4>1 DEF JobType
      <4> QED
        BY <4>2 DEF Ending
    <3>2. CASE registry[s] = None
      <4>1. /\ job'.pc = "work"
            /\ job'.to_end = job.to_end \ {s} /\ job'.to_start = job.to_start
        BY <1>t, <2>1, <2>2, <3>2 DEF JobType
      <4> QED
        BY <4>1 DEF Ending
    <3> QED
      BY <3>1, <3>2
  <2>4. \A u \in Schedules : active'[u] \in {active[u], "no"}
    BY <1>t, <2>1, <2>2 DEF Close
  <2> QED
    BY <1>t, <2>2, <2>3, <2>4 DEF DueInv, DueIsDue, Ending, JobType
<1>5. CASE JobClose
  <2>1. job' = [job EXCEPT !.pc = "work", !.current = None, !.stops = None]
    BY <1>5 DEF JobClose
  <2>2. job'.to_end = job.to_end /\ job'.to_start = job.to_start /\ job'.pc = "work"
    BY <1>t, <2>1 DEF JobType
  <2>3. now' = now /\ \A u \in Schedules : active'[u] \in {active[u], "no"}
    BY <1>5, <1>t DEF JobClose, Close
  <2> QED
    BY <1>t, <2>2, <2>3 DEF DueInv, DueIsDue, Ending, JobType
<1>6. CASE JobDone
  BY <1>6 DEF JobDone, DueIsDue, Ending, JobIdle
<1> QED
  BY <1>1, <1>2, <1>3, <1>4, <1>5, <1>6 DEF Job

\* Nobody else opens a session whose window is over.
LEMMA OthersLeaveDue ==
    ASSUME DueInv, Prompt \/ Viewers = {}, [Next]_vars, ~Job,
           job' = job
    PROVE  DueIsDue'
<1>t. /\ TypeInv /\ job \in JobType /\ active \in [Schedules -> {"no", "auto", "manual"}]
      /\ Ending' = Ending /\ Ending \subseteq Schedules
  BY TypeParts DEF DueInv, TypeInv, TypeOK, TasksHaveTargets, Ending, JobType
<1>1. now' \in {now, now + 1}
  BY DEF Next, vars, Tick, PipeStops, SelfStop, ViewerConnects, ViewerGathers, ViewerStarts,
         ViewerAttaches, OperatorStarts, OperatorAttaches, OperatorEnds, OperatorStops,
         OperatorDrops, MoveSchedule, MoveEnds, DeleteSchedule
<1>2. ASSUME NEW s \in Ending, active'[s] # active[s] PROVE active'[s] = "no"
  <2>1. now > WindowEnd[s] /\ s \in Schedules
    BY <1>t, <1>2 DEF DueInv, DueIsDue
  <2>2. CASE \E v \in Viewers : ViewerStarts(v)
    <3>1. PICK v \in Viewers : ViewerStarts(v)
      BY <2>2
    <3>2. viewer[v].pc = "start" /\ (active' = active \/ Open(viewer[v].schedule))
      BY <3>1 DEF ViewerStarts
    <3>3. viewer[v].schedule \in Schedules /\ InWindow(viewer[v].schedule)
      BY <3>2, <1>t DEF DueInv, OpensInTime, TypeInv, TasksHaveTargets
    <3>4. viewer[v].schedule = s
      BY <1>2, <1>t, <2>1, <3>2, <3>3 DEF Open
    <3> QED
      BY <1>t, <2>1, <3>3, <3>4, NumbersOfADay DEF InWindow
  <2>3. CASE \E u \in Schedules : OperatorStarts(u)
    <3>1. PICK u \in Schedules : OperatorStarts(u)
      BY <2>3
    <3>2. active' = active \/ (Eligible(u) /\ Open(u))
      BY <3>1 DEF OperatorStarts
    <3>3. u = s /\ Eligible(u)
      BY <1>2, <1>t, <2>1, <3>2 DEF Open
    <3> QED
      BY <1>t, <2>1, <3>3, NumbersOfADay DEF Eligible
  <2>4. CASE \E u \in Schedules : OperatorEnds(u) \/ MoveEnds(u)
    BY <1>2, <1>t, <2>1, <2>4 DEF OperatorEnds, MoveEnds, Close
  <2> QED
    BY <1>2, <2>2, <2>3, <2>4
       DEF Next, vars, Tick, PipeStops, SelfStop, ViewerConnects, ViewerGathers,
           ViewerAttaches, OperatorAttaches, OperatorStops,
           OperatorDrops, MoveSchedule, DeleteSchedule
<1> QED
  BY <1>t, <1>1, <1>2, NumbersOfADay, LifecycleAssumption
     DEF DueInv, DueIsDue, LifecycleAssumption

LEMMA OpensStep ==
    ASSUME DueInv, [Next]_vars
    PROVE  OpensInTime'
<1> SUFFICES ASSUME Prompt, NEW v \in Viewers, viewer'[v].pc = "start"
             PROVE  InWindow(viewer[v].schedule)'
  BY DEF OpensInTime
<1>t. TypeInv /\ viewer \in [Viewers -> ViewerType]
  BY TypeParts DEF DueInv, TypeInv
<1>0. CASE viewer' = viewer /\ now' = now
  BY <1>0 DEF DueInv, OpensInTime, InWindow
<1>1. CASE Tick
  <2>1. viewer[v].pc \in {"idle", "done"} /\ viewer' = viewer
    BY <1>1 DEF Tick, AllIdle, people
  <2> QED
    BY <2>1
<1>2. ASSUME NEW w \in Viewers, ViewerGathers(w) PROVE InWindow(viewer[v].schedule)'
  <2>1. now' = now
    BY <1>2 DEF ViewerGathers
  <2>2. CASE v # w
    BY <1>2, <1>t, <2>1, <2>2 DEF ViewerGathers, DueInv, OpensInTime, InWindow
  <2>3. CASE v = w
    <3> DEFINE s == viewer[v].schedule
               sent == [viewer[v] EXCEPT !.pc = "start", !.room = place[s]]
    <3>1. \/ viewer' = [viewer EXCEPT ![v] = ViewerDone]
          \/ InWindow(s) /\ viewer' = [viewer EXCEPT ![v] = sent]
      BY <1>2, <2>3 DEF ViewerGathers
    <3>2. ViewerDone.pc = "done" /\ sent.schedule = s
      BY <1>t DEF ViewerDone, ViewerIdle, ViewerType
    <3>3. InWindow(s) /\ viewer'[v] = sent
      <4> HIDE DEF sent
      <4> QED
        BY <1>t, <3>1, <3>2
    <3> QED
      BY <2>1, <3>2, <3>3 DEF InWindow
  <2> QED
    BY <2>2, <2>3
<1>3. ASSUME NEW w \in Viewers, ViewerConnects(w) \/ ViewerStarts(w) \/ ViewerAttaches(w)
      PROVE  InWindow(viewer[v].schedule)'
  <2>1. now' = now /\ \A u \in Viewers \ {w} : viewer'[u] = viewer[u]
    BY <1>3, <1>t DEF ViewerConnects, ViewerStarts, ViewerAttaches
  <2>2. viewer'[w].pc # "start"
    <3>1. CASE ViewerConnects(w)
      BY <1>t, <3>1 DEF ViewerConnects, ViewerIdle
    <3>2. CASE ViewerStarts(w)
      BY <1>t, <3>2 DEF ViewerStarts, ViewerDone, ViewerIdle, ViewerType
    <3>3. CASE ViewerAttaches(w)
      BY <1>t, <3>3 DEF ViewerAttaches, ViewerDone, ViewerIdle
    <3> QED
      BY <1>3, <3>1, <3>2, <3>3
  <2> QED
    BY <2>1, <2>2 DEF DueInv, OpensInTime, InWindow
<1> QED
  BY <1>0, <1>1, <1>2, <1>3
     DEF Next, vars, PipeStops, SelfStop, Job, JobGather, JobStart, JobAttach, JobStop, JobClose,
         JobDone, OperatorStarts, OperatorAttaches, OperatorEnds, OperatorStops,
         OperatorDrops, MoveSchedule, MoveEnds, DeleteSchedule, people

LEMMA DueStep ==
    ASSUME Prompt \/ Viewers = {}, DueInv, [Next]_vars
    PROVE  DueInv'
<1>1. TypeInv'
  BY TypeStep DEF DueInv
<1>2. OpensInTime'
  BY OpensStep
<1>3. DueIsDue'
  <2>1. CASE Job
    BY <2>1, JobStepDue
  <2>2. CASE ~Job
    <3>1. job' = job
      BY <2>2 DEF Next, vars, Tick, PipeStops, SelfStop, ViewerConnects, ViewerGathers,
         ViewerStarts, ViewerAttaches, OperatorStarts, OperatorAttaches, OperatorEnds,
         OperatorStops, OperatorDrops, MoveSchedule, MoveEnds, DeleteSchedule
    <3> QED
      BY <2>2, <3>1, OthersLeaveDue
  <2> QED
    BY <2>1, <2>2
<1> QED
  BY <1>1, <1>2, <1>3 DEF DueInv

\* Whatever is ended and was not ended by hand.
JustifiedEnd ==
    \A s \in Schedules :
        active[s] # "no" /\ active'[s] = "no"
             /\ ender'[s] = ender[s] /\ mover'[s] = mover[s] =>
            active[s] = "auto" /\ now > WindowEnd[s]

LEMMA EndsAreJustified ==
    ASSUME DueInv, [Next]_vars
    PROVE  JustifiedEnd
<1> SUFFICES ASSUME NEW s \in Schedules, active[s] # "no", active'[s] = "no",
                    ender'[s] = ender[s], mover'[s] = mover[s]
             PROVE  active[s] = "auto" /\ now > WindowEnd[s]
  BY DEF JustifiedEnd
<1>t. /\ TypeInv /\ job \in JobType /\ active \in [Schedules -> {"no", "auto", "manual"}]
      /\ ender \in [Schedules -> EnderType] /\ mover \in [Schedules -> Pipes \cup {None}]
  BY TypeParts DEF DueInv, TypeInv, TypeOK
<1>1. s \in Ending => active[s] = "auto" /\ now > WindowEnd[s]
  BY DEF DueInv, DueIsDue
<1>2. CASE JobStop
  BY <1>1, <1>2, <1>t DEF JobStop, Close, Ending
<1>3. CASE JobClose
  BY <1>1, <1>3, <1>t DEF JobClose, Close, Ending
<1>4. ASSUME NEW u \in Schedules, Open(u) PROVE FALSE
  BY <1>4, <1>t DEF Open
<1>5. ASSUME NEW u \in Schedules, OperatorEnds(u) PROVE FALSE
  <2>1. u = s
    BY <1>5, <1>t DEF OperatorEnds, Close
  <2>2. ender[s].pc = "idle" /\ ender'[s].pc = "stop"
    BY <1>5, <1>t, <2>1 DEF OperatorEnds, EnderType
  <2> QED
    BY <2>2
<1>6. ASSUME NEW u \in Schedules, MoveEnds(u) PROVE FALSE
  <2>1. u = s
    BY <1>6, <1>t DEF MoveEnds, Close
  <2> QED
    BY <1>6, <1>t, <2>1 DEF MoveEnds
<1>7. CASE JobStart
  BY <1>4, <1>7, <1>t DEF JobStart, JobType
<1>8. ASSUME NEW v \in Viewers, ViewerStarts(v) PROVE FALSE
  <2>1. viewer[v].schedule \in Schedules
    BY <1>8, <1>t DEF ViewerStarts, TypeInv, TasksHaveTargets
  <2> QED
    BY <1>4, <1>8, <2>1 DEF ViewerStarts
<1>9. ASSUME NEW u \in Schedules, OperatorStarts(u) PROVE FALSE
  BY <1>4, <1>9 DEF OperatorStarts
<1> QED
  BY <1>2, <1>3, <1>5, <1>6, <1>7, <1>8, <1>9
     DEF Next, vars, Tick, PipeStops, SelfStop, Job, JobGather, JobAttach,
         JobDone, ViewerConnects, ViewerGathers, ViewerAttaches, OperatorAttaches, OperatorStops,
         OperatorDrops, MoveSchedule, DeleteSchedule

\* What nobody ends by hand is ended only if it was started inside its window
\* and that window is over, for any number of schedules and pipelines, if no
\* handler straddles a minute or no viewer connects.
THEOREM EndsAreAutomatic ==
    ASSUME Prompt \/ Viewers = {}
    PROVE  Spec => AutomaticEndJustified
<1>1. Init => DueInv
  BY InitType DEF Init, DueInv, DueIsDue, Ending, OpensInTime, JobIdle, ViewerIdle
<1>2. DueInv /\ [Next]_vars => DueInv'
  BY DueStep
<1>3. DueInv /\ [Next]_vars => [JustifiedEnd]_vars
  BY EndsAreJustified
<1>4. Spec => [][JustifiedEnd]_vars
  BY <1>1, <1>2, <1>3, PTL DEF Spec
<1> QED
  BY <1>4 DEF AutomaticEndJustified, JustifiedEnd

=============================================================================

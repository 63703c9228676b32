------------------------- MODULE V4l2CaptureProofs -------------------------
(***************************************************************************)
(* What camstream-capture promises, for every command line, every size of   *)
(* pool a driver may grant and every choice of the calls that may fail.     *)
(* DeviceInv is inductive by itself: it says where run_capture() can be,    *)
(* how the fields of V4l2Device agree with the driver, which buffers are    *)
(* mapped and which are queued.  CaptureInv counts the frames on top of it. *)
(* For each action, one lemma keeps each of the two.                        *)
(***************************************************************************)
EXTENDS V4l2Capture, CommandLineProofs, FiniteSetTheorems, TLAPS

\* The labels, by what run_capture() is doing.
Opening == {"open", "query", "enumerate", "negotiate"}
Preparing == {"reqbufs", "map", "queue", "streamon"}
Looping == {"capture", "poll", "dqbuf", "save", "requeue"}
Releasing == {"streamoff", "release", "unmap", "abandon", "reqbufs0", "released"}
Closing == {"close", "close_fd", "exited"}

\* The buffers the program has taken from the driver.
Out == {b \in Buffers : driver.owner[b] = "user"}

\* All the labels.
Labels == Opening \cup Preparing \cup Looping \cup Releasing \cup Closing

\* The records of the state.
DeviceType == [fd : BOOLEAN, granted_buffer_count : Nat, driver_buffers_allocated : BOOLEAN,
               buffers_queued : BOOLEAN, streaming : BOOLEAN]
DriverType == [allocated : Grants \cup {0}, on : BOOLEAN,
               owner : [Buffers -> {"none", "driver", "user"}]]
LocalType == [succeeded : BOOLEAN, stream_started : BOOLEAN, attempted : BOOLEAN,
              caller : {"main", "close", "destructor"}, clean : BOOLEAN, can_release : BOOLEAN]
CountsType == [skipped : Nat, captured : Nat, retries : 0 .. MaxRetries, errors : 0 .. MaxErrors]

\* Every variable has its type.
Types ==
    /\ pc \in Labels
    /\ device \in DeviceType
    /\ driver \in DriverType
    /\ mappings \subseteq Buffers /\ pages \subseteq Buffers
    /\ counts \in CountsType
    /\ frame \in [index : Nat, error : BOOLEAN]
    /\ local \in LocalType
    /\ valid \in Nat /\ saved \in 0 .. valid

\* How far run_capture() has come.
Progress ==
    /\ pc \in Opening => local.caller = "main" /\ ~local.attempted /\ ~local.stream_started
    /\ pc \in Preparing => local.caller = "main" /\ local.attempted /\ ~local.stream_started
    /\ pc \in Looping \cup {"streamoff"} =>
          local.caller = "main" /\ local.attempted /\ local.stream_started
    /\ pc \in Opening \cup Preparing \cup (Looping \ {"requeue"}) => local.succeeded

\* The device and the driver it stands for.
Agreement ==
    /\ device.fd => device.granted_buffer_count = driver.allocated
    /\ device.streaming = driver.on
    /\ ~device.fd => driver = Idle
    /\ pc = "open" => device = Closed
    /\ pc \in (Opening \ {"open"}) \cup Preparing \cup Looping
            \cup {"streamoff", "abandon", "reqbufs0"} => device.fd
    /\ pc \in Opening \cup {"reqbufs"} => driver = Idle
    /\ pc \in Opening \cup {"reqbufs"} => ~device.driver_buffers_allocated
    /\ pc \in {"map", "queue", "streamon"} \cup Looping =>
          device.driver_buffers_allocated /\ driver.allocated \in 1 .. MaxAccepted
    /\ pc \in Preparing => ~driver.on
    /\ pc \in Looping \cup {"streamoff"} => driver.on
    /\ pc \in Closing \cup {"unmap", "abandon", "reqbufs0", "released"} => ~driver.on

\* Which buffers are mapped.
Mapped ==
    /\ \A index \in mappings : index < device.granted_buffer_count \/ ~device.fd
    /\ pc \in Opening \cup {"reqbufs"} \cup Closing \cup {"abandon", "reqbufs0", "released"} =>
          mappings = {}
    /\ pc = "map" => \E k \in 0 .. driver.allocated - 1 : mappings = 0 .. k - 1
    /\ local.caller = "destructor" => mappings = {}
    /\ device.driver_buffers_allocated /\ pc # "abandon" => pages = mappings
    /\ mappings # {} => device.driver_buffers_allocated \/ pc = "unmap"
    /\ device.driver_buffers_allocated /\ ~device.fd => mappings = {}
    /\ pc = "unmap" => local.can_release = device.fd
    /\ mappings \subseteq pages
    /\ pages # mappings => ~local.succeeded \/ (pc \in {"abandon", "released"} /\ ~local.clean)

\* Which buffers the driver holds.
Owned ==
    /\ pc \in Opening \cup {"reqbufs", "map"} => \A b \in Buffers : driver.owner[b] = "none"
    /\ pc = "queue" => \E k \in 0 .. driver.allocated - 1 :
            \A b \in Buffers : driver.owner[b] = IF b < k THEN "driver" ELSE "none"
    /\ \A a, b \in Out : a = b
    /\ pc \in Preparing \cup {"capture", "poll", "dqbuf"} => Out = {}
    /\ pc \in {"streamon", "capture", "poll", "dqbuf"} => device.buffers_queued
    /\ pc \in {"save", "requeue"} => frame.index \in Buffers /\ Out = {frame.index}
    /\ pc = "streamoff" /\ local.succeeded => Out = {}

\* What the destructor finds.
Ended ==
    /\ local.caller = "destructor" =>
          /\ ~device.fd
          /\ pc \in Closing \cup {"release", "unmap", "released"}
          /\ exit \in {"success", "failure"}
          /\ pages # {} => exit = "failure"
    /\ pc = "exited" => ~device.fd /\ (local.caller = "destructor" \/ pages = {})

\* The count of error frames stops short of its limit while frames are taken.
Limits == pc \in Opening \cup Preparing \cup {"capture", "poll", "dqbuf"} => counts.errors < MaxErrors

\* What the command line asked for, and what the program does not undertake.
AskedFor ==
    /\ asked.what \in {"help", "nonsense", "list", "capture"}
    /\ asked.what \in {"help", "nonsense"} =>
          /\ pc = "exited" /\ local.caller = "main"
          /\ exit = IF asked.what = "help" THEN "success" ELSE "usage"
    /\ asked.what \in {"list", "capture"} =>
          /\ exit \in {"none", "success", "failure"}
          /\ exit = "none" <=> local.caller # "destructor"
          /\ pc = "exited" => local.caller = "destructor"
    /\ asked.what = "capture" =>
          /\ pc # "enumerate"
          /\ config = [has_format |-> TRUE, frame_count |-> asked.count,
                       skip_frames |-> asked.skip, output |-> asked.output]
          /\ asked.count \in Nat \ {0} /\ asked.skip \in Nat /\ asked.output \in BOOLEAN

\* A valid frame is dequeued and not counted yet.
InHand == pc \in {"save", "requeue"} /\ ~frame.error

\* The output file holds the last requested frame, once there is one.
WrittenWith(captured) ==
    saved = IF asked.output /\ captured = asked.count THEN valid ELSE 0

\* How the frames of the capture are counted.
Counted ==
    asked.what = "capture" =>
        /\ counts.skipped <= asked.skip /\ counts.captured <= asked.count
        /\ counts.captured > 0 => counts.skipped = asked.skip
        /\ pc \in Opening \cup Preparing => valid = 0 /\ counts.skipped = 0 /\ counts.captured = 0
        /\ pc \in Opening \cup Preparing \cup Looping => counts.captured < asked.count
        /\ local.succeeded => valid = counts.skipped + counts.captured + (IF InHand THEN 1 ELSE 0)
        /\ pc \in Opening \cup Preparing \cup {"capture", "poll", "dqbuf", "save"} => saved = 0
        /\ pc = "requeue" /\ local.succeeded =>
              WrittenWith(IF frame.error \/ counts.skipped < asked.skip THEN 0
                          ELSE counts.captured + 1)
        /\ pc \in Releasing \cup Closing /\ local.succeeded =>
              counts.captured = asked.count /\ WrittenWith(counts.captured)
        /\ exit = "success" =>
              /\ counts.captured = asked.count /\ valid = counts.skipped + counts.captured
              /\ WrittenWith(counts.captured)

\* REQBUFS(0) and the last resort are for a pool that there is.
Pooled == pc \in {"abandon", "reqbufs0"} => device.driver_buffers_allocated

\* The inductive invariant of the device.
DeviceInv ==
    /\ Types /\ Progress /\ Agreement /\ Mapped /\ Owned /\ Ended /\ Limits
    /\ Pooled

\* What is inductive on top of it, for the frames.
CaptureInv == AskedFor /\ Counted

\* The closed device and the idle driver, field by field.
LEMMA ClosedFacts ==
  /\ Closed \in DeviceType
  /\ Closed.fd = FALSE /\ Closed.driver_buffers_allocated = FALSE
  /\ Closed.buffers_queued = FALSE /\ Closed.streaming = FALSE
  /\ Closed.granted_buffer_count = 0
  BY DEF Closed, DeviceType

\* The idle driver, field by field.
LEMMA IdleFacts ==
  /\ Idle \in DriverType
  /\ Idle.allocated = 0 /\ Idle.on = FALSE
  /\ \A b \in Buffers : Idle.owner[b] = "none"
  BY DEF Idle, DriverType

\* The first indexes are as many as they say, and every granted one has its place.
LEMMA FirstIndexes == ASSUME NEW k \in Nat PROVE Cardinality(0 .. k - 1) = k
  BY FS_Interval

\* A count of zero has no index.
LEMMA NoIndexes == 0 .. 0 - 1 = {}
  OBVIOUS

\* A pool that was accepted has a first index.
LEMMA SomeIndex ==
  ASSUME NEW granted \in Grants, granted \in 1 .. MaxAccepted
  PROVE  0 \in 0 .. granted - 1
  BY CaptureAssumption DEF CaptureAssumption

\* The indexes of a granted pool are buffers.
LEMMA GrantedIndexes ==
  ASSUME NEW granted \in Grants, granted \in 1 .. MaxAccepted
  PROVE  0 .. granted - 1 \subseteq Buffers
  BY CaptureAssumption DEF CaptureAssumption, Buffers

\* Open keeps DeviceInv: the device file is opened, or not.
LEMMA OpenStep ==
  ASSUME Types, Progress, Agreement, Mapped, Owned, Ended, Limits, Open
  PROVE  Types' /\ Progress' /\ Agreement' /\ Mapped' /\ Owned' /\ Ended' /\ Limits'
  <1> USE DEF Open, Goto, GiveUp, MayFail, options, Labels, Opening, Preparing, Looping,
              Releasing, Closing
  <1>a. device' \in DeviceType
    BY DEF Types, DeviceType, Closed
  <1>b. driver' \in DriverType
    BY DEF Types, DriverType, Idle
  <1>c. local' \in LocalType
    BY DEF Types, LocalType, DeviceType
  <1>d. counts' \in CountsType
    BY DEF Types, CountsType
  <1>e. /\ pc' \in Labels /\ mappings' \subseteq Buffers /\ pages' \subseteq Buffers
        /\ frame' \in [index : Nat, error : BOOLEAN]
        /\ valid' \in Nat /\ saved' \in 0 .. valid'
    BY DEF Types
  <1>1. Types'
    BY <1>a, <1>b, <1>c, <1>d, <1>e DEF Types
  <1>2. Progress'
    BY DEF Progress, Types, LocalType
  <1>3. Agreement'
    <2>1. driver' = driver /\ driver = Idle /\ device = Closed
      BY DEF Agreement
    <2>2. \/ device' = device /\ pc' = "close"
          \/ device' = [device EXCEPT !.fd = TRUE] /\ pc' = "query"
      BY DEF Progress
    <2>3. /\ device'.granted_buffer_count = 0 /\ device'.driver_buffers_allocated = FALSE
          /\ device'.streaming = FALSE /\ driver'.on = FALSE /\ driver'.allocated = 0
          /\ pc' = "query" => device'.fd
      BY <2>1, <2>2, IdleFacts, ClosedFacts DEF Types, DeviceType
    <2> QED
      BY <2>1, <2>2, <2>3 DEF Agreement
  <1>4. Mapped'
    BY DEF Mapped, Agreement, Types, DeviceType, LocalType, Closed, Progress
  <1>5. Owned'
    BY DEF Owned, Out, Agreement, Types, DeviceType, DriverType, Progress, Idle
  <1>6. Ended'
    BY DEF Ended, Progress, Agreement, Mapped, Types, LocalType, DeviceType, Closed
  <1>7. Limits'
    BY DEF Limits, Types, CountsType
  <1> QED
    BY <1>1, <1>2, <1>3, <1>4, <1>5, <1>6, <1>7

\* Query keeps DeviceInv: QUERYCAP answers, and the program lists or negotiates.
LEMMA QueryStep ==
  ASSUME Types, Progress, Agreement, Mapped, Owned, Ended, Limits, Query
  PROVE  Types' /\ Progress' /\ Agreement' /\ Mapped' /\ Owned' /\ Ended' /\ Limits'
  <1> USE DEF Query, Goto, GiveUp, MayFail, options, Labels, Opening, Preparing, Looping,
              Releasing, Closing
  <1>a. device' \in DeviceType
    BY DEF Types, DeviceType, Closed
  <1>b. driver' \in DriverType
    BY DEF Types, DriverType, Idle
  <1>c. local' \in LocalType
    BY DEF Types, LocalType, DeviceType
  <1>d. counts' \in CountsType
    BY DEF Types, CountsType
  <1>e. /\ pc' \in Labels /\ mappings' \subseteq Buffers /\ pages' \subseteq Buffers
        /\ frame' \in [index : Nat, error : BOOLEAN]
        /\ valid' \in Nat /\ saved' \in 0 .. valid'
    BY DEF Types
  <1>1. Types'
    BY <1>a, <1>b, <1>c, <1>d, <1>e DEF Types
  <1>2. Progress'
    BY DEF Progress, Types, LocalType
  <1>3. Agreement'
    BY DEF Agreement, Types, DeviceType, DriverType, Closed, Idle, Progress
  <1>4. Mapped'
    BY DEF Mapped, Agreement, Types, DeviceType, LocalType, Closed, Progress
  <1>5. Owned'
    BY DEF Owned, Out, Agreement, Types, DeviceType, DriverType, Progress, Idle
  <1>6. Ended'
    BY DEF Ended, Progress, Agreement, Mapped, Types, LocalType, DeviceType, Closed
  <1>7. Limits'
    BY DEF Limits, Types, CountsType
  <1> QED
    BY <1>1, <1>2, <1>3, <1>4, <1>5, <1>6, <1>7

\* Enumerate keeps DeviceInv: the formats are listed, and the device is closed.
LEMMA EnumerateStep ==
  ASSUME Types, Progress, Agreement, Mapped, Owned, Ended, Limits, Enumerate
  PROVE  Types' /\ Progress' /\ Agreement' /\ Mapped' /\ Owned' /\ Ended' /\ Limits'
  <1> USE DEF Enumerate, Goto, GiveUp, MayFail, options, Labels, Opening, Preparing,
              Looping, Releasing, Closing
  <1>a. device' \in DeviceType
    BY DEF Types, DeviceType, Closed
  <1>b. driver' \in DriverType
    BY DEF Types, DriverType, Idle
  <1>c. local' \in LocalType
    BY DEF Types, LocalType, DeviceType
  <1>d. counts' \in CountsType
    BY DEF Types, CountsType
  <1>e. /\ pc' \in Labels /\ mappings' \subseteq Buffers /\ pages' \subseteq Buffers
        /\ frame' \in [index : Nat, error : BOOLEAN]
        /\ valid' \in Nat /\ saved' \in 0 .. valid'
    BY DEF Types
  <1>1. Types'
    BY <1>a, <1>b, <1>c, <1>d, <1>e DEF Types
  <1>2. Progress'
    BY DEF Progress, Types, LocalType
  <1>3. Agreement'
    BY DEF Agreement, Types, DeviceType, DriverType, Closed, Idle, Progress
  <1>4. Mapped'
    BY DEF Mapped, Agreement, Types, DeviceType, LocalType, Closed, Progress
  <1>5. Owned'
    BY DEF Owned, Out, Agreement, Types, DeviceType, DriverType, Progress, Idle
  <1>6. Ended'
    BY DEF Ended, Progress, Agreement, Mapped, Types, LocalType, DeviceType, Closed
  <1>7. Limits'
    BY DEF Limits, Types, CountsType
  <1> QED
    BY <1>1, <1>2, <1>3, <1>4, <1>5, <1>6, <1>7

\* Negotiate keeps DeviceInv: a format is agreed on, and from here there may be buffers to release.
LEMMA NegotiateStep ==
  ASSUME Types, Progress, Agreement, Mapped, Owned, Ended, Limits, Negotiate
  PROVE  Types' /\ Progress' /\ Agreement' /\ Mapped' /\ Owned' /\ Ended' /\ Limits'
  <1> USE DEF Negotiate, Goto, GiveUp, MayFail, options, Labels, Opening, Preparing,
              Looping, Releasing, Closing
  <1>a. device' \in DeviceType
    BY DEF Types, DeviceType, Closed
  <1>b. driver' \in DriverType
    BY DEF Types, DriverType, Idle
  <1>c. local' \in LocalType
    BY DEF Types, LocalType, DeviceType
  <1>d. counts' \in CountsType
    BY DEF Types, CountsType
  <1>e. /\ pc' \in Labels /\ mappings' \subseteq Buffers /\ pages' \subseteq Buffers
        /\ frame' \in [index : Nat, error : BOOLEAN]
        /\ valid' \in Nat /\ saved' \in 0 .. valid'
    BY DEF Types
  <1>1. Types'
    BY <1>a, <1>b, <1>c, <1>d, <1>e DEF Types
  <1>2. Progress'
    BY DEF Progress, Types, LocalType
  <1>3. Agreement'
    BY DEF Agreement, Types, DeviceType, DriverType, Closed, Idle, Progress
  <1>4. Mapped'
    BY DEF Mapped, Agreement, Types, DeviceType, LocalType, Closed, Progress
  <1>5. Owned'
    BY DEF Owned, Out, Agreement, Types, DeviceType, DriverType, Progress, Idle
  <1>6. Ended'
    BY DEF Ended, Progress, Agreement, Mapped, Types, LocalType, DeviceType, Closed
  <1>7. Limits'
    BY DEF Limits, Types, CountsType
  <1> QED
    BY <1>1, <1>2, <1>3, <1>4, <1>5, <1>6, <1>7

\* RequestBuffers keeps DeviceInv: the driver grants a pool, which is accepted or released again.
LEMMA RequestBuffersStep ==
  ASSUME Types, Progress, Agreement, Mapped, Owned, Ended, Limits, RequestBuffers
  PROVE  Types' /\ Progress' /\ Agreement' /\ Mapped' /\ Owned' /\ Ended' /\ Limits'
  <1> USE DEF RequestBuffers, Goto, GiveUp, MayFail, options, Labels, Opening, Preparing,
              Looping, Releasing, Closing
  <1>a. device' \in DeviceType
    <2>1. \/ device' = device
          \/ \E granted \in Grants :
                device' = [device EXCEPT !.driver_buffers_allocated = TRUE,
                                         !.granted_buffer_count = granted]
      OBVIOUS
    <2>2. CASE device' = device
      BY <2>2 DEF Types
    <2>3. ASSUME NEW granted \in Grants,
                 device' = [device EXCEPT !.driver_buffers_allocated = TRUE,
                                          !.granted_buffer_count = granted]
          PROVE  device' \in DeviceType
      BY <2>3, CaptureAssumption DEF Types, DeviceType, CaptureAssumption
    <2> QED
      BY <2>1, <2>2, <2>3
  <1>b. driver' \in DriverType
    BY DEF Types, DriverType, Idle
  <1>c. local' \in LocalType
    BY DEF Types, LocalType, DeviceType
  <1>d. counts' \in CountsType
    BY DEF Types, CountsType
  <1>e. /\ pc' \in Labels /\ mappings' \subseteq Buffers /\ pages' \subseteq Buffers
        /\ frame' \in [index : Nat, error : BOOLEAN]
        /\ valid' \in Nat /\ saved' \in 0 .. valid'
    BY DEF Types
  <1>1. Types'
    BY <1>a, <1>b, <1>c, <1>d, <1>e DEF Types
  <1>2. Progress'
    BY DEF Progress, Types, LocalType
  <1>3. Agreement'
    <2>1. pc = "reqbufs" /\ mappings = {} /\ UNCHANGED <<mappings, pages>> /\ driver = Idle
      BY DEF Mapped, Agreement
    <2>2. CASE /\ UNCHANGED <<driver, device>>
               /\ pc' = "release" /\ local' = [local EXCEPT !.succeeded = FALSE]
      <3>1. device.fd /\ device.streaming = driver.on
        BY <2>1 DEF Agreement
      <3> QED
        BY <2>1, <2>2, <3>1 DEF Agreement
    <2>3. CASE \E granted \in Grants :
                 /\ driver' = [driver EXCEPT !.allocated = granted]
                 /\ device' = [device EXCEPT !.driver_buffers_allocated = TRUE,
                                             !.granted_buffer_count = granted]
                 /\ \/ granted \in 1 .. MaxAccepted /\ pc' = "map" /\ local' = local
                    \/ pc' = "release" /\ local' = [local EXCEPT !.succeeded = FALSE]
      <3>1. PICK granted \in Grants :
               /\ driver' = [driver EXCEPT !.allocated = granted]
               /\ device' = [device EXCEPT !.driver_buffers_allocated = TRUE,
                                           !.granted_buffer_count = granted]
               /\ \/ granted \in 1 .. MaxAccepted /\ pc' = "map" /\ local' = local
                  \/ pc' = "release" /\ local' = [local EXCEPT !.succeeded = FALSE]
        BY <2>3
      <3>2. /\ driver'.allocated = granted /\ driver'.on = driver.on
            /\ device'.granted_buffer_count = granted /\ device'.driver_buffers_allocated
            /\ device'.fd = device.fd /\ device'.streaming = device.streaming
        BY <3>1 DEF Types, DeviceType, DriverType
      <3>3. device.fd /\ device.streaming = driver.on /\ ~driver.on
        BY <2>1, IdleFacts DEF Agreement
      <3> QED
        BY <3>1, <3>2, <3>3 DEF Agreement
    <2>4. local.attempted /\ ~local.stream_started
      BY <2>1 DEF Progress
    <2> QED
      BY <2>2, <2>3, <2>4
  <1>4. Mapped'
    <2>1. pc = "reqbufs" /\ mappings = {} /\ UNCHANGED <<mappings, pages>> /\ driver = Idle
      BY DEF Mapped, Agreement
    <2>2. CASE /\ UNCHANGED <<driver, device>>
               /\ pc' = "release" /\ local' = [local EXCEPT !.succeeded = FALSE]
      <3>1. local'.succeeded = FALSE /\ local'.caller = local.caller
        BY <2>2 DEF Types, LocalType
      <3>2. device.fd /\ ~device.driver_buffers_allocated
        BY <2>1 DEF Agreement
      <3> QED
        BY <2>1, <2>2, <3>1, <3>2 DEF Mapped
    <2>3. CASE \E granted \in Grants :
                 /\ driver' = [driver EXCEPT !.allocated = granted]
                 /\ device' = [device EXCEPT !.driver_buffers_allocated = TRUE,
                                             !.granted_buffer_count = granted]
                 /\ \/ granted \in 1 .. MaxAccepted /\ pc' = "map" /\ local' = local
                    \/ pc' = "release" /\ local' = [local EXCEPT !.succeeded = FALSE]
      <3>1. pages = {}
        BY <2>1 DEF Mapped, Progress
      <3>2. PICK granted \in Grants :
               /\ driver' = [driver EXCEPT !.allocated = granted]
               /\ \/ granted \in 1 .. MaxAccepted /\ pc' = "map" /\ local' = local
                  \/ pc' = "release" /\ local' = [local EXCEPT !.succeeded = FALSE]
        BY <2>3
      <3>3. driver'.allocated = granted
        BY <3>2 DEF Types, DriverType
      <3>4. {} = 0 .. 0 - 1
        BY NoIndexes
      <3>5. granted \in 1 .. MaxAccepted => 0 \in 0 .. granted - 1
        BY SomeIndex
      <3>6. pc' = "map" => \E k \in 0 .. driver'.allocated - 1 : mappings' = 0 .. k - 1
        BY <2>1, <3>2, <3>3, <3>4, <3>5
      <3>7. pc' \in {"map", "release"} /\ local'.caller = local.caller /\ device'.fd
        BY <2>1, <2>3 DEF Types, LocalType, DeviceType, Agreement
      <3> QED
        BY <2>1, <3>1, <3>6, <3>7 DEF Mapped
    <2>4. local.attempted /\ ~local.stream_started
      BY <2>1 DEF Progress
    <2> QED
      BY <2>2, <2>3, <2>4
  <1>5. Owned'
    <2>1. pc = "reqbufs" /\ mappings = {} /\ UNCHANGED <<mappings, pages>> /\ driver = Idle
      BY DEF Mapped, Agreement
    <2>2. CASE /\ UNCHANGED <<driver, device>>
               /\ pc' = "release" /\ local' = [local EXCEPT !.succeeded = FALSE]
      <3>1. Out' = Out
        BY <2>2 DEF Out
      <3> QED
        BY <2>1, <2>2, <3>1 DEF Owned
    <2>3. CASE \E granted \in Grants :
                 /\ driver' = [driver EXCEPT !.allocated = granted]
                 /\ device' = [device EXCEPT !.driver_buffers_allocated = TRUE,
                                             !.granted_buffer_count = granted]
                 /\ \/ granted \in 1 .. MaxAccepted /\ pc' = "map" /\ local' = local
                    \/ pc' = "release" /\ local' = [local EXCEPT !.succeeded = FALSE]
      <3>1. driver'.owner = driver.owner /\ pc' \in {"map", "release"}
        BY <2>3 DEF Types, DriverType
      <3>2. Out = {} /\ \A b \in Buffers : driver.owner[b] = "none"
        BY <2>1 DEF Owned
      <3>3. Out' = {}
        BY <3>1, <3>2 DEF Out
      <3> QED
        BY <3>1, <3>2, <3>3 DEF Owned
    <2>4. local.attempted /\ ~local.stream_started
      BY <2>1 DEF Progress
    <2> QED
      BY <2>2, <2>3, <2>4
  <1>6. Ended'
    BY DEF Ended, Progress, Agreement, Mapped, Types, LocalType, DeviceType, Closed
  <1>7. Limits'
    BY DEF Limits, Types, CountsType
  <1> QED
    BY <1>1, <1>2, <1>3, <1>4, <1>5, <1>6, <1>7

\* MapBuffer keeps DeviceInv: the next index is mapped, and the last one ends the loop.
LEMMA MapBufferStep ==
  ASSUME Types, Progress, Agreement, Mapped, Owned, Ended, Limits, MapBuffer
  PROVE  Types' /\ Progress' /\ Agreement' /\ Mapped' /\ Owned' /\ Ended' /\ Limits'
  <1> USE DEF MapBuffer, AllMapped, Goto, GiveUp, MayFail, options, Labels, Opening,
              Preparing, Looping, Releasing, Closing
  <1>a. device' \in DeviceType
    BY DEF Types, DeviceType, Closed
  <1>b. driver' \in DriverType
    BY DEF Types, DriverType, Idle
  <1>c. local' \in LocalType
    BY DEF Types, LocalType, DeviceType
  <1>d. counts' \in CountsType
    BY DEF Types, CountsType
  <1>e. /\ pc' \in Labels /\ mappings' \subseteq Buffers /\ pages' \subseteq Buffers
        /\ frame' \in [index : Nat, error : BOOLEAN]
        /\ valid' \in Nat /\ saved' \in 0 .. valid'
    <2>1. PICK k \in 0 .. driver.allocated - 1 : mappings = 0 .. k - 1
      BY DEF Mapped
    <2>2. /\ driver.allocated \in Nat /\ driver.allocated \in Grants
          /\ driver.allocated \in 1 .. MaxAccepted
          /\ device.granted_buffer_count = driver.allocated
          /\ device.fd /\ device.driver_buffers_allocated
      BY CaptureAssumption DEF Agreement, Types, DriverType, CaptureAssumption
    <2>3. k \in Nat /\ k \in Buffers /\ Cardinality(mappings) = k
      BY <2>1, <2>2, FirstIndexes, GrantedIndexes
    <2>4. mappings' \in {mappings, mappings \cup {k}} /\ pages' \in {pages, pages \cup {k}}
      BY <2>3
    <2> QED
      BY <2>3, <2>4 DEF Types
  <1>1. Types'
    BY <1>a, <1>b, <1>c, <1>d, <1>e DEF Types
  <1>2. Progress'
    BY DEF Progress, Types, LocalType
  <1>3. Agreement'
    BY DEF Agreement, Types, DeviceType, DriverType, Closed, Idle, Progress
  <1>4. Mapped'
    <2>1. PICK k \in 0 .. driver.allocated - 1 : mappings = 0 .. k - 1
      BY DEF Mapped
    <2>2. /\ driver.allocated \in Nat /\ driver.allocated \in Grants
          /\ driver.allocated \in 1 .. MaxAccepted
          /\ device.granted_buffer_count = driver.allocated
          /\ device.fd /\ device.driver_buffers_allocated
      BY CaptureAssumption DEF Agreement, Types, DriverType, CaptureAssumption
    <2>3. k \in Nat /\ k \in Buffers /\ Cardinality(mappings) = k
      BY <2>1, <2>2, FirstIndexes, GrantedIndexes
    <2>4. local.caller = "main" /\ local.succeeded /\ local.attempted /\ ~local.stream_started
      BY DEF Progress
    <2>5. pages = mappings
      BY <2>2 DEF Mapped
    <2>6. CASE /\ mappings' = mappings \cup {k} /\ pages' = pages \cup {k} /\ local' = local
               /\ pc' = IF k + 1 = device.granted_buffer_count THEN "queue" ELSE "map"
      <3>1. mappings' = 0 .. (k + 1) - 1
        BY <2>1, <2>3, <2>6
      <3>2. pc' = "map" => k + 1 \in 0 .. driver.allocated - 1
        BY <2>1, <2>2, <2>3, <2>6
      <3>3. \A index \in mappings' : index < driver.allocated
        BY <2>1, <2>2, <2>3, <3>1
      <3> QED
        BY <2>2, <2>4, <2>5, <2>6, <3>1, <3>2, <3>3 DEF Mapped
    <2>7. CASE /\ UNCHANGED <<mappings, pages>> /\ pc' = "release"
               /\ local' = [local EXCEPT !.succeeded = FALSE]
      BY <2>2, <2>4, <2>5, <2>7 DEF Mapped, Types, LocalType
    <2> QED
      BY <2>3, <2>4, <2>6, <2>7
  <1>5. Owned'
    <2>1. Out' = Out /\ UNCHANGED driver /\ pc' \in {"map", "queue", "release"}
      BY DEF Out, Progress
    <2>2. Out = {} /\ \A b \in Buffers : driver.owner[b] = "none"
      BY DEF Owned
    <2>3. 0 \in 0 .. driver.allocated - 1
      BY CaptureAssumption DEF Agreement, CaptureAssumption
    <2>4. \A b \in Buffers : driver'.owner[b] = IF b < 0 THEN "driver" ELSE "none"
      BY <2>1, <2>2 DEF Buffers
    <2> QED
      BY <2>1, <2>2, <2>3, <2>4 DEF Owned
  <1>6. Ended'
    BY DEF Ended, Progress, Agreement, Mapped, Types, LocalType, DeviceType, Closed
  <1>7. Limits'
    BY DEF Limits, Types, CountsType
  <1> QED
    BY <1>1, <1>2, <1>3, <1>4, <1>5, <1>6, <1>7

\* QueueBuffer keeps DeviceInv: the next index is queued, and the last one ends the loop.
LEMMA QueueBufferStep ==
  ASSUME Types, Progress, Agreement, Mapped, Owned, Ended, Limits, QueueBuffer
  PROVE  Types' /\ Progress' /\ Agreement' /\ Mapped' /\ Owned' /\ Ended' /\ Limits'
  <1> USE DEF QueueBuffer, Goto, GiveUp, MayFail, options, Labels, Opening, Preparing,
              Looping, Releasing, Closing
  <1>a. device' \in DeviceType
    BY DEF Types, DeviceType, Closed
  <1>b. driver' \in DriverType
    BY DEF Types, DriverType, Idle
  <1>c. local' \in LocalType
    BY DEF Types, LocalType, DeviceType
  <1>d. counts' \in CountsType
    BY DEF Types, CountsType
  <1>e. /\ pc' \in Labels /\ mappings' \subseteq Buffers /\ pages' \subseteq Buffers
        /\ frame' \in [index : Nat, error : BOOLEAN]
        /\ valid' \in Nat /\ saved' \in 0 .. valid'
    BY DEF Types
  <1>1. Types'
    BY <1>a, <1>b, <1>c, <1>d, <1>e DEF Types
  <1>2. Progress'
    BY DEF Progress, Types, LocalType
  <1>3. Agreement'
    BY DEF Agreement, Types, DeviceType, DriverType, Closed, Idle, Progress
  <1>4. Mapped'
    BY DEF Mapped, Agreement, Types, DeviceType, LocalType, Closed, Progress
  <1>5. Owned'
    <2>1. PICK k \in 0 .. driver.allocated - 1 :
             \A b \in Buffers : driver.owner[b] = IF b < k THEN "driver" ELSE "none"
      BY DEF Owned
    <2>2. /\ driver.allocated \in Nat /\ driver.allocated \in Grants
          /\ driver.allocated \in 1 .. MaxAccepted
          /\ device.granted_buffer_count = driver.allocated
      BY CaptureAssumption DEF Agreement, Types, DriverType, CaptureAssumption
    <2>3. k \in Nat /\ k \in Buffers /\ 0 .. k - 1 \subseteq Buffers
      BY <2>2, GrantedIndexes
    <2>4. Queued = 0 .. k - 1
      BY <2>1, <2>3 DEF Queued, Buffers
    <2>5. Cardinality(Queued) = k
      BY <2>3, <2>4, FirstIndexes
    <2>6. Out = {} /\ local.succeeded
      BY DEF Owned, Progress
    <2>7. \/ driver' = driver /\ pc' = "release"
          \/ driver' = [driver EXCEPT !.owner[k] = "driver"] /\ pc' = "release"
          \/ /\ driver' = [driver EXCEPT !.owner[k] = "driver"]
             /\ device' = [device EXCEPT !.buffers_queued = (k + 1 = device.granted_buffer_count)]
             /\ pc' = IF k + 1 = device.granted_buffer_count THEN "streamon" ELSE "queue"
      BY <2>5 DEF Progress
    <2>8. CASE driver' = driver /\ pc' = "release"
      <3>1. Out' = {}
        BY <2>6, <2>8 DEF Out
      <3> QED
        BY <2>8, <3>1 DEF Owned
    <2>9. CASE driver' = [driver EXCEPT !.owner[k] = "driver"]
      <3>1. \A b \in Buffers : driver'.owner[b] = IF b = k THEN "driver" ELSE driver.owner[b]
        BY <2>3, <2>9 DEF Types, DriverType
      <3>2. Out' = {}
        BY <2>6, <3>1 DEF Out
      <3>3. \A b \in Buffers : driver'.owner[b] = IF b < k + 1 THEN "driver" ELSE "none"
        BY <2>1, <2>3, <3>1 DEF Buffers
      <3>4. pc' = "queue" => k + 1 \in 0 .. driver'.allocated - 1
        BY <2>2, <2>3, <2>7, <2>9 DEF Types, DriverType
      <3>5. pc' = "streamon" => device'.buffers_queued
        BY <2>7 DEF Types, DeviceType
      <3>6. pc' \in {"release", "queue", "streamon"}
        BY <2>7
      <3> QED
        BY <3>2, <3>3, <3>4, <3>5, <3>6 DEF Owned
    <2> QED
      BY <2>7, <2>8, <2>9
  <1>6. Ended'
    BY DEF Ended, Progress, Agreement, Mapped, Types, LocalType, DeviceType, Closed
  <1>7. Limits'
    BY DEF Limits, Types, CountsType
  <1> QED
    BY <1>1, <1>2, <1>3, <1>4, <1>5, <1>6, <1>7

\* StartStreaming keeps DeviceInv: STREAMON starts the driver, or the pool is released.
LEMMA StartStreamingStep ==
  ASSUME Types, Progress, Agreement, Mapped, Owned, Ended, Limits, StartStreaming
  PROVE  Types' /\ Progress' /\ Agreement' /\ Mapped' /\ Owned' /\ Ended' /\ Limits'
  <1> USE DEF StartStreaming, Goto, GiveUp, MayFail, options, Labels, Opening, Preparing,
              Looping, Releasing, Closing
  <1>a. device' \in DeviceType
    BY DEF Types, DeviceType, Closed
  <1>b. driver' \in DriverType
    BY DEF Types, DriverType, Idle
  <1>c. local' \in LocalType
    BY DEF Types, LocalType, DeviceType
  <1>d. counts' \in CountsType
    BY DEF Types, CountsType
  <1>e. /\ pc' \in Labels /\ mappings' \subseteq Buffers /\ pages' \subseteq Buffers
        /\ frame' \in [index : Nat, error : BOOLEAN]
        /\ valid' \in Nat /\ saved' \in 0 .. valid'
    BY DEF Types
  <1>1. Types'
    BY <1>a, <1>b, <1>c, <1>d, <1>e DEF Types
  <1>2. Progress'
    BY DEF Progress, Types, LocalType
  <1>3. Agreement'
    BY DEF Agreement, Types, DeviceType, DriverType, Closed, Idle, Progress
  <1>4. Mapped'
    BY DEF Mapped, Agreement, Types, DeviceType, LocalType, Closed, Progress
  <1>5. Owned'
    BY DEF Owned, Out, Agreement, Types, DeviceType, DriverType, Progress, Idle
  <1>6. Ended'
    BY DEF Ended, Progress, Agreement, Mapped, Types, LocalType, DeviceType, Closed
  <1>7. Limits'
    BY DEF Limits, Types, CountsType
  <1> QED
    BY <1>1, <1>2, <1>3, <1>4, <1>5, <1>6, <1>7

\* CaptureBegin keeps DeviceInv: the loop is entered, or the format refused.
LEMMA CaptureBeginStep ==
  ASSUME Types, Progress, Agreement, Mapped, Owned, Ended, Limits, CaptureBegin
  PROVE  Types' /\ Progress' /\ Agreement' /\ Mapped' /\ Owned' /\ Ended' /\ Limits'
  <1> USE DEF CaptureBegin, Goto, GiveUp, MayFail, options, Labels, Opening, Preparing, Looping,
              Releasing, Closing
  <1>a. device' \in DeviceType
    BY DEF Types, DeviceType, Closed
  <1>b. driver' \in DriverType
    BY DEF Types, DriverType, Idle
  <1>c. local' \in LocalType
    BY DEF Types, LocalType, DeviceType
  <1>d. counts' \in CountsType
    BY DEF Types, CountsType
  <1>e. /\ pc' \in Labels /\ mappings' \subseteq Buffers /\ pages' \subseteq Buffers
        /\ frame' \in [index : Nat, error : BOOLEAN]
        /\ valid' \in Nat /\ saved' \in 0 .. valid'
    BY DEF Types
  <1>1. Types'
    BY <1>a, <1>b, <1>c, <1>d, <1>e DEF Types
  <1>2. Progress'
    BY DEF Progress, Types, LocalType
  <1>3. Agreement'
    BY DEF Agreement, Types, DeviceType, DriverType, Closed, Idle, Progress
  <1>4. Mapped'
    BY DEF Mapped, Agreement, Types, DeviceType, LocalType, Closed, Progress
  <1>5. Owned'
    BY DEF Owned, Out, Agreement, Types, DeviceType, DriverType, Progress, Idle
  <1>6. Ended'
    BY DEF Ended, Progress, Agreement, Mapped, Types, LocalType, DeviceType, Closed
  <1>7. Limits'
    BY DEF Limits, Types, CountsType
  <1> QED
    BY <1>1, <1>2, <1>3, <1>4, <1>5, <1>6, <1>7

\* Poll keeps DeviceInv: poll() returns with a frame to take, or the capture ends.
LEMMA PollStep ==
  ASSUME Types, Progress, Agreement, Mapped, Owned, Ended, Limits, Poll
  PROVE  Types' /\ Progress' /\ Agreement' /\ Mapped' /\ Owned' /\ Ended' /\ Limits'
  <1> USE DEF Poll, Goto, GiveUp, MayFail, options, Labels, Opening, Preparing, Looping,
              Releasing, Closing
  <1>a. device' \in DeviceType
    BY DEF Types, DeviceType, Closed
  <1>b. driver' \in DriverType
    BY DEF Types, DriverType, Idle
  <1>c. local' \in LocalType
    BY DEF Types, LocalType, DeviceType
  <1>d. counts' \in CountsType
    BY DEF Types, CountsType
  <1>e. /\ pc' \in Labels /\ mappings' \subseteq Buffers /\ pages' \subseteq Buffers
        /\ frame' \in [index : Nat, error : BOOLEAN]
        /\ valid' \in Nat /\ saved' \in 0 .. valid'
    BY DEF Types
  <1>1. Types'
    BY <1>a, <1>b, <1>c, <1>d, <1>e DEF Types
  <1>2. Progress'
    BY DEF Progress, Types, LocalType
  <1>3. Agreement'
    BY DEF Agreement, Types, DeviceType, DriverType, Closed, Idle, Progress
  <1>4. Mapped'
    BY DEF Mapped, Agreement, Types, DeviceType, LocalType, Closed, Progress
  <1>5. Owned'
    BY DEF Owned, Out, Agreement, Types, DeviceType, DriverType, Progress, Idle
  <1>6. Ended'
    BY DEF Ended, Progress, Agreement, Mapped, Types, LocalType, DeviceType, Closed
  <1>7. Limits'
    BY DEF Limits, Types, CountsType
  <1> QED
    BY <1>1, <1>2, <1>3, <1>4, <1>5, <1>6, <1>7

\* DequeueAgain keeps DeviceInv: DQBUF finds nothing, as often as the limit allows.
LEMMA DequeueAgainStep ==
  ASSUME Types, Progress, Agreement, Mapped, Owned, Ended, Limits, DequeueAgain
  PROVE  Types' /\ Progress' /\ Agreement' /\ Mapped' /\ Owned' /\ Ended' /\ Limits'
  <1> USE DEF DequeueAgain, TooManyRetries, Goto, GiveUp, MayFail, options, Labels, Opening,
              Preparing, Looping, Releasing, Closing
  <1>a. device' \in DeviceType
    BY DEF Types, DeviceType, Closed
  <1>b. driver' \in DriverType
    BY DEF Types, DriverType, Idle
  <1>c. local' \in LocalType
    BY DEF Types, LocalType, DeviceType
  <1>d. counts' \in CountsType
    <2>1. counts' = counts \/ (counts.retries + 1 \in 0 .. MaxRetries
                                   /\ counts' = [counts EXCEPT !.retries = counts.retries + 1])
      BY CaptureAssumption DEF Types, CountsType, CaptureAssumption
    <2> QED
      BY <2>1 DEF Types, CountsType
  <1>e. /\ pc' \in Labels /\ mappings' \subseteq Buffers /\ pages' \subseteq Buffers
        /\ frame' \in [index : Nat, error : BOOLEAN]
        /\ valid' \in Nat /\ saved' \in 0 .. valid'
    BY DEF Types
  <1>1. Types'
    BY <1>a, <1>b, <1>c, <1>d, <1>e DEF Types
  <1>2. Progress'
    BY DEF Progress, Types, LocalType
  <1>3. Agreement'
    BY DEF Agreement, Types, DeviceType, DriverType, Closed, Idle, Progress
  <1>4. Mapped'
    BY DEF Mapped, Agreement, Types, DeviceType, LocalType, Closed, Progress
  <1>5. Owned'
    BY DEF Owned, Out, Agreement, Types, DeviceType, DriverType, Progress, Idle
  <1>6. Ended'
    BY DEF Ended, Progress, Agreement, Mapped, Types, LocalType, DeviceType, Closed
  <1>7. Limits'
    BY DEF Limits, Types, CountsType
  <1> QED
    BY <1>1, <1>2, <1>3, <1>4, <1>5, <1>6, <1>7

\* DequeueFails keeps DeviceInv: DQBUF fails, and the capture ends.
LEMMA DequeueFailsStep ==
  ASSUME Types, Progress, Agreement, Mapped, Owned, Ended, Limits, DequeueFails
  PROVE  Types' /\ Progress' /\ Agreement' /\ Mapped' /\ Owned' /\ Ended' /\ Limits'
  <1> USE DEF DequeueFails, Goto, GiveUp, MayFail, options, Labels, Opening, Preparing,
              Looping, Releasing, Closing
  <1>a. device' \in DeviceType
    BY DEF Types, DeviceType, Closed
  <1>b. driver' \in DriverType
    BY DEF Types, DriverType, Idle
  <1>c. local' \in LocalType
    BY DEF Types, LocalType, DeviceType
  <1>d. counts' \in CountsType
    BY DEF Types, CountsType
  <1>e. /\ pc' \in Labels /\ mappings' \subseteq Buffers /\ pages' \subseteq Buffers
        /\ frame' \in [index : Nat, error : BOOLEAN]
        /\ valid' \in Nat /\ saved' \in 0 .. valid'
    BY DEF Types
  <1>1. Types'
    BY <1>a, <1>b, <1>c, <1>d, <1>e DEF Types
  <1>2. Progress'
    BY DEF Progress, Types, LocalType
  <1>3. Agreement'
    BY DEF Agreement, Types, DeviceType, DriverType, Closed, Idle, Progress
  <1>4. Mapped'
    BY DEF Mapped, Agreement, Types, DeviceType, LocalType, Closed, Progress
  <1>5. Owned'
    BY DEF Owned, Out, Agreement, Types, DeviceType, DriverType, Progress, Idle
  <1>6. Ended'
    BY DEF Ended, Progress, Agreement, Mapped, Types, LocalType, DeviceType, Closed
  <1>7. Limits'
    BY DEF Limits, Types, CountsType
  <1> QED
    BY <1>1, <1>2, <1>3, <1>4, <1>5, <1>6, <1>7

\* Dequeue keeps DeviceInv: a buffer leaves the driver, and no second one is out.
LEMMA DequeueStep ==
  ASSUME Types, Progress, Agreement, Mapped, Owned, Ended, Limits, Dequeue
  PROVE  Types' /\ Progress' /\ Agreement' /\ Mapped' /\ Owned' /\ Ended' /\ Limits'
  <1> USE DEF Dequeue, CountErrors, Queued, Goto, GiveUp, MayFail, options, Labels, Opening,
              Preparing, Looping, Releasing, Closing
  <1>a. device' \in DeviceType
    BY DEF Types, DeviceType, Closed
  <1>b. driver' \in DriverType
    BY DEF Types, DriverType, Idle
  <1>c. local' \in LocalType
    BY DEF Types, LocalType, DeviceType
  <1>d. counts' \in CountsType
    <2>1. counts' = [counts EXCEPT !.retries = 0,
                                   !.errors = CountErrors(counts.errors, frame'.error)]
      BY DEF CountErrors
    <2>2. counts.errors \in Nat /\ counts.errors < MaxErrors /\ 0 \in 0 .. MaxRetries
      BY CaptureAssumption DEF Types, CountsType, Limits, CaptureAssumption
    <2>3. counts.errors \in 0 .. MaxErrors /\ counts.errors + 1 \in 0 .. MaxErrors
      BY <2>2, CaptureAssumption DEF CaptureAssumption
    <2>4. CountErrors(counts.errors, frame'.error) \in 0 .. MaxErrors
      BY <2>3 DEF CountErrors
    <2> HIDE DEF CountErrors
    <2> QED
      BY <2>1, <2>2, <2>4 DEF Types, CountsType
  <1>e. /\ pc' \in Labels /\ mappings' \subseteq Buffers /\ pages' \subseteq Buffers
        /\ frame' \in [index : Nat, error : BOOLEAN]
        /\ valid' \in Nat /\ saved' \in 0 .. valid'
    <2>1. PICK b \in Queued, error \in {FALSE, MayFail("flagged")} :
             frame' = [index |-> b, error |-> error] /\ valid' = IF error THEN valid ELSE valid + 1
      OBVIOUS
    <2>2. b \in Nat
      BY DEF Buffers
    <2>3. error \in BOOLEAN
      <3> HIDE DEF MayFail
      <3>1. MayFail("flagged") \in BOOLEAN
        BY DEF MayFail
      <3> QED
        BY <3>1
    <2>4. frame' \in [index : Nat, error : BOOLEAN]
      BY <2>1, <2>2, <2>3
    <2>5. valid' \in Nat /\ saved' \in 0 .. valid'
      BY <2>1 DEF Types
    <2> QED
      BY <2>4, <2>5 DEF Types
  <1>1. Types'
    BY <1>a, <1>b, <1>c, <1>d, <1>e DEF Types
  <1>2. Progress'
    BY DEF Progress, Types, LocalType
  <1>3. Agreement'
    BY DEF Agreement, Types, DeviceType, DriverType, Closed, Idle, Progress
  <1>4. Mapped'
    BY DEF Mapped, Agreement, Types, DeviceType, LocalType, Closed, Progress
  <1>5. Owned'
    <2>1. PICK b \in Queued, error \in {FALSE, MayFail("flagged")} :
             /\ driver' = [driver EXCEPT !.owner[b] = "user"]
             /\ frame' = [index |-> b, error |-> error]
      OBVIOUS
    <2>2. b \in Buffers /\ frame'.index = b
      BY <2>1
    <2>3. \A c \in Buffers : driver'.owner[c] = IF c = b THEN "user" ELSE driver.owner[c]
      BY <2>1, <2>2 DEF Types, DriverType
    <2>4. Out = {}
      BY DEF Owned
    <2>5. Out' = {b}
      BY <2>2, <2>3, <2>4 DEF Out
    <2>6. pc' = "save" \/ (pc' = "streamoff" /\ ~local'.succeeded)
      BY DEF Progress, Types, LocalType
    <2> QED
      BY <2>2, <2>5, <2>6 DEF Owned
  <1>6. Ended'
    BY DEF Ended, Progress, Agreement, Mapped, Types, LocalType, DeviceType, Closed
  <1>7. Limits'
    BY DEF Limits, Types, CountsType
  <1> QED
    BY <1>1, <1>2, <1>3, <1>4, <1>5, <1>6, <1>7

\* Save keeps DeviceInv: the last requested frame is written before its buffer goes back.
LEMMA SaveStep ==
  ASSUME Types, Progress, Agreement, Mapped, Owned, Ended, Limits, Save
  PROVE  Types' /\ Progress' /\ Agreement' /\ Mapped' /\ Owned' /\ Ended' /\ Limits'
  <1> USE DEF Save, IsFinal, IsSkipped, Goto, MayFail, options, Labels, Opening, Preparing,
              Looping, Releasing, Closing
  <1>a. device' \in DeviceType
    BY DEF Types, DeviceType, Closed
  <1>b. driver' \in DriverType
    BY DEF Types, DriverType, Idle
  <1>c. local' \in LocalType
    BY DEF Types, LocalType, DeviceType
  <1>d. counts' \in CountsType
    BY DEF Types, CountsType
  <1>e. /\ pc' \in Labels /\ mappings' \subseteq Buffers /\ pages' \subseteq Buffers
        /\ frame' \in [index : Nat, error : BOOLEAN]
        /\ valid' \in Nat /\ saved' \in 0 .. valid'
    BY DEF Types
  <1>1. Types'
    BY <1>a, <1>b, <1>c, <1>d, <1>e DEF Types
  <1>2. Progress'
    BY DEF Progress, Types, LocalType
  <1>3. Agreement'
    BY DEF Agreement, Types, DeviceType, DriverType, Closed, Idle, Progress
  <1>4. Mapped'
    BY DEF Mapped, Agreement, Types, DeviceType, LocalType, Closed, Progress
  <1>5. Owned'
    BY DEF Owned, Out, Agreement, Types, DeviceType, DriverType, Progress, Idle
  <1>6. Ended'
    BY DEF Ended, Progress, Agreement, Mapped, Types, LocalType, DeviceType, Closed
  <1>7. Limits'
    BY DEF Limits, Types, CountsType
  <1> QED
    BY <1>1, <1>2, <1>3, <1>4, <1>5, <1>6, <1>7

\* Requeue keeps DeviceInv: the buffer goes back to the driver, and its frame is counted.
LEMMA RequeueStep ==
  ASSUME Types, Progress, Agreement, Mapped, Owned, Ended, Limits, Requeue
  PROVE  Types' /\ Progress' /\ Agreement' /\ Mapped' /\ Owned' /\ Ended' /\ Limits'
  <1> USE DEF Requeue, CountFrame, IsSkipped, TooManyErrors, Enough, Goto, GiveUp, MayFail,
              options, Labels, Opening, Preparing, Looping, Releasing, Closing
  <1>a. device' \in DeviceType
    BY DEF Types, DeviceType, Closed
  <1>b. driver' \in DriverType
    BY DEF Types, DriverType, Idle
  <1>c. local' \in LocalType
    BY DEF Types, LocalType, DeviceType
  <1>d. counts' \in CountsType
    <2>1. 0 \in 0 .. MaxErrors
      BY CaptureAssumption DEF CaptureAssumption
    <2>2. \/ counts' = counts
          \/ counts' = [counts EXCEPT !.errors = 0, !.skipped = counts.skipped + 1]
          \/ counts' = [counts EXCEPT !.errors = 0, !.captured = counts.captured + 1]
      OBVIOUS
    <2>3. counts \in CountsType /\ counts.skipped + 1 \in Nat /\ counts.captured + 1 \in Nat
      BY DEF Types, CountsType
    <2>4. CASE counts' = counts
      BY <2>3, <2>4
    <2>5. CASE counts' = [counts EXCEPT !.errors = 0, !.skipped = counts.skipped + 1]
      BY <2>1, <2>3, <2>5 DEF CountsType
    <2>6. CASE counts' = [counts EXCEPT !.errors = 0, !.captured = counts.captured + 1]
      BY <2>1, <2>3, <2>6 DEF CountsType
    <2> QED
      BY <2>2, <2>4, <2>5, <2>6
  <1>e. /\ pc' \in Labels /\ mappings' \subseteq Buffers /\ pages' \subseteq Buffers
        /\ frame' \in [index : Nat, error : BOOLEAN]
        /\ valid' \in Nat /\ saved' \in 0 .. valid'
    BY DEF Types
  <1>1. Types'
    BY <1>a, <1>b, <1>c, <1>d, <1>e DEF Types
  <1>2. Progress'
    BY DEF Progress, Types, LocalType
  <1>3. Agreement'
    BY DEF Agreement, Types, DeviceType, DriverType, Closed, Idle, Progress
  <1>4. Mapped'
    BY DEF Mapped, Agreement, Types, DeviceType, LocalType, Closed, Progress
  <1>5. Owned'
    <2>1. frame.index \in Buffers /\ Out = {frame.index}
      BY DEF Owned
    <2>2. \/ driver' = driver /\ pc' = "streamoff" /\ local' = [local EXCEPT !.succeeded = FALSE]
          \/ /\ driver' = [driver EXCEPT !.owner[frame.index] = "driver"]
             /\ device' = [device EXCEPT !.buffers_queued = TRUE]
             /\ pc' \in {"poll", "streamoff"}
      BY DEF Progress
    <2>3. CASE driver' = driver /\ pc' = "streamoff" /\ local' = [local EXCEPT !.succeeded = FALSE]
      <3>1. Out' = Out /\ ~local'.succeeded
        BY <2>3 DEF Out, Types, LocalType
      <3> QED
        BY <2>1, <2>3, <3>1 DEF Owned
    <2>4. CASE /\ driver' = [driver EXCEPT !.owner[frame.index] = "driver"]
               /\ device' = [device EXCEPT !.buffers_queued = TRUE]
               /\ pc' \in {"poll", "streamoff"}
      <3>1. \A c \in Buffers :
               driver'.owner[c] = IF c = frame.index THEN "driver" ELSE driver.owner[c]
        BY <2>4 DEF Types, DriverType
      <3>2. Out' = {} /\ device'.buffers_queued
        BY <2>1, <2>4, <3>1 DEF Out, Types, DeviceType
      <3> QED
        BY <2>4, <3>2 DEF Owned
    <2> QED
      BY <2>2, <2>3, <2>4
  <1>6. Ended'
    BY DEF Ended, Progress, Agreement, Mapped, Types, LocalType, DeviceType, Closed
  <1>7. Limits'
    <2>1. pc' = "poll" => counts'.errors < MaxErrors
      <3>1. CASE frame.error /\ pc' = "poll"
        <4>1. counts' = counts /\ ~(counts.errors >= MaxErrors)
          BY <3>1 DEF Progress
        <4> QED
          BY <4>1, CaptureAssumption DEF Types, CountsType, CaptureAssumption
      <3>2. CASE ~frame.error /\ pc' = "poll"
        <4>1. counts'.errors = 0
          BY <3>2 DEF Types, CountsType, Progress
        <4> QED
          BY <4>1, CaptureAssumption DEF CaptureAssumption
      <3> QED
        BY <3>1, <3>2
    <2>2. pc' \in {"poll", "streamoff"}
      BY DEF Progress
    <2> QED
      BY <2>1, <2>2 DEF Limits
  <1> QED
    BY <1>1, <1>2, <1>3, <1>4, <1>5, <1>6, <1>7

\* StopStreaming keeps DeviceInv: STREAMOFF takes every buffer back, or leaves the stream to
\* close().
LEMMA StopStreamingStep ==
  ASSUME Types, Progress, Agreement, Mapped, Owned, Ended, Limits, StopStreaming
  PROVE  Types' /\ Progress' /\ Agreement' /\ Mapped' /\ Owned' /\ Ended' /\ Limits'
  <1> USE DEF StopStreaming, Goto, MayFail, options, Labels, Opening, Preparing, Looping,
              Releasing, Closing
  <1>a. device' \in DeviceType
    BY DEF Types, DeviceType, Closed
  <1>b. driver' \in DriverType
    BY IdleFacts DEF Types, DriverType
  <1>c. local' \in LocalType
    BY DEF Types, LocalType, DeviceType
  <1>d. counts' \in CountsType
    BY DEF Types, CountsType
  <1>e. /\ pc' \in Labels /\ mappings' \subseteq Buffers /\ pages' \subseteq Buffers
        /\ frame' \in [index : Nat, error : BOOLEAN]
        /\ valid' \in Nat /\ saved' \in 0 .. valid'
    BY DEF Types
  <1>1. Types'
    BY <1>a, <1>b, <1>c, <1>d, <1>e DEF Types
  <1>2. Progress'
    BY DEF Progress, Types, LocalType
  <1>3. Agreement'
    <2>1. device.fd /\ device.granted_buffer_count = driver.allocated /\ pc' = "release"
      BY DEF Agreement
    <2>2. CASE /\ driver' = [driver EXCEPT !.on = FALSE, !.owner = Idle.owner]
               /\ device' = [device EXCEPT !.streaming = FALSE, !.buffers_queued = FALSE]
      BY <2>1, <2>2 DEF Agreement, Types, DeviceType, DriverType
    <2>3. CASE UNCHANGED <<driver, device>>
      BY <2>1, <2>3 DEF Agreement
    <2> QED
      BY <2>2, <2>3
  <1>4. Mapped'
    BY DEF Mapped, Agreement, Types, DeviceType, LocalType, Closed, Progress
  <1>5. Owned'
    <2>1. pc' = "release"
      OBVIOUS
    <2>2. CASE driver' = [driver EXCEPT !.on = FALSE, !.owner = Idle.owner]
      <3>1. \A b \in Buffers : driver'.owner[b] = "none"
        BY <2>2, IdleFacts DEF Types, DriverType
      <3>2. Out' = {}
        BY <3>1 DEF Out
      <3> QED
        BY <2>1, <3>2 DEF Owned
    <2>3. CASE driver' = driver
      <3>1. Out' = Out
        BY <2>3 DEF Out
      <3> QED
        BY <2>1, <3>1 DEF Owned
    <2> QED
      BY <2>2, <2>3
  <1>6. Ended'
    BY DEF Ended, Progress, Agreement, Mapped, Types, LocalType, DeviceType, Closed
  <1>7. Limits'
    BY DEF Limits, Types, CountsType
  <1> QED
    BY <1>1, <1>2, <1>3, <1>4, <1>5, <1>6, <1>7

\* ReleaseBegin keeps DeviceInv: a stream that did not stop is stopped by closing the device.
LEMMA ReleaseBeginStep ==
  ASSUME Types, Progress, Agreement, Mapped, Owned, Ended, Limits, ReleaseBegin
  PROVE  Types' /\ Progress' /\ Agreement' /\ Mapped' /\ Owned' /\ Ended' /\ Limits'
  <1> USE DEF ReleaseBegin, StillStreaming, Goto, MayFail, options, Labels, Opening,
              Preparing, Looping, Releasing, Closing
  <1>a. device' \in DeviceType
    BY ClosedFacts DEF Types, DeviceType
  <1>b. driver' \in DriverType
    BY IdleFacts DEF Types, DriverType
  <1>c. local' \in LocalType
    BY DEF Types, LocalType, DeviceType
  <1>d. counts' \in CountsType
    BY DEF Types, CountsType
  <1>e. /\ pc' \in Labels /\ mappings' \subseteq Buffers /\ pages' \subseteq Buffers
        /\ frame' \in [index : Nat, error : BOOLEAN]
        /\ valid' \in Nat /\ saved' \in 0 .. valid'
    BY DEF Types
  <1>1. Types'
    BY <1>a, <1>b, <1>c, <1>d, <1>e DEF Types
  <1>2. Progress'
    BY DEF Progress, Types, LocalType
  <1>3. Agreement'
    <2>1. pc' = "unmap"
      OBVIOUS
    <2>2. CASE device.streaming
      BY <2>1, <2>2, IdleFacts, ClosedFacts DEF Agreement
    <2>3. CASE ~device.streaming
      BY <2>1, <2>3 DEF Agreement
    <2> QED
      BY <2>2, <2>3
  <1>4. Mapped'
    <2>1. pc' = "unmap" /\ UNCHANGED <<mappings, pages>>
      OBVIOUS
    <2>2. local'.can_release = device'.fd /\ UNCHANGED <<local.caller, local.succeeded>>
      BY ClosedFacts DEF Types, LocalType, DeviceType
    <2>3. CASE device' = Closed
      BY <2>1, <2>2, <2>3, ClosedFacts DEF Mapped
    <2>4. CASE device' = device
      BY <2>1, <2>2, <2>4 DEF Mapped
    <2> QED
      BY <2>3, <2>4
  <1>5. Owned'
    <2>1. pc' = "unmap"
      OBVIOUS
    <2>2. CASE driver' = Idle
      <3>1. Out' = {}
        BY <2>2, IdleFacts DEF Out
      <3> QED
        BY <2>1, <3>1 DEF Owned
    <2>3. CASE driver' = driver
      <3>1. Out' = Out
        BY <2>3 DEF Out
      <3> QED
        BY <2>1, <3>1 DEF Owned
    <2> QED
      BY <2>2, <2>3
  <1>6. Ended'
    <2>1. pc' = "unmap" /\ UNCHANGED <<pages, exit>>
      OBVIOUS
    <2>2. local'.caller = local.caller
      BY DEF Types, LocalType
    <2>3. device'.fd => device.fd
      BY ClosedFacts
    <2> QED
      BY <2>1, <2>2, <2>3 DEF Ended
  <1>7. Limits'
    BY DEF Limits, Types, CountsType
  <1> QED
    BY <1>1, <1>2, <1>3, <1>4, <1>5, <1>6, <1>7

\* Unmap keeps DeviceInv: the mappings go, and those that stay are remembered in clean.
LEMMA UnmapStep ==
  ASSUME Types, Progress, Agreement, Mapped, Owned, Ended, Limits, Unmap
  PROVE  Types' /\ Progress' /\ Agreement' /\ Mapped' /\ Owned' /\ Ended' /\ Limits'
  <1> USE DEF Unmap, Goto, MayFail, options, Labels, Opening, Preparing, Looping, Releasing,
              Closing
  <1>a. device' \in DeviceType
    BY DEF Types, DeviceType, Closed
  <1>b. driver' \in DriverType
    BY DEF Types, DriverType, Idle
  <1>c. local' \in LocalType
    BY DEF Types, LocalType, DeviceType
  <1>d. counts' \in CountsType
    BY DEF Types, CountsType
  <1>e. /\ pc' \in Labels /\ mappings' \subseteq Buffers /\ pages' \subseteq Buffers
        /\ frame' \in [index : Nat, error : BOOLEAN]
        /\ valid' \in Nat /\ saved' \in 0 .. valid'
    BY DEF Types
  <1>1. Types'
    BY <1>a, <1>b, <1>c, <1>d, <1>e DEF Types
  <1>2. Progress'
    BY DEF Progress, Types, LocalType
  <1>3. Agreement'
    <2>1. pc' \in {"released", "reqbufs0", "abandon"} /\ UNCHANGED <<driver, device>>
      OBVIOUS
    <2>2. pc' # "released" => device.fd
      BY DEF Mapped
    <2> QED
      BY <2>1, <2>2 DEF Agreement
  <1>4. Mapped'
    BY DEF Mapped, Agreement, Types, DeviceType, LocalType, Closed, Progress
  <1>5. Owned'
    BY DEF Owned, Out, Agreement, Types, DeviceType, DriverType, Progress, Idle
  <1>6. Ended'
    BY DEF Ended, Progress, Agreement, Mapped, Types, LocalType, DeviceType, Closed
  <1>7. Limits'
    BY DEF Limits, Types, CountsType
  <1> QED
    BY <1>1, <1>2, <1>3, <1>4, <1>5, <1>6, <1>7

\* Abandon keeps DeviceInv: with a mapping left, the device is closed instead of REQBUFS(0).
LEMMA AbandonStep ==
  ASSUME Types, Progress, Agreement, Mapped, Owned, Ended, Limits, Abandon
  PROVE  Types' /\ Progress' /\ Agreement' /\ Mapped' /\ Owned' /\ Ended' /\ Limits'
  <1> USE DEF Abandon, Goto, options, Labels, Opening, Preparing, Looping, Releasing,
              Closing
  <1>a. device' \in DeviceType
    BY DEF Types, DeviceType, Closed
  <1>b. driver' \in DriverType
    BY DEF Types, DriverType, Idle
  <1>c. local' \in LocalType
    BY DEF Types, LocalType, DeviceType
  <1>d. counts' \in CountsType
    BY DEF Types, CountsType
  <1>e. /\ pc' \in Labels /\ mappings' \subseteq Buffers /\ pages' \subseteq Buffers
        /\ frame' \in [index : Nat, error : BOOLEAN]
        /\ valid' \in Nat /\ saved' \in 0 .. valid'
    BY DEF Types
  <1>1. Types'
    BY <1>a, <1>b, <1>c, <1>d, <1>e DEF Types
  <1>2. Progress'
    BY DEF Progress, Types, LocalType
  <1>3. Agreement'
    BY DEF Agreement, Types, DeviceType, DriverType, Closed, Idle, Progress
  <1>4. Mapped'
    BY DEF Mapped, Agreement, Types, DeviceType, LocalType, Closed, Progress
  <1>5. Owned'
    BY DEF Owned, Out, Agreement, Types, DeviceType, DriverType, Progress, Idle
  <1>6. Ended'
    BY DEF Ended, Progress, Agreement, Mapped, Types, LocalType, DeviceType, Closed
  <1>7. Limits'
    BY DEF Limits, Types, CountsType
  <1> QED
    BY <1>1, <1>2, <1>3, <1>4, <1>5, <1>6, <1>7

\* ReleaseDriverBuffers keeps DeviceInv: REQBUFS(0) gives the pool back, or close() will.
LEMMA ReleaseDriverBuffersStep ==
  ASSUME Types, Progress, Agreement, Mapped, Owned, Ended, Limits, ReleaseDriverBuffers
  PROVE  Types' /\ Progress' /\ Agreement' /\ Mapped' /\ Owned' /\ Ended' /\ Limits'
  <1> USE DEF ReleaseDriverBuffers, Goto, MayFail, options, Labels, Opening, Preparing,
              Looping, Releasing, Closing
  <1>a. device' \in DeviceType
    BY ClosedFacts DEF Types, DeviceType
  <1>b. driver' \in DriverType
    BY IdleFacts DEF Types, DriverType
  <1>c. local' \in LocalType
    BY DEF Types, LocalType, DeviceType
  <1>d. counts' \in CountsType
    BY DEF Types, CountsType
  <1>e. /\ pc' \in Labels /\ mappings' \subseteq Buffers /\ pages' \subseteq Buffers
        /\ frame' \in [index : Nat, error : BOOLEAN]
        /\ valid' \in Nat /\ saved' \in 0 .. valid'
    BY DEF Types
  <1>1. Types'
    BY <1>a, <1>b, <1>c, <1>d, <1>e DEF Types
  <1>2. Progress'
    BY DEF Progress, Types, LocalType
  <1>3. Agreement'
    <2>1. device.fd /\ ~driver.on /\ pc' = "released" /\ (device.streaming = driver.on)
      BY DEF Agreement
    <2>2. CASE /\ driver' = [driver EXCEPT !.allocated = 0, !.owner = Idle.owner]
               /\ device' = [Closed EXCEPT !.fd = device.fd]
      <3>1. /\ device'.fd /\ device'.granted_buffer_count = 0 /\ device'.streaming = FALSE
            /\ driver'.allocated = 0 /\ driver'.on = FALSE
        BY <2>1, <2>2, ClosedFacts DEF Types, DriverType, DeviceType
      <3> QED
        BY <2>1, <3>1 DEF Agreement
    <2>3. CASE UNCHANGED <<driver, device>>
      BY <2>1, <2>3 DEF Agreement
    <2> QED
      BY <2>2, <2>3
  <1>4. Mapped'
    BY DEF Mapped, Agreement, Types, DeviceType, LocalType, Closed, Progress
  <1>5. Owned'
    <2>1. pc' = "released"
      OBVIOUS
    <2>2. CASE driver' = [driver EXCEPT !.allocated = 0, !.owner = Idle.owner]
      <3>1. \A b \in Buffers : driver'.owner[b] = "none"
        BY <2>2, IdleFacts DEF Types, DriverType
      <3>2. Out' = {}
        BY <3>1 DEF Out
      <3> QED
        BY <2>1, <3>2 DEF Owned
    <2>3. CASE driver' = driver
      <3>1. Out' = Out
        BY <2>3 DEF Out
      <3> QED
        BY <2>1, <3>1 DEF Owned
    <2> QED
      BY <2>2, <2>3
  <1>6. Ended'
    BY DEF Ended, Progress, Agreement, Mapped, Types, LocalType, DeviceType, Closed
  <1>7. Limits'
    BY DEF Limits, Types, CountsType
  <1> QED
    BY <1>1, <1>2, <1>3, <1>4, <1>5, <1>6, <1>7

\* Released keeps DeviceInv: release_buffers() answers its caller.
LEMMA ReleasedStep ==
  ASSUME Types, Progress, Agreement, Mapped, Owned, Ended, Limits, Released
  PROVE  Types' /\ Progress' /\ Agreement' /\ Mapped' /\ Owned' /\ Ended' /\ Limits'
  <1> USE DEF Released, Goto, options, Labels, Opening, Preparing, Looping, Releasing,
              Closing
  <1>a. device' \in DeviceType
    BY DEF Types, DeviceType, Closed
  <1>b. driver' \in DriverType
    BY DEF Types, DriverType, Idle
  <1>c. local' \in LocalType
    BY DEF Types, LocalType, DeviceType
  <1>d. counts' \in CountsType
    BY DEF Types, CountsType
  <1>e. /\ pc' \in Labels /\ mappings' \subseteq Buffers /\ pages' \subseteq Buffers
        /\ frame' \in [index : Nat, error : BOOLEAN]
        /\ valid' \in Nat /\ saved' \in 0 .. valid'
    BY DEF Types
  <1>1. Types'
    BY <1>a, <1>b, <1>c, <1>d, <1>e DEF Types
  <1>2. Progress'
    BY DEF Progress, Types, LocalType
  <1>3. Agreement'
    BY DEF Agreement, Types, DeviceType, DriverType, Closed, Idle, Progress
  <1>4. Mapped'
    BY DEF Mapped, Agreement, Types, DeviceType, LocalType, Closed, Progress
  <1>5. Owned'
    BY DEF Owned, Out, Agreement, Types, DeviceType, DriverType, Progress, Idle
  <1>6. Ended'
    BY DEF Ended, Progress, Agreement, Mapped, Types, LocalType, DeviceType, Closed
  <1>7. Limits'
    BY DEF Limits, Types, CountsType
  <1> QED
    BY <1>1, <1>2, <1>3, <1>4, <1>5, <1>6, <1>7

\* Close keeps DeviceInv: close() releases what is left before the descriptor.
LEMMA CloseStep ==
  ASSUME Types, Progress, Agreement, Mapped, Owned, Ended, Limits, Close
  PROVE  Types' /\ Progress' /\ Agreement' /\ Mapped' /\ Owned' /\ Ended' /\ Limits'
  <1> USE DEF Close, HasResources, Goto, options, Labels, Opening, Preparing, Looping,
              Releasing, Closing
  <1>a. device' \in DeviceType
    BY DEF Types, DeviceType, Closed
  <1>b. driver' \in DriverType
    BY DEF Types, DriverType, Idle
  <1>c. local' \in LocalType
    BY DEF Types, LocalType, DeviceType
  <1>d. counts' \in CountsType
    BY DEF Types, CountsType
  <1>e. /\ pc' \in Labels /\ mappings' \subseteq Buffers /\ pages' \subseteq Buffers
        /\ frame' \in [index : Nat, error : BOOLEAN]
        /\ valid' \in Nat /\ saved' \in 0 .. valid'
    BY DEF Types
  <1>1. Types'
    BY <1>a, <1>b, <1>c, <1>d, <1>e DEF Types
  <1>2. Progress'
    BY DEF Progress, Types, LocalType
  <1>3. Agreement'
    BY DEF Agreement, Types, DeviceType, DriverType, Closed, Idle, Progress
  <1>4. Mapped'
    BY DEF Mapped, Agreement, Types, DeviceType, LocalType, Closed, Progress
  <1>5. Owned'
    BY DEF Owned, Out, Agreement, Types, DeviceType, DriverType, Progress, Idle
  <1>6. Ended'
    BY DEF Ended, Progress, Agreement, Mapped, Types, LocalType, DeviceType, Closed
  <1>7. Limits'
    BY DEF Limits, Types, CountsType
  <1> QED
    BY <1>1, <1>2, <1>3, <1>4, <1>5, <1>6, <1>7

\* CloseDescriptor keeps DeviceInv: the descriptor goes, and main() has its verdict.
LEMMA CloseDescriptorStep ==
  ASSUME Types, Progress, Agreement, Mapped, Owned, Ended, Limits, CloseDescriptor
  PROVE  Types' /\ Progress' /\ Agreement' /\ Mapped' /\ Owned' /\ Ended' /\ Limits'
  <1> USE DEF CloseDescriptor, Goto, MayFail, options, Labels, Opening, Preparing, Looping,
              Releasing, Closing
  <1>a. device' \in DeviceType
    BY DEF Types, DeviceType, Closed
  <1>b. driver' \in DriverType
    BY DEF Types, DriverType, Idle
  <1>c. local' \in LocalType
    BY DEF Types, LocalType, DeviceType
  <1>d. counts' \in CountsType
    BY DEF Types, CountsType
  <1>e. /\ pc' \in Labels /\ mappings' \subseteq Buffers /\ pages' \subseteq Buffers
        /\ frame' \in [index : Nat, error : BOOLEAN]
        /\ valid' \in Nat /\ saved' \in 0 .. valid'
    BY DEF Types
  <1>1. Types'
    BY <1>a, <1>b, <1>c, <1>d, <1>e DEF Types
  <1>2. Progress'
    BY DEF Progress, Types, LocalType
  <1>3. Agreement'
    BY DEF Agreement, Types, DeviceType, DriverType, Closed, Idle, Progress
  <1>4. Mapped'
    <2>1. mappings = {} /\ UNCHANGED <<mappings, pages>> /\ pc' \in {"exited", "close"}
      BY DEF Mapped
    <2>2. /\ device'.driver_buffers_allocated = device.driver_buffers_allocated
          /\ local'.succeeded = local.succeeded
      BY DEF Types, DeviceType, LocalType
    <2> QED
      BY <2>1, <2>2 DEF Mapped
  <1>5. Owned'
    BY DEF Owned, Out, Agreement, Types, DeviceType, DriverType, Progress, Idle
  <1>6. Ended'
    BY DEF Ended, Progress, Agreement, Mapped, Types, LocalType, DeviceType, Closed
  <1>7. Limits'
    BY DEF Limits, Types, CountsType
  <1> QED
    BY <1>1, <1>2, <1>3, <1>4, <1>5, <1>6, <1>7

\* Open keeps what the program knows of its frames.
LEMMA OpenCounts ==
  ASSUME Types, Progress, Agreement, Mapped, Ended, AskedFor, Counted, Open
  PROVE  AskedFor' /\ Counted'
  <1> USE DEF Open, Goto, GiveUp, MayFail, options, Labels, Opening, Preparing, Looping,
              Releasing, Closing
  <1>1. AskedFor'
    BY DEF AskedFor, Progress, Types, LocalType
  <1>2. Counted'
    BY DEF Counted, AskedFor, Progress, Types, LocalType, CountsType, InHand, WrittenWith, Ended
  <1> QED
    BY <1>1, <1>2

\* Query keeps what the program knows of its frames.
LEMMA QueryCounts ==
  ASSUME Types, Progress, Agreement, Mapped, Ended, AskedFor, Counted, Query
  PROVE  AskedFor' /\ Counted'
  <1> USE DEF Query, Goto, GiveUp, MayFail, options, Labels, Opening, Preparing, Looping,
              Releasing, Closing
  <1>1. AskedFor'
    BY DEF AskedFor, Progress, Types, LocalType
  <1>2. Counted'
    BY DEF Counted, AskedFor, Progress, Types, LocalType, CountsType, InHand, WrittenWith, Ended
  <1> QED
    BY <1>1, <1>2

\* Enumerate keeps what the program knows of its frames.
LEMMA EnumerateCounts ==
  ASSUME Types, Progress, Agreement, Mapped, Ended, AskedFor, Counted, Enumerate
  PROVE  AskedFor' /\ Counted'
  <1> USE DEF Enumerate, Goto, GiveUp, MayFail, options, Labels, Opening, Preparing,
              Looping, Releasing, Closing
  <1>1. AskedFor'
    BY DEF AskedFor, Progress, Types, LocalType
  <1>2. Counted'
    BY DEF Counted, AskedFor, Progress, Types, LocalType, CountsType, InHand, WrittenWith, Ended
  <1> QED
    BY <1>1, <1>2

\* Negotiate keeps what the program knows of its frames.
LEMMA NegotiateCounts ==
  ASSUME Types, Progress, Agreement, Mapped, Ended, AskedFor, Counted, Negotiate
  PROVE  AskedFor' /\ Counted'
  <1> USE DEF Negotiate, Goto, GiveUp, MayFail, options, Labels, Opening, Preparing,
              Looping, Releasing, Closing
  <1>1. AskedFor'
    BY DEF AskedFor, Progress, Types, LocalType
  <1>2. Counted'
    BY DEF Counted, AskedFor, Progress, Types, LocalType, CountsType, InHand, WrittenWith, Ended
  <1> QED
    BY <1>1, <1>2

\* RequestBuffers keeps what the program knows of its frames.
LEMMA RequestBuffersCounts ==
  ASSUME Types, Progress, Agreement, Mapped, Ended, AskedFor, Counted, RequestBuffers
  PROVE  AskedFor' /\ Counted'
  <1> USE DEF RequestBuffers, Goto, GiveUp, MayFail, options, Labels, Opening, Preparing,
              Looping, Releasing, Closing
  <1>1. AskedFor'
    BY DEF AskedFor, Progress, Types, LocalType
  <1>2. Counted'
    BY DEF Counted, AskedFor, Progress, Types, LocalType, CountsType, InHand, WrittenWith, Ended
  <1> QED
    BY <1>1, <1>2

\* MapBuffer keeps what the program knows of its frames.
LEMMA MapBufferCounts ==
  ASSUME Types, Progress, Agreement, Mapped, Ended, AskedFor, Counted, MapBuffer
  PROVE  AskedFor' /\ Counted'
  <1> USE DEF MapBuffer, AllMapped, Goto, GiveUp, MayFail, options, Labels, Opening,
              Preparing, Looping, Releasing, Closing
  <1>1. AskedFor'
    BY DEF AskedFor, Progress, Types, LocalType
  <1>2. Counted'
    BY DEF Counted, AskedFor, Progress, Types, LocalType, CountsType, InHand, WrittenWith, Ended
  <1> QED
    BY <1>1, <1>2

\* QueueBuffer keeps what the program knows of its frames.
LEMMA QueueBufferCounts ==
  ASSUME Types, Progress, Agreement, Mapped, Ended, AskedFor, Counted, QueueBuffer
  PROVE  AskedFor' /\ Counted'
  <1> USE DEF QueueBuffer, Goto, GiveUp, MayFail, options, Labels, Opening, Preparing,
              Looping, Releasing, Closing
  <1>1. AskedFor'
    BY DEF AskedFor, Progress, Types, LocalType
  <1>2. Counted'
    BY DEF Counted, AskedFor, Progress, Types, LocalType, CountsType, InHand, WrittenWith, Ended
  <1> QED
    BY <1>1, <1>2

\* StartStreaming keeps what the program knows of its frames.
LEMMA StartStreamingCounts ==
  ASSUME Types, Progress, Agreement, Mapped, Ended, AskedFor, Counted, StartStreaming
  PROVE  AskedFor' /\ Counted'
  <1> USE DEF StartStreaming, Goto, GiveUp, MayFail, options, Labels, Opening, Preparing,
              Looping, Releasing, Closing
  <1>1. AskedFor'
    BY DEF AskedFor, Progress, Types, LocalType
  <1>2. Counted'
    BY DEF Counted, AskedFor, Progress, Types, LocalType, CountsType, InHand, WrittenWith, Ended
  <1> QED
    BY <1>1, <1>2

\* CaptureBegin keeps what the program knows of its frames.
LEMMA CaptureBeginCounts ==
  ASSUME Types, Progress, Agreement, Mapped, Ended, AskedFor, Counted, CaptureBegin
  PROVE  AskedFor' /\ Counted'
  <1> USE DEF CaptureBegin, Goto, GiveUp, MayFail, options, Labels, Opening, Preparing, Looping,
              Releasing, Closing
  <1>1. AskedFor'
    BY DEF AskedFor, Progress, Types, LocalType
  <1>2. Counted'
    BY DEF Counted, AskedFor, Progress, Types, LocalType, CountsType, InHand, WrittenWith, Ended
  <1> QED
    BY <1>1, <1>2

\* Poll keeps what the program knows of its frames.
LEMMA PollCounts ==
  ASSUME Types, Progress, Agreement, Mapped, Ended, AskedFor, Counted, Poll
  PROVE  AskedFor' /\ Counted'
  <1> USE DEF Poll, Goto, GiveUp, MayFail, options, Labels, Opening, Preparing, Looping,
              Releasing, Closing
  <1>1. AskedFor'
    BY DEF AskedFor, Progress, Types, LocalType
  <1>2. Counted'
    BY DEF Counted, AskedFor, Progress, Types, LocalType, CountsType, InHand, WrittenWith, Ended
  <1> QED
    BY <1>1, <1>2

\* DequeueAgain keeps what the program knows of its frames.
LEMMA DequeueAgainCounts ==
  ASSUME Types, Progress, Agreement, Mapped, Ended, AskedFor, Counted, DequeueAgain
  PROVE  AskedFor' /\ Counted'
  <1> USE DEF DequeueAgain, TooManyRetries, Goto, GiveUp, MayFail, options, Labels, Opening,
              Preparing, Looping, Releasing, Closing
  <1>1. AskedFor'
    BY DEF AskedFor, Progress, Types, LocalType
  <1>2. Counted'
    BY DEF Counted, AskedFor, Progress, Types, LocalType, CountsType, InHand, WrittenWith, Ended
  <1> QED
    BY <1>1, <1>2

\* DequeueFails keeps what the program knows of its frames.
LEMMA DequeueFailsCounts ==
  ASSUME Types, Progress, Agreement, Mapped, Ended, AskedFor, Counted, DequeueFails
  PROVE  AskedFor' /\ Counted'
  <1> USE DEF DequeueFails, Goto, GiveUp, MayFail, options, Labels, Opening, Preparing,
              Looping, Releasing, Closing
  <1>1. AskedFor'
    BY DEF AskedFor, Progress, Types, LocalType
  <1>2. Counted'
    BY DEF Counted, AskedFor, Progress, Types, LocalType, CountsType, InHand, WrittenWith, Ended
  <1> QED
    BY <1>1, <1>2

\* Dequeue keeps what the program knows of its frames.
LEMMA DequeueCounts ==
  ASSUME Types, Progress, Agreement, Mapped, Ended, AskedFor, Counted, Dequeue
  PROVE  AskedFor' /\ Counted'
  <1> USE DEF Dequeue, CountErrors, Queued, Goto, GiveUp, MayFail, options, Labels, Opening,
              Preparing, Looping, Releasing, Closing
  <1>1. AskedFor'
    BY DEF AskedFor, Progress, Types, LocalType
  <1>2. Counted'
    BY DEF Counted, AskedFor, Progress, Types, LocalType, CountsType, InHand, WrittenWith, Ended
  <1> QED
    BY <1>1, <1>2

\* Save keeps what the program knows of its frames.
LEMMA SaveCounts ==
  ASSUME Types, Progress, Agreement, Mapped, Ended, AskedFor, Counted, Save
  PROVE  AskedFor' /\ Counted'
  <1> USE DEF Save, IsFinal, IsSkipped, Goto, MayFail, options, Labels, Opening, Preparing,
              Looping, Releasing, Closing
  <1>1. AskedFor'
    BY DEF AskedFor, Progress, Types, LocalType
  <1>2. Counted'
    BY DEF Counted, AskedFor, Progress, Types, LocalType, CountsType, InHand, WrittenWith, Ended
  <1> QED
    BY <1>1, <1>2

\* Requeue keeps what the program knows of its frames.
LEMMA RequeueCounts ==
  ASSUME Types, Progress, Agreement, Mapped, Ended, AskedFor, Counted, Requeue
  PROVE  AskedFor' /\ Counted'
  <1> USE DEF Requeue, CountFrame, IsSkipped, TooManyErrors, Enough, Goto, GiveUp, MayFail,
              options, Labels, Opening, Preparing, Looping, Releasing, Closing
  <1>1. AskedFor'
    BY DEF AskedFor, Progress, Types, LocalType
  <1>2. Counted'
    <2> SUFFICES ASSUME asked.what = "capture" PROVE Counted'
      BY DEF Counted
    <2>1. /\ counts.skipped \in Nat /\ counts.captured \in Nat /\ valid \in Nat
          /\ asked.skip \in Nat /\ asked.count \in Nat /\ asked.count # 0
          /\ config.skip_frames = asked.skip /\ config.frame_count = asked.count
      BY DEF Types, CountsType, AskedFor
    <2>2. /\ counts.skipped <= asked.skip /\ counts.captured < asked.count
          /\ counts.captured > 0 => counts.skipped = asked.skip
          /\ local.succeeded =>
                valid = counts.skipped + counts.captured + (IF frame.error THEN 0 ELSE 1)
          /\ local.succeeded =>
                WrittenWith(IF frame.error \/ counts.skipped < asked.skip THEN 0
                            ELSE counts.captured + 1)
      BY DEF Counted, InHand
    <2>3. exit = "none" /\ UNCHANGED <<asked, valid, saved, exit>>
      BY DEF AskedFor, Progress
    <2>4. CASE counts' = counts /\ pc' = "streamoff" /\ local' = [local EXCEPT !.succeeded = FALSE]
      <3>1. ~local'.succeeded
        BY <2>4 DEF Types, LocalType
      <3> QED
        BY <2>1, <2>2, <2>3, <2>4, <3>1 DEF Counted
    <2>5. CASE frame.error /\ counts' = counts /\ pc' = "poll" /\ local.succeeded
      BY <2>1, <2>2, <2>3, <2>5 DEF Counted, WrittenWith, InHand
    <2>6. CASE /\ ~frame.error /\ counts.skipped < asked.skip /\ local.succeeded
               /\ counts' = [counts EXCEPT !.errors = 0, !.skipped = counts.skipped + 1]
               /\ pc' = "poll"
      <3>1. counts'.skipped = counts.skipped + 1 /\ counts'.captured = counts.captured
        BY <2>6 DEF Types, CountsType
      <3> QED
        BY <2>1, <2>2, <2>3, <2>6, <3>1 DEF Counted, WrittenWith, InHand
    <2>7. CASE /\ ~frame.error /\ ~(counts.skipped < asked.skip) /\ local.succeeded
               /\ counts' = [counts EXCEPT !.errors = 0, !.captured = counts.captured + 1]
               /\ local' = local
               /\ pc' = IF counts.captured + 1 >= asked.count THEN "streamoff" ELSE "poll"
      <3>1. counts'.skipped = counts.skipped /\ counts'.captured = counts.captured + 1
        BY <2>7 DEF Types, CountsType
      <3> QED
        BY <2>1, <2>2, <2>3, <2>7, <3>1 DEF Counted, WrittenWith, InHand
    <2>8. local.stream_started
      BY DEF Progress
    <2>9. ~frame.error /\ counts.skipped < asked.skip =>
             ~(counts.captured >= asked.count)
      BY <2>1, <2>2
    <2> QED
      BY <2>1, <2>4, <2>5, <2>6, <2>7, <2>8, <2>9 DEF Types, CountsType
  <1> QED
    BY <1>1, <1>2

\* StopStreaming keeps what the program knows of its frames.
LEMMA StopStreamingCounts ==
  ASSUME Types, Progress, Agreement, Mapped, Ended, AskedFor, Counted, StopStreaming
  PROVE  AskedFor' /\ Counted'
  <1> USE DEF StopStreaming, Goto, MayFail, options, Labels, Opening, Preparing, Looping,
              Releasing, Closing
  <1>1. AskedFor'
    BY DEF AskedFor, Progress, Types, LocalType
  <1>2. Counted'
    BY DEF Counted, AskedFor, Progress, Types, LocalType, CountsType, InHand, WrittenWith, Ended
  <1> QED
    BY <1>1, <1>2

\* ReleaseBegin keeps what the program knows of its frames.
LEMMA ReleaseBeginCounts ==
  ASSUME Types, Progress, Agreement, Mapped, Ended, AskedFor, Counted, ReleaseBegin
  PROVE  AskedFor' /\ Counted'
  <1> USE DEF ReleaseBegin, StillStreaming, Goto, MayFail, options, Labels, Opening,
              Preparing, Looping, Releasing, Closing
  <1>1. AskedFor'
    BY DEF AskedFor, Progress, Types, LocalType
  <1>2. Counted'
    <2>1. /\ UNCHANGED <<counts, valid, saved, frame, exit, asked>>
          /\ pc = "release" /\ pc' = "unmap"
      OBVIOUS
    <2>2. local'.succeeded = local.succeeded
      BY DEF Types, LocalType
    <2> QED
      BY <2>1, <2>2 DEF Counted, InHand, WrittenWith
  <1> QED
    BY <1>1, <1>2

\* Unmap keeps what the program knows of its frames.
LEMMA UnmapCounts ==
  ASSUME Types, Progress, Agreement, Mapped, Ended, AskedFor, Counted, Unmap
  PROVE  AskedFor' /\ Counted'
  <1> USE DEF Unmap, Goto, MayFail, options, Labels, Opening, Preparing, Looping, Releasing,
              Closing
  <1>1. AskedFor'
    BY DEF AskedFor, Progress, Types, LocalType
  <1>2. Counted'
    BY DEF Counted, AskedFor, Progress, Types, LocalType, CountsType, InHand, WrittenWith, Ended
  <1> QED
    BY <1>1, <1>2

\* Abandon keeps what the program knows of its frames.
LEMMA AbandonCounts ==
  ASSUME Types, Progress, Agreement, Mapped, Ended, AskedFor, Counted, Abandon
  PROVE  AskedFor' /\ Counted'
  <1> USE DEF Abandon, Goto, options, Labels, Opening, Preparing, Looping, Releasing,
              Closing
  <1>1. AskedFor'
    BY DEF AskedFor, Progress, Types, LocalType
  <1>2. Counted'
    BY DEF Counted, AskedFor, Progress, Types, LocalType, CountsType, InHand, WrittenWith, Ended
  <1> QED
    BY <1>1, <1>2

\* ReleaseDriverBuffers keeps what the program knows of its frames.
LEMMA ReleaseDriverBuffersCounts ==
  ASSUME Types, Progress, Agreement, Mapped, Ended, AskedFor, Counted, ReleaseDriverBuffers
  PROVE  AskedFor' /\ Counted'
  <1> USE DEF ReleaseDriverBuffers, Goto, MayFail, options, Labels, Opening, Preparing,
              Looping, Releasing, Closing
  <1>1. AskedFor'
    BY DEF AskedFor, Progress, Types, LocalType
  <1>2. Counted'
    BY DEF Counted, AskedFor, Progress, Types, LocalType, CountsType, InHand, WrittenWith, Ended
  <1> QED
    BY <1>1, <1>2

\* Released keeps what the program knows of its frames.
LEMMA ReleasedCounts ==
  ASSUME Types, Progress, Agreement, Mapped, Ended, AskedFor, Counted, Released
  PROVE  AskedFor' /\ Counted'
  <1> USE DEF Released, Goto, options, Labels, Opening, Preparing, Looping, Releasing,
              Closing
  <1>1. AskedFor'
    BY DEF AskedFor, Progress, Types, LocalType
  <1>2. Counted'
    BY DEF Counted, AskedFor, Progress, Types, LocalType, CountsType, InHand, WrittenWith, Ended
  <1> QED
    BY <1>1, <1>2

\* Close keeps what the program knows of its frames.
LEMMA CloseCounts ==
  ASSUME Types, Progress, Agreement, Mapped, Ended, AskedFor, Counted, Close
  PROVE  AskedFor' /\ Counted'
  <1> USE DEF Close, HasResources, Goto, options, Labels, Opening, Preparing, Looping,
              Releasing, Closing
  <1>1. AskedFor'
    BY DEF AskedFor, Progress, Types, LocalType
  <1>2. Counted'
    BY DEF Counted, AskedFor, Progress, Types, LocalType, CountsType, InHand, WrittenWith, Ended
  <1> QED
    BY <1>1, <1>2

\* CloseDescriptor keeps what the program knows of its frames.
LEMMA CloseDescriptorCounts ==
  ASSUME Types, Progress, Agreement, Mapped, Ended, AskedFor, Counted, CloseDescriptor
  PROVE  AskedFor' /\ Counted'
  <1> USE DEF CloseDescriptor, Goto, MayFail, options, Labels, Opening, Preparing, Looping,
              Releasing, Closing
  <1>1. AskedFor'
    BY DEF AskedFor, Progress, Types, LocalType
  <1>2. Counted'
    BY DEF Counted, AskedFor, Progress, Types, LocalType, CountsType, InHand, WrittenWith, Ended
  <1> QED
    BY <1>1, <1>2

\* The device and the driver start idle.
LEMMA DeviceInitially == Init => DeviceInv
<1> SUFFICES ASSUME Init PROVE DeviceInv
  OBVIOUS
<1> USE DEF Labels, Opening, Preparing, Looping, Releasing, Closing
<1>1. /\ pc \in {"open", "exited"} /\ device = Closed /\ driver = Idle
      /\ mappings = {} /\ pages = {} /\ valid = 0 /\ saved = 0
      /\ counts = [skipped |-> 0, captured |-> 0, retries |-> 0, errors |-> 0]
      /\ frame = [index |-> 0, error |-> FALSE]
      /\ local = [succeeded |-> TRUE, stream_started |-> FALSE, attempted |-> FALSE,
                  caller |-> "main", clean |-> TRUE, can_release |-> FALSE]
  BY DEF Init, Main
<1>2. Types
  <2>1. device \in DeviceType
    BY <1>1 DEF DeviceType, Closed
  <2>2. driver \in DriverType
    BY <1>1 DEF DriverType, Idle
  <2>3. local \in LocalType
    BY <1>1 DEF LocalType
  <2>4. counts \in CountsType
    BY <1>1, CaptureAssumption DEF CountsType, CaptureAssumption
  <2> QED
    BY <1>1, <2>1, <2>2, <2>3, <2>4 DEF Types
<1>3. Progress
  BY <1>1 DEF Progress
<1>4. Agreement
  BY <1>1, ClosedFacts, IdleFacts DEF Agreement
<1>5. Mapped
  BY <1>1, ClosedFacts DEF Mapped
<1>6. Owned
  BY <1>1, IdleFacts DEF Owned, Out
<1>7. Ended
  BY <1>1, ClosedFacts DEF Ended
<1>8. Limits
  BY <1>1, CaptureAssumption DEF Limits, CaptureAssumption
<1>9. Pooled
  BY <1>1 DEF Pooled
<1> QED
  BY <1>2, <1>3, <1>4, <1>5, <1>6, <1>7, <1>8, <1>9 DEF DeviceInv

\* The defaults of the options that Wanted(argv) reads.
LEMMA Defaults ==
  /\ CaptureDefaults["--count"] = "10" /\ CaptureDefaults["--skip"] = "0"
  /\ CaptureDefaults["--output"] = ""
  /\ {"--count", "--skip", "--output"} \subseteq CaptureOptions
  BY DEF CaptureDefaults, CaptureOptions

\* The loop over argv, by CaptureCommandLine, hands main() what was asked for.
LEMMA CaptureInitially == Init => CaptureInv
<1> SUFFICES ASSUME Init PROVE CaptureInv
  OBVIOUS
<1> USE DEF Labels, Opening, Preparing, Looping, Releasing, Closing
<1>1. PICK argv \in ArgumentLists : Main(argv)
  BY DEF Init
<1>2. argv \in Seq(STRING)
  BY CaptureAssumption DEF CaptureAssumption
<1> DEFINE loop == CaptureArguments(argv)
           what == CaptureAsks(argv)
<1>3. \/ loop.at = "refused" /\ what = "nonsense"
      \/ loop.at = "help" /\ what = "help"
      \/ /\ loop.at = "option" /\ CapturePairs(argv)
         /\ what = IF "--format" \in loop.seen THEN "capture" ELSE "list"
         /\ loop.seen = Given(argv)
         /\ \A option \in CaptureOptions :
               loop.config[option] = ValueOf(argv, option, CaptureDefaults[option])
  BY <1>2, CaptureCommandLine
<1>4. /\ asked = Wanted(argv) /\ asked.what = what
      /\ config = [has_format |-> "--format" \in loop.seen,
                   frame_count |-> Numbers[loop.config["--count"]],
                   skip_frames |-> Numbers[loop.config["--skip"]],
                   output |-> loop.config["--output"] # ""]
      /\ pc = IF loop.at = "option" THEN "open" ELSE "exited"
      /\ exit = CASE loop.at = "option" -> "none"
                  [] loop.at = "help" -> "success"
                  [] loop.at = "refused" -> "usage"
  BY <1>1 DEF Main, Wanted
<1>5. ASSUME what = "capture"
      PROVE  /\ asked.skip = Numbers[ValueOf(argv, "--skip", "0")]
             /\ asked.count = Numbers[ValueOf(argv, "--count", "10")]
             /\ asked.output \in BOOLEAN /\ (asked.output <=> "--output" \in Given(argv))
  <2> HIDE DEF loop
  <2>1. asked = Wanted(argv)
    BY <1>4
  <2> QED
    BY <1>5, <2>1 DEF Wanted
<1>6. /\ valid = 0 /\ saved = 0
      /\ counts = [skipped |-> 0, captured |-> 0, retries |-> 0, errors |-> 0]
      /\ local = [succeeded |-> TRUE, stream_started |-> FALSE, attempted |-> FALSE,
                  caller |-> "main", clean |-> TRUE, can_release |-> FALSE]
  BY DEF Init
<1>7. ASSUME what = "capture"
      PROVE  /\ config = [has_format |-> TRUE, frame_count |-> asked.count,
                          skip_frames |-> asked.skip, output |-> asked.output]
             /\ asked.count \in Nat \ {0} /\ asked.skip \in Nat /\ asked.output \in BOOLEAN
  <2>1. /\ loop.at = "option" /\ CapturePairs(argv) /\ "--format" \in loop.seen
        /\ \A option \in CaptureOptions :
              loop.config[option] = ValueOf(argv, option, CaptureDefaults[option])
    BY <1>3, <1>7
  <2> DEFINE count == ValueOf(argv, "--count", "10")
             skip == ValueOf(argv, "--skip", "0")
             output == ValueOf(argv, "--output", "")
  <2>2. loop.config["--count"] = count /\ loop.config["--skip"] = skip
        /\ loop.config["--output"] = output
    BY <2>1, Defaults
  <2>3. IF "--count" \in Given(argv) THEN CaptureValue("--count", count) ELSE count = "10"
    BY <1>2, <2>1, Defaults, LastCaptureValue
  <2>4. IF "--skip" \in Given(argv) THEN CaptureValue("--skip", skip) ELSE skip = "0"
    BY <1>2, <2>1, Defaults, LastCaptureValue
  <2>5. IF "--output" \in Given(argv) THEN CaptureValue("--output", output) ELSE output = ""
    BY <1>2, <2>1, Defaults, LastCaptureValue
  <2> HIDE DEF count, skip, output, loop
  <2>6. count \in DOMAIN Numbers /\ Numbers[count] # 0
    BY <2>3, CaptureAssumption DEF CaptureAssumption, CaptureValue
  <2>7. skip \in DOMAIN Numbers
    BY <2>4, CaptureAssumption DEF CaptureAssumption, CaptureValue
  <2>8. output # "" <=> "--output" \in Given(argv)
    BY <2>5 DEF CaptureValue
  <2>9. Numbers[count] \in Nat \ {0} /\ Numbers[skip] \in Nat
    BY <2>6, <2>7, CommandLineAssumption DEF CommandLineAssumption
  <2>10. asked.count = Numbers[count] /\ asked.skip = Numbers[skip]
    BY <1>5, <1>7 DEF count, skip
  <2>11. asked.output \in BOOLEAN /\ asked.output = (output # "")
    BY <1>5, <1>7, <2>8
  <2>12. config = [has_format |-> "--format" \in loop.seen, frame_count |-> Numbers[count],
                   skip_frames |-> Numbers[skip], output |-> output # ""]
    BY <1>4, <2>2
  <2>13. ("--format" \in loop.seen) = TRUE
    BY <2>1
  <2> QED
    BY <2>9, <2>10, <2>11, <2>12, <2>13
<1> HIDE DEF loop, what
<1>8. \/ what = "nonsense" /\ pc = "exited" /\ exit = "usage"
      \/ what = "help" /\ pc = "exited" /\ exit = "success"
      \/ what \in {"capture", "list"} /\ pc = "open" /\ exit = "none"
  BY <1>3, <1>4
<1>9. AskedFor
  BY <1>4, <1>6, <1>7, <1>8 DEF AskedFor
<1>10. Counted
  <2> SUFFICES ASSUME asked.what = "capture" PROVE Counted
    BY DEF Counted
  <2>1. pc = "open" /\ exit = "none" /\ asked.count \in Nat \ {0} /\ asked.skip \in Nat
    BY <1>4, <1>7, <1>8
  <2> QED
    BY <1>6, <2>1 DEF Counted, InHand
<1> QED
  BY <1>9, <1>10 DEF CaptureInv

\* REQBUFS(0) and the last resort are reached only with a pool to release.
LEMMA PooledSteps == DeviceInv /\ [Next]_vars => Pooled'
<1> SUFFICES ASSUME DeviceInv, [Next]_vars, pc' \in {"abandon", "reqbufs0"}
             PROVE  device'.driver_buffers_allocated
  BY DEF Pooled
<1>1. CASE Setup
  BY <1>1
     DEF Setup, Open, Query, Enumerate, Negotiate, RequestBuffers, MapBuffer, QueueBuffer,
         StartStreaming, Goto, GiveUp
<1>2. CASE Capture
  BY <1>2
     DEF Capture, CaptureBegin, Poll, DequeueAgain, DequeueFails, Dequeue, Save, Requeue, CountFrame, Goto,
         GiveUp
<1>3. CASE Unmap
  BY <1>3 DEF Unmap, Goto
<1>4. CASE Teardown /\ ~Unmap
  BY <1>4
     DEF Teardown, StopStreaming, ReleaseBegin, Abandon, ReleaseDriverBuffers, Released, Close,
         CloseDescriptor, Goto
<1>5. CASE UNCHANGED vars
  BY <1>5 DEF DeviceInv, Pooled, vars
<1> QED
  BY <1>1, <1>2, <1>3, <1>4, <1>5 DEF Next, Step, Exited

\* Every step keeps DeviceInv.
LEMMA DeviceSteps == DeviceInv /\ [Next]_vars => DeviceInv'
<1> SUFFICES ASSUME DeviceInv, [Next]_vars PROVE DeviceInv'
  OBVIOUS
<1>1. CASE Open
  BY <1>1, OpenStep, PooledSteps
     DEF DeviceInv
<1>2. CASE Query
  BY <1>2, QueryStep, PooledSteps
     DEF DeviceInv
<1>3. CASE Enumerate
  BY <1>3, EnumerateStep, PooledSteps
     DEF DeviceInv
<1>4. CASE Negotiate
  BY <1>4, NegotiateStep, PooledSteps
     DEF DeviceInv
<1>5. CASE RequestBuffers
  BY <1>5, RequestBuffersStep, PooledSteps
     DEF DeviceInv
<1>6. CASE MapBuffer
  BY <1>6, MapBufferStep, PooledSteps
     DEF DeviceInv
<1>7. CASE QueueBuffer
  BY <1>7, QueueBufferStep, PooledSteps
     DEF DeviceInv
<1>8. CASE StartStreaming
  BY <1>8, StartStreamingStep, PooledSteps
     DEF DeviceInv
<1>24. CASE CaptureBegin
  BY <1>24, CaptureBeginStep, PooledSteps
     DEF DeviceInv
<1>9. CASE Poll
  BY <1>9, PollStep, PooledSteps
     DEF DeviceInv
<1>10. CASE DequeueAgain
  BY <1>10, DequeueAgainStep, PooledSteps
     DEF DeviceInv
<1>11. CASE DequeueFails
  BY <1>11, DequeueFailsStep, PooledSteps
     DEF DeviceInv
<1>12. CASE Dequeue
  BY <1>12, DequeueStep, PooledSteps
     DEF DeviceInv
<1>13. CASE Save
  BY <1>13, SaveStep, PooledSteps
     DEF DeviceInv
<1>14. CASE Requeue
  BY <1>14, RequeueStep, PooledSteps
     DEF DeviceInv
<1>15. CASE StopStreaming
  BY <1>15, StopStreamingStep, PooledSteps
     DEF DeviceInv
<1>16. CASE ReleaseBegin
  BY <1>16, ReleaseBeginStep, PooledSteps
     DEF DeviceInv
<1>17. CASE Unmap
  BY <1>17, UnmapStep, PooledSteps
     DEF DeviceInv
<1>18. CASE Abandon
  BY <1>18, AbandonStep, PooledSteps
     DEF DeviceInv
<1>19. CASE ReleaseDriverBuffers
  BY <1>19, ReleaseDriverBuffersStep, PooledSteps
     DEF DeviceInv
<1>20. CASE Released
  BY <1>20, ReleasedStep, PooledSteps
     DEF DeviceInv
<1>21. CASE Close
  BY <1>21, CloseStep, PooledSteps
     DEF DeviceInv
<1>22. CASE CloseDescriptor
  BY <1>22, CloseDescriptorStep, PooledSteps
     DEF DeviceInv
<1>23. CASE UNCHANGED vars
  BY <1>23, PooledSteps
     DEF DeviceInv, Types, Progress, Agreement, Mapped, Owned, Out, Ended, Limits, vars, options
<1> QED
  BY PooledSteps, <1>1, <1>2, <1>3, <1>4, <1>5, <1>6, <1>7, <1>8, <1>9, <1>10, <1>11, <1>12,
     <1>13, <1>14, <1>15, <1>16, <1>17, <1>18, <1>19, <1>20, <1>21, <1>22, <1>23, <1>24
  DEF Next, Step, Setup, Capture, Teardown, Exited

\* Every step keeps CaptureInv, given DeviceInv.
LEMMA CaptureSteps == DeviceInv /\ CaptureInv /\ [Next]_vars => CaptureInv'
<1> SUFFICES ASSUME DeviceInv, CaptureInv, [Next]_vars PROVE CaptureInv'
  OBVIOUS
<1>1. CASE Open
  BY <1>1, OpenCounts
     DEF DeviceInv, CaptureInv
<1>2. CASE Query
  BY <1>2, QueryCounts
     DEF DeviceInv, CaptureInv
<1>3. CASE Enumerate
  BY <1>3, EnumerateCounts
     DEF DeviceInv, CaptureInv
<1>4. CASE Negotiate
  BY <1>4, NegotiateCounts
     DEF DeviceInv, CaptureInv
<1>5. CASE RequestBuffers
  BY <1>5, RequestBuffersCounts
     DEF DeviceInv, CaptureInv
<1>6. CASE MapBuffer
  BY <1>6, MapBufferCounts
     DEF DeviceInv, CaptureInv
<1>7. CASE QueueBuffer
  BY <1>7, QueueBufferCounts
     DEF DeviceInv, CaptureInv
<1>8. CASE StartStreaming
  BY <1>8, StartStreamingCounts
     DEF DeviceInv, CaptureInv
<1>24. CASE CaptureBegin
  BY <1>24, CaptureBeginCounts
     DEF DeviceInv, CaptureInv
<1>9. CASE Poll
  BY <1>9, PollCounts
     DEF DeviceInv, CaptureInv
<1>10. CASE DequeueAgain
  BY <1>10, DequeueAgainCounts
     DEF DeviceInv, CaptureInv
<1>11. CASE DequeueFails
  BY <1>11, DequeueFailsCounts
     DEF DeviceInv, CaptureInv
<1>12. CASE Dequeue
  BY <1>12, DequeueCounts
     DEF DeviceInv, CaptureInv
<1>13. CASE Save
  BY <1>13, SaveCounts
     DEF DeviceInv, CaptureInv
<1>14. CASE Requeue
  BY <1>14, RequeueCounts
     DEF DeviceInv, CaptureInv
<1>15. CASE StopStreaming
  BY <1>15, StopStreamingCounts
     DEF DeviceInv, CaptureInv
<1>16. CASE ReleaseBegin
  BY <1>16, ReleaseBeginCounts
     DEF DeviceInv, CaptureInv
<1>17. CASE Unmap
  BY <1>17, UnmapCounts
     DEF DeviceInv, CaptureInv
<1>18. CASE Abandon
  BY <1>18, AbandonCounts
     DEF DeviceInv, CaptureInv
<1>19. CASE ReleaseDriverBuffers
  BY <1>19, ReleaseDriverBuffersCounts
     DEF DeviceInv, CaptureInv
<1>20. CASE Released
  BY <1>20, ReleasedCounts
     DEF DeviceInv, CaptureInv
<1>21. CASE Close
  BY <1>21, CloseCounts
     DEF DeviceInv, CaptureInv
<1>22. CASE CloseDescriptor
  BY <1>22, CloseDescriptorCounts
     DEF DeviceInv, CaptureInv
<1>23. CASE UNCHANGED vars
  BY <1>23 DEF CaptureInv, AskedFor, Counted, InHand, WrittenWith, vars, options
<1> QED
  BY <1>1, <1>2, <1>3, <1>4, <1>5, <1>6, <1>7, <1>8, <1>9, <1>10, <1>11, <1>12,
     <1>13, <1>14, <1>15, <1>16, <1>17, <1>18, <1>19, <1>20, <1>21, <1>22, <1>23, <1>24
  DEF Next, Step, Setup, Capture, Teardown, Exited

\* DeviceInv holds in every state the program reaches.
THEOREM DeviceInvariance == Spec => []DeviceInv
  BY DeviceInitially, DeviceSteps, PTL DEF Spec

\* CaptureInv holds in every state the program reaches.
THEOREM CaptureInvariance == Spec => []CaptureInv
<1>1. Spec => []DeviceInv
  BY DeviceInvariance
<1>2. DeviceInv /\ CaptureInv /\ [Next]_vars => CaptureInv'
  BY CaptureSteps
<1> QED
  BY <1>1, <1>2, CaptureInitially, PTL DEF Spec

\* The state keeps its types, whatever the driver grants and whatever fails.
THEOREM CaptureTypes == Spec => []TypeOK
<1>1. DeviceInv => TypeOK
  <2> SUFFICES ASSUME DeviceInv PROVE TypeOK
    OBVIOUS
  <2>1. driver.on => device.fd
    BY IdleFacts DEF DeviceInv, Agreement
  <2> QED
    BY <2>1 DEF DeviceInv, Types, Agreement, Mapped, TypeOK, DeviceType, DriverType, CountsType
<1> QED
  BY <1>1, DeviceInvariance, PTL

\* At most one buffer is ever out of the driver, none while the program waits
\* for a frame or stops cleanly: capture_frames() re-queues what it dequeues.
THEOREM BuffersReturned == Spec => []BuffersHandedBack
<1>1. DeviceInv => BuffersHandedBack
  <2> SUFFICES ASSUME DeviceInv PROVE BuffersHandedBack
    OBVIOUS
  <2>1. Cardinality(Out) <= 1
    <3>1. CASE Out = {}
      BY <3>1, FS_EmptySet
    <3>2. CASE Out # {}
      <4>1. PICK b \in Out : TRUE
        BY <3>2
      <4>2. Out = {b}
        BY <4>1 DEF DeviceInv, Owned
      <4>3. Cardinality({b}) = 1
        BY FS_Singleton
      <4> QED
        BY <4>2, <4>3
    <3> QED
      BY <3>1, <3>2
  <2>2. pc \in {"poll", "dqbuf"} => Out = {} /\ device.buffers_queued
    BY DEF DeviceInv, Owned
  <2>3. pc = "streamoff" /\ local.succeeded => Out = {}
    BY DEF DeviceInv, Owned
  <2> QED
    BY <2>1, <2>2, <2>3 DEF BuffersHandedBack, Out
<1> QED
  BY <1>1, DeviceInvariance, PTL

\* When the program ends no descriptor, stream, pool or mapping is left, save a
\* mapping munmap() refused to give up, and then the exit status says so.
THEOREM NothingIsHeld == Spec => []NothingHeld
<1>1. DeviceInv => NothingHeld
  <2> SUFFICES ASSUME DeviceInv, pc = "exited" PROVE NothingHeld
    BY DEF NothingHeld
  <2>1. ~device.fd /\ driver = Idle
    BY DEF DeviceInv, Ended, Agreement
  <2>2. ~device.streaming
    BY <2>1, IdleFacts DEF DeviceInv, Agreement
  <2>3. mappings = {}
    BY DEF DeviceInv, Mapped, Closing
  <2>4. pages # {} => exit = "failure"
    BY DEF DeviceInv, Ended
  <2> QED
    BY <2>1, <2>2, <2>3, <2>4 DEF NothingHeld
<1> QED
  BY <1>1, DeviceInvariance, PTL

\* A capture that ends with success took exactly the frames the command line
\* asked for, after exactly the ones it skips, and wrote the last of them.
THEOREM CaptureIsExact == Spec => []ExactCapture
<1>1. DeviceInv /\ CaptureInv => ExactCapture
  BY DEF DeviceInv, CaptureInv, AskedFor, Counted, WrittenWith, ExactCapture, Ended, Types,
         LocalType, CountsType
<1> QED
  BY <1>1, DeviceInvariance, CaptureInvariance, PTL

\* What one step may do to the mappings and to the pool.
LEMMA TeardownStep ==
  ASSUME DeviceInv, [Next]_vars
  PROVE  /\ pages \ pages' # {} => ~driver.on
         /\ driver.allocated # 0 /\ driver'.allocated = 0 /\ device'.fd => pages = {}
<1>1. CASE Unmap
  BY <1>1 DEF DeviceInv, Agreement, Unmap
<1>2. CASE ReleaseDriverBuffers
  BY <1>2, CaptureAssumption
     DEF DeviceInv, Agreement, Mapped, Pooled, ReleaseDriverBuffers
<1>3. CASE ReleaseBegin
  BY <1>3, ClosedFacts DEF DeviceInv, Types, ReleaseBegin
<1>4. CASE Abandon \/ CloseDescriptor
  BY <1>4, ClosedFacts DEF DeviceInv, Types, DeviceType, Abandon, CloseDescriptor
<1>5. CASE RequestBuffers
  BY <1>5, IdleFacts DEF DeviceInv, Agreement, RequestBuffers
<1>6. CASE MapBuffer
  BY <1>6 DEF MapBuffer
<1>7. CASE QueueBuffer \/ StartStreaming \/ Dequeue \/ Requeue \/ StopStreaming
  BY <1>7
     DEF DeviceInv, Types, DriverType, QueueBuffer, StartStreaming, Dequeue, Requeue,
         StopStreaming
<1>8. CASE \/ Open \/ Query \/ Enumerate \/ Negotiate \/ CaptureBegin \/ Poll \/ DequeueAgain
           \/ DequeueFails \/ Save \/ Released \/ Close
  BY <1>8
     DEF Open, Query, Enumerate, Negotiate, CaptureBegin, Poll, DequeueAgain, DequeueFails, Save,
         Released, Close
<1>9. CASE UNCHANGED vars
  BY <1>9 DEF vars
<1> QED
  BY <1>1, <1>2, <1>3, <1>4, <1>5, <1>6, <1>7, <1>8, <1>9
  DEF Next, Step, Setup, Capture, Teardown, Exited

\* Mappings go only after the stream has stopped, and REQBUFS(0) only after the
\* mappings: the order of the teardown, on every path.
THEOREM TeardownOrdered == Spec => TeardownOrder
<1>1. ASSUME DeviceInv, [Next]_vars
      PROVE  [ /\ pages \ pages' # {} => ~driver.on
               /\ driver.allocated # 0 /\ driver'.allocated = 0 /\ device'.fd => pages = {}
             ]_vars
  BY <1>1, TeardownStep
<1> QED
  BY <1>1, DeviceInvariance, PTL DEF Spec, TeardownOrder
================================================================================

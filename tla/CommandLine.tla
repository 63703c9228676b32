------------------------------ MODULE CommandLine ------------------------------
(***************************************************************************)
(* The command lines of camstream-gst-test, camstream-service and          *)
(* camstream-capture: each main.cpp's loop over argv, one argument at a    *)
(* time, and what a command line asks for when it is read as a whole.      *)
(***************************************************************************)
EXTENDS Naturals, SequencesExt, FiniteSetsExt

CONSTANTS
    Numbers,     \* the value of each numeral that std::from_chars reads as a u32
    MaxGint,     \* std::numeric_limits<int>::max()
    Dashed       \* the texts that start with "--"

ASSUME CommandLineAssumption ==
    /\ \A text \in DOMAIN Numbers : Numbers[text] \in Nat
    /\ MaxGint \in Nat \ {0}
    /\ DOMAIN Numbers \cap Dashed = {}

GstOptions == {"--device", "--format", "--width", "--height", "--fps", "--buffers", "--sync"}

Required == GstOptions \ {"--sync"}

CaptureOptions ==
    {"--device", "--format", "--width", "--height", "--fps", "--count", "--skip", "--output"}

\* A loop that waits for an option, or for the value of the last one.
Reading(defaults) ==
    [at |-> "option", option |-> "", seen |-> {}, config |-> defaults]

Refused(loop) == [loop EXCEPT !.at = "refused"]

Number(text, smallest, largest) ==
    text \in DOMAIN Numbers /\ Numbers[text] >= smallest /\ Numbers[text] <= largest

--------------------------------------------------------------------------------
(* camstream-gst-test and camstream-service                                 *)

\* mark_once
MarkOnce(loop, option) ==
    IF option \in loop.seen
    THEN Refused(loop)
    ELSE [loop EXCEPT !.at = "value", !.option = option, !.seen = @ \cup {option}]

\* consume_value
ConsumeValue(loop, text, accepted) ==
    IF text \in Dashed \cup {""} \/ ~accepted
    THEN Refused(loop)
    ELSE [loop EXCEPT !.at = "option", !.config[loop.option] = text]

GstValue(option, text, fewest) ==
    CASE option = "--device" -> TRUE
      [] option = "--format" -> text \in {"yuy2", "mjpeg"}
      [] option = "--sync" -> text \in {"true", "false"}
      [] option = "--buffers" -> Number(text, fewest, MaxGint)
      [] OTHER -> Number(text, 1, MaxGint)

TestArgument(loop, text) ==
    CASE loop.at \in {"refused", "help"} -> loop
      [] loop.at = "value" -> ConsumeValue(loop, text, GstValue(loop.option, text, 1))
      [] loop.at = "option" /\ text = "--help" -> [loop EXCEPT !.at = "help"]
      [] loop.at = "option" /\ text \in GstOptions -> MarkOnce(loop, text)
      [] OTHER -> Refused(loop)

\* The loop's state after each number of arguments.
TestLoop(argv) ==
    LET loop[i \in 0 .. Len(argv)] ==
            IF i = 0 THEN Reading([option \in GstOptions |-> ""])
            ELSE TestArgument(loop[i - 1], argv[i])
    IN  loop

\* parse_arguments of camstream-gst-test: --help ends the loop.
TestArguments(argv) ==
    LET loop == TestLoop(argv)[Len(argv)]
    IN  IF loop.at = "help" \/ (loop.at = "option" /\ Required \subseteq loop.seen)
        THEN loop
        ELSE Refused(loop)

ServiceDefaults == [option \in GstOptions |-> IF option = "--buffers" THEN "0" ELSE ""]

ServiceArgument(loop, text) ==
    CASE loop.at = "refused" -> loop
      [] loop.at = "value" -> ConsumeValue(loop, text, GstValue(loop.option, text, 0))
      [] loop.at = "option" /\ text \in GstOptions -> MarkOnce(loop, text)
      [] OTHER -> Refused(loop)

ServiceLoop(argv) ==
    LET loop[i \in 0 .. Len(argv)] ==
            IF i = 0 THEN Reading(ServiceDefaults) ELSE ServiceArgument(loop[i - 1], argv[i])
    IN  loop

\* main and parse_arguments of camstream-service: --help must be used alone.
ServiceArguments(argv) ==
    LET loop == ServiceLoop(argv)[Len(argv)]
    IN  IF argv = <<"--help">> THEN [loop EXCEPT !.at = "help"]
        ELSE IF loop.at = "option" THEN loop ELSE Refused(loop)

--------------------------------------------------------------------------------
(* camstream-capture: options may be repeated, and a value may look like one *)

CaptureDefaults ==
    [option \in CaptureOptions |->
        CASE option = "--count" -> "10" [] option = "--skip" -> "0" [] OTHER -> ""]

CaptureValue(option, text) ==
    CASE option \in {"--device", "--output"} -> text # ""
      [] option = "--format" -> text \in {"MJPG", "YUYV"}
      [] option = "--skip" -> text \in DOMAIN Numbers
      [] OTHER -> text \in DOMAIN Numbers /\ Numbers[text] # 0

CaptureArgument(loop, text) ==
    CASE loop.at \in {"refused", "help"} -> loop
      [] loop.at = "value" /\ CaptureValue(loop.option, text) ->
            [loop EXCEPT !.at = "option", !.config[loop.option] = text]
      [] loop.at = "option" /\ text = "--help" -> [loop EXCEPT !.at = "help"]
      [] loop.at = "option" /\ text \in CaptureOptions ->
            [loop EXCEPT !.at = "value", !.option = text, !.seen = @ \cup {text}]
      [] OTHER -> Refused(loop)

CaptureLoop(argv) ==
    LET loop[i \in 0 .. Len(argv)] ==
            IF i = 0 THEN Reading(CaptureDefaults) ELSE CaptureArgument(loop[i - 1], argv[i])
    IN  loop

\* Without --format the device is only listed, and takes no other option.
CaptureArguments(argv) ==
    LET loop == CaptureLoop(argv)[Len(argv)]
    IN  IF \/ loop.at = "help"
           \/ loop.at = "option" /\ ("--format" \in loop.seen \/ loop.seen \subseteq {"--device"})
        THEN loop
        ELSE Refused(loop)

--------------------------------------------------------------------------------
(* What a command line asks for, read as pairs of an option and its value.   *)

Names(argv) == {i \in DOMAIN argv : i % 2 = 1}

Paired(argv, Accepted(_, _)) ==
    /\ Len(argv) % 2 = 0
    /\ \A i \in Names(argv) : Accepted(argv[i], argv[i + 1])

Distinct(argv) == \A i, j \in Names(argv) : argv[i] = argv[j] => i = j

Given(argv) == {argv[i] : i \in Names(argv)}

\* The value an option has: the last one given for it.
ValueOf(argv, option, default) ==
    LET at == {i \in Names(argv) : argv[i] = option}
    IN  IF at = {} THEN default ELSE argv[Max(at) + 1]

\* --help in an option's place, behind a beginning that is correct.
HelpAsked(argv, Correct(_)) ==
    \E i \in Names(argv) : argv[i] = "--help" /\ Correct(SubSeq(argv, 1, i - 1))

GstPairs(argv, fewest) ==
    LET accepted(option, text) ==
            /\ option \in GstOptions
            /\ text \notin Dashed \cup {""}
            /\ GstValue(option, text, fewest)
    IN  Paired(argv, accepted) /\ Distinct(argv)

TestAsks(argv) ==
    LET correct(beginning) == GstPairs(beginning, 1)
    IN  IF HelpAsked(argv, correct) THEN "help"
        ELSE IF GstPairs(argv, 1) /\ Required \subseteq Given(argv) THEN "run"
        ELSE "nonsense"

ServiceAsks(argv) ==
    IF argv = <<"--help">> THEN "help"
    ELSE IF ~GstPairs(argv, 0) THEN "nonsense"
    ELSE IF Numbers[ValueOf(argv, "--buffers", "0")] = 0 THEN "continuous" ELSE "finite"

CapturePairs(argv) ==
    LET accepted(option, text) == option \in CaptureOptions /\ CaptureValue(option, text)
    IN  Paired(argv, accepted)

CaptureAsks(argv) ==
    IF HelpAsked(argv, CapturePairs) THEN "help"
    ELSE IF ~CapturePairs(argv) THEN "nonsense"
    ELSE IF "--format" \in Given(argv) THEN "capture"
    ELSE IF Given(argv) \subseteq {"--device"} THEN "list" ELSE "nonsense"
=============================================================================

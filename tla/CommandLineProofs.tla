--------------------------- MODULE CommandLineProofs ---------------------------
(***************************************************************************)
(* The loops over argv do what the command line means as a whole: for every *)
(* sequence of texts, of any length, the state that the loop of each        *)
(* program ends in agrees with the pairs of options and values that are     *)
(* written there.  The induction is over the number of arguments read, for  *)
(* one loop that stands for the three; LoopRead is what is proved of it.    *)
(***************************************************************************)
EXTENDS CommandLine, WellFoundedInduction, TLAPS

\* A set of naturals that is not empty has a least element.
LEMMA Least ==
  ASSUME NEW T, T \subseteq Nat, T # {}
  PROVE  \E x \in T : \A y \in T : x <= y
<1>1. PICK x \in T : \A y \in T : ~(<<y, x>> \in OpToRel(<, Nat))
  BY NatLessThanWellFounded, WFMin
<1>2. x \in Nat /\ \A y \in T : y \in Nat /\ ~(y < x)
  BY <1>1 DEF OpToRel
<1>3. \A y \in T : x <= y
  BY <1>2
<1> QED
  BY <1>3

\* Induction over a set: it needs no operator as a parameter, so the provers
\* can use it for what the loops over argv compute.
LEMMA Induction ==
  ASSUME NEW S, 0 \in S, \A n \in Nat : n \in S => n + 1 \in S
  PROVE  Nat \subseteq S
<1> SUFFICES ASSUME Nat \ S # {} PROVE FALSE
  OBVIOUS
<1>1. PICK x \in Nat \ S : \A y \in Nat \ S : x <= y
  BY Least
<1>2. x # 0 /\ x - 1 \in Nat /\ x - 1 \in S
  BY <1>1
<1> QED
  BY <1>1, <1>2

\* What Max of FiniteSetsExt chooses from positions of a sequence.
LEMMA MaxFacts ==
  ASSUME NEW n \in Nat, NEW S, S \subseteq 1 .. n, S # {}
  PROVE  Max(S) \in S /\ \A y \in S : y <= Max(S)
<1> DEFINE T == {n - x : x \in S}
<1>0. \A x \in S : x \in Nat /\ x <= n /\ n - x \in Nat
  OBVIOUS
<1>1. T \subseteq Nat /\ T # {}
  BY <1>0
<1>2. PICK t \in T : \A y \in T : t <= y
  BY <1>1, Least
<1>3. PICK x \in S : t = n - x
  BY <1>2
<1>4. \A y \in S : x >= y
  <2>1. ASSUME NEW y \in S PROVE x >= y
    <3>1. n - x <= n - y
      BY <1>2, <1>3
    <3> QED
      BY <1>0, <3>1
  <2> QED
    BY <2>1
<1>5. \E z \in S : \A y \in S : z >= y
  BY <1>3, <1>4
<1>6. Max(S) \in S /\ \A y \in S : Max(S) >= y
  BY <1>5 DEF Max
<1> QED
  BY <1>6

\* The positions where an option's name stands are the odd ones.
Odd(i) == i % 2 = 1

\* Names and values alternate.
LEMMA OddFacts ==
  /\ ~Odd(0) /\ Odd(1)
  /\ \A i \in Nat : Odd(i + 1) <=> ~Odd(i)
  /\ \A i \in Nat : Odd(i) <=> ~(i % 2 = 0)
  BY DEF Odd

--------------------------------------------------------------------------------
(* The loops are defined: what each of them is after one argument more.      *)

\* loop holds the states of camstream-gst-test's loop for n arguments.
TestLoopIs(argv, loop, n) ==
    loop = [i \in 0 .. n |-> IF i = 0 THEN Reading([option \in GstOptions |-> ""])
                             ELSE TestArgument(loop[i - 1], argv[i])]

\* The loop of camstream-gst-test takes one argument at a time.
LEMMA TestLoopSteps ==
  ASSUME NEW argv, Len(argv) \in Nat
  PROVE  /\ TestLoop(argv)[0] = Reading([option \in GstOptions |-> ""])
         /\ \A i \in Nat : i < Len(argv) =>
               TestLoop(argv)[i + 1] = TestArgument(TestLoop(argv)[i], argv[i + 1])
<1> DEFINE base == Reading([option \in GstOptions |-> ""])
<1> DEFINE S == {n \in Nat : \E g : TestLoopIs(argv, g, n)}
<1>1. 0 \in S
  <2> DEFINE g == [i \in 0 .. 0 |-> base]
  <2>1. TestLoopIs(argv, g, 0)
    BY DEF TestLoopIs
  <2> QED
    BY <2>1
<1>2. ASSUME NEW n \in Nat, n \in S PROVE n + 1 \in S
  <2>1. PICK g : TestLoopIs(argv, g, n)
    BY <1>2
  <2> DEFINE h == [i \in 0 .. n + 1 |->
                      IF i = n + 1 THEN TestArgument(g[n], argv[n + 1]) ELSE g[i]]
  <2>2. \A i \in 0 .. n : g[i] = IF i = 0 THEN base ELSE TestArgument(g[i - 1], argv[i])
    BY <2>1 DEF TestLoopIs
  <2>3. \A i \in 0 .. n + 1 : h[i] = IF i = 0 THEN base ELSE TestArgument(h[i - 1], argv[i])
    <3> HIDE DEF base
    <3>1. ASSUME NEW i \in 0 .. n
          PROVE  h[i] = IF i = 0 THEN base ELSE TestArgument(h[i - 1], argv[i])
      BY <2>2
    <3>2. h[n + 1] = TestArgument(h[(n + 1) - 1], argv[n + 1])
      OBVIOUS
    <3> HIDE DEF h
    <3> QED
      BY <3>1, <3>2
  <2>4. TestLoopIs(argv, h, n + 1)
    BY <2>3 DEF TestLoopIs, base
  <2> QED
    BY <2>4
<1> HIDE DEF S
<1>3. \E g : TestLoopIs(argv, g, Len(argv))
  <2>1. Len(argv) \in S
    BY <1>1, <1>2, Induction
  <2> QED
    BY <2>1 DEF S
<1>4. TestLoopIs(argv, TestLoop(argv), Len(argv))
  BY <1>3 DEF TestLoopIs, TestLoop
<1>5. \A i \in 0 .. Len(argv) :
         TestLoop(argv)[i] =
            IF i = 0 THEN base ELSE TestArgument(TestLoop(argv)[i - 1], argv[i])
  BY <1>4 DEF TestLoopIs
<1> HIDE DEF base
<1>6. \A i \in Nat : i < Len(argv) =>
         TestLoop(argv)[i + 1] = TestArgument(TestLoop(argv)[i], argv[i + 1])
  BY <1>5
<1>7. TestLoop(argv)[0] = base
  BY <1>5
<1> QED
  BY <1>6, <1>7 DEF base

\* loop holds the states of camstream-service's loop for n arguments.
ServiceLoopIs(argv, loop, n) ==
    loop = [i \in 0 .. n |-> IF i = 0 THEN Reading(ServiceDefaults)
                             ELSE ServiceArgument(loop[i - 1], argv[i])]

\* The loop of camstream-service takes one argument at a time.
LEMMA ServiceLoopSteps ==
  ASSUME NEW argv, Len(argv) \in Nat
  PROVE  /\ ServiceLoop(argv)[0] = Reading(ServiceDefaults)
         /\ \A i \in Nat : i < Len(argv) =>
               ServiceLoop(argv)[i + 1] = ServiceArgument(ServiceLoop(argv)[i], argv[i + 1])
<1> DEFINE base == Reading(ServiceDefaults)
<1> DEFINE S == {n \in Nat : \E g : ServiceLoopIs(argv, g, n)}
<1>1. 0 \in S
  <2> DEFINE g == [i \in 0 .. 0 |-> base]
  <2>1. ServiceLoopIs(argv, g, 0)
    BY DEF ServiceLoopIs
  <2> QED
    BY <2>1
<1>2. ASSUME NEW n \in Nat, n \in S PROVE n + 1 \in S
  <2>1. PICK g : ServiceLoopIs(argv, g, n)
    BY <1>2
  <2> DEFINE h == [i \in 0 .. n + 1 |->
                      IF i = n + 1 THEN ServiceArgument(g[n], argv[n + 1]) ELSE g[i]]
  <2>2. \A i \in 0 .. n : g[i] = IF i = 0 THEN base ELSE ServiceArgument(g[i - 1], argv[i])
    BY <2>1 DEF ServiceLoopIs
  <2>3. \A i \in 0 .. n + 1 : h[i] = IF i = 0 THEN base ELSE ServiceArgument(h[i - 1], argv[i])
    <3> HIDE DEF base
    <3>1. ASSUME NEW i \in 0 .. n
          PROVE  h[i] = IF i = 0 THEN base ELSE ServiceArgument(h[i - 1], argv[i])
      BY <2>2
    <3>2. h[n + 1] = ServiceArgument(h[(n + 1) - 1], argv[n + 1])
      OBVIOUS
    <3> HIDE DEF h
    <3> QED
      BY <3>1, <3>2
  <2>4. ServiceLoopIs(argv, h, n + 1)
    BY <2>3 DEF ServiceLoopIs, base
  <2> QED
    BY <2>4
<1> HIDE DEF S
<1>3. \E g : ServiceLoopIs(argv, g, Len(argv))
  <2>1. Len(argv) \in S
    BY <1>1, <1>2, Induction
  <2> QED
    BY <2>1 DEF S
<1>4. ServiceLoopIs(argv, ServiceLoop(argv), Len(argv))
  BY <1>3 DEF ServiceLoopIs, ServiceLoop
<1>5. \A i \in 0 .. Len(argv) :
         ServiceLoop(argv)[i] =
            IF i = 0 THEN base ELSE ServiceArgument(ServiceLoop(argv)[i - 1], argv[i])
  BY <1>4 DEF ServiceLoopIs
<1> HIDE DEF base
<1>6. \A i \in Nat : i < Len(argv) =>
         ServiceLoop(argv)[i + 1] = ServiceArgument(ServiceLoop(argv)[i], argv[i + 1])
  BY <1>5
<1>7. ServiceLoop(argv)[0] = base
  BY <1>5
<1> QED
  BY <1>6, <1>7 DEF base

\* loop holds the states of camstream-capture's loop for n arguments.
CaptureLoopIs(argv, loop, n) ==
    loop = [i \in 0 .. n |-> IF i = 0 THEN Reading(CaptureDefaults)
                             ELSE CaptureArgument(loop[i - 1], argv[i])]

\* The loop of camstream-capture takes one argument at a time.
LEMMA CaptureLoopSteps ==
  ASSUME NEW argv, Len(argv) \in Nat
  PROVE  /\ CaptureLoop(argv)[0] = Reading(CaptureDefaults)
         /\ \A i \in Nat : i < Len(argv) =>
               CaptureLoop(argv)[i + 1] = CaptureArgument(CaptureLoop(argv)[i], argv[i + 1])
<1> DEFINE base == Reading(CaptureDefaults)
<1> DEFINE S == {n \in Nat : \E g : CaptureLoopIs(argv, g, n)}
<1>1. 0 \in S
  <2> DEFINE g == [i \in 0 .. 0 |-> base]
  <2>1. CaptureLoopIs(argv, g, 0)
    BY DEF CaptureLoopIs
  <2> QED
    BY <2>1
<1>2. ASSUME NEW n \in Nat, n \in S PROVE n + 1 \in S
  <2>1. PICK g : CaptureLoopIs(argv, g, n)
    BY <1>2
  <2> DEFINE h == [i \in 0 .. n + 1 |->
                      IF i = n + 1 THEN CaptureArgument(g[n], argv[n + 1]) ELSE g[i]]
  <2>2. \A i \in 0 .. n : g[i] = IF i = 0 THEN base ELSE CaptureArgument(g[i - 1], argv[i])
    BY <2>1 DEF CaptureLoopIs
  <2>3. \A i \in 0 .. n + 1 : h[i] = IF i = 0 THEN base ELSE CaptureArgument(h[i - 1], argv[i])
    <3> HIDE DEF base
    <3>1. ASSUME NEW i \in 0 .. n
          PROVE  h[i] = IF i = 0 THEN base ELSE CaptureArgument(h[i - 1], argv[i])
      BY <2>2
    <3>2. h[n + 1] = CaptureArgument(h[(n + 1) - 1], argv[n + 1])
      OBVIOUS
    <3> HIDE DEF h
    <3> QED
      BY <3>1, <3>2
  <2>4. CaptureLoopIs(argv, h, n + 1)
    BY <2>3 DEF CaptureLoopIs, base
  <2> QED
    BY <2>4
<1> HIDE DEF S
<1>3. \E g : CaptureLoopIs(argv, g, Len(argv))
  <2>1. Len(argv) \in S
    BY <1>1, <1>2, Induction
  <2> QED
    BY <2>1 DEF S
<1>4. CaptureLoopIs(argv, CaptureLoop(argv), Len(argv))
  BY <1>3 DEF CaptureLoopIs, CaptureLoop
<1>5. \A i \in 0 .. Len(argv) :
         CaptureLoop(argv)[i] =
            IF i = 0 THEN base ELSE CaptureArgument(CaptureLoop(argv)[i - 1], argv[i])
  BY <1>4 DEF CaptureLoopIs
<1> HIDE DEF base
<1>6. \A i \in Nat : i < Len(argv) =>
         CaptureLoop(argv)[i + 1] = CaptureArgument(CaptureLoop(argv)[i], argv[i + 1])
  BY <1>5
<1>7. CaptureLoop(argv)[0] = base
  BY <1>5
<1> QED
  BY <1>6, <1>7 DEF base

--------------------------------------------------------------------------------
(* One loop that stands for the three, with what differs as a record.       *)

\* camstream-gst-test.  defaults: the options and their first values; accepted:
\* the values that each option takes; once: an option is refused the second
\* time; help: --help in an option's place ends the loop.
TestGrammar ==
    [defaults |-> [option \in GstOptions |-> ""],
     accepted |-> [option \in GstOptions |->
                      {text \in STRING :
                          text \notin Dashed \cup {""} /\ GstValue(option, text, 1)}],
     once |-> TRUE, help |-> TRUE]

\* camstream-service: --help is no option's place, and no frames is a number.
ServiceGrammar ==
    [defaults |-> ServiceDefaults,
     accepted |-> [option \in GstOptions |->
                      {text \in STRING :
                          text \notin Dashed \cup {""} /\ GstValue(option, text, 0)}],
     once |-> TRUE, help |-> FALSE]

\* camstream-capture: options may be repeated, and any text may be a value.
CaptureGrammar ==
    [defaults |-> CaptureDefaults,
     accepted |-> [option \in CaptureOptions |-> {text \in STRING : CaptureValue(option, text)}],
     once |-> FALSE, help |-> TRUE]

\* The options of a grammar.
OptionsOf(g) == DOMAIN g.defaults

\* The loop after an option's name.
Took(loop, text) == [loop EXCEPT !.at = "value", !.option = text, !.seen = @ \cup {text}]

\* The loop after an option's value.
Gave(loop, text) == [loop EXCEPT !.at = "option", !.config[loop.option] = text]

\* The loop after an argument that ends it.
StoppedAt(loop, at) == [loop EXCEPT !.at = at]

\* The loop after one argument more.
ReadArgument(g, loop, text) ==
    CASE loop.at \in {"refused", "help"} -> loop
      [] loop.at = "value" /\ text \in g.accepted[loop.option] -> Gave(loop, text)
      [] loop.at = "option" /\ text \in OptionsOf(g) /\ (g.once => text \notin loop.seen) ->
            Took(loop, text)
      [] OTHER -> StoppedAt(loop, IF loop.at = "option" /\ text = "--help" /\ g.help
                              THEN "help" ELSE "refused")

\* The first i arguments are pairs of an option and an acceptable value.
UpTo(g, argv, i) ==
    /\ ~Odd(i)
    /\ \A j \in 1 .. i : Odd(j) => argv[j] \in OptionsOf(g) /\ argv[j + 1] \in g.accepted[argv[j]]
    /\ g.once => \A j, k \in 1 .. i : Odd(j) /\ Odd(k) /\ argv[j] = argv[k] => j = k

\* One more option follows them.
OpenAt(g, argv, i) ==
    /\ Odd(i)
    /\ UpTo(g, argv, i - 1)
    /\ argv[i] \in OptionsOf(g)
    /\ g.once => \A j \in 1 .. i - 1 : Odd(j) => argv[j] # argv[i]

\* --help stands in an option's place among the first i arguments.
HelpUpTo(g, argv, i) ==
    /\ g.help
    /\ \E j \in 1 .. i : Odd(j) /\ argv[j] = "--help" /\ UpTo(g, argv, j - 1)

\* The last value that the first i arguments give an option, or its default.
Holds(argv, i, option, default, value) ==
    \/ \E j \in 1 .. i :
          /\ Odd(j) /\ j < i /\ argv[j] = option /\ argv[j + 1] = value
          /\ \A k \in 1 .. i : Odd(k) /\ k < i /\ argv[k] = option => k <= j
    \/ value = default /\ \A j \in 1 .. i : Odd(j) /\ j < i => argv[j] # option

\* The options that the first i arguments name.
GivenUpTo(argv, i) == {argv[j] : j \in {k \in 1 .. i : Odd(k)}}

\* Every text the loop may hold.
Texts(g, argv) ==
    {""} \cup OptionsOf(g) \cup {g.defaults[option] : option \in OptionsOf(g)}
         \cup {argv[i] : i \in 1 .. Len(argv)}

\* The states of the loop.
LoopStates(g, argv) ==
    [at : {"option", "value", "refused", "help"}, option : Texts(g, argv),
     seen : SUBSET OptionsOf(g), config : [OptionsOf(g) -> Texts(g, argv)]]

\* What the loop knows after i arguments.
LoopRead(g, argv, i, loop) ==
    /\ loop \in LoopStates(g, argv)
    /\ loop.at = "option" <=> UpTo(g, argv, i)
    /\ loop.at = "value" <=> OpenAt(g, argv, i)
    /\ loop.at = "help" <=> HelpUpTo(g, argv, i)
    /\ loop.at = "value" => loop.option = argv[i]
    /\ loop.at \in {"option", "value"} =>
          /\ loop.seen = GivenUpTo(argv, i)
          /\ \A option \in OptionsOf(g) :
                Holds(argv, i, option, g.defaults[option], loop.config[option])

\* What a grammar must satisfy: --help is none of its options.
IsGrammar(g) ==
    /\ g.defaults \in [OptionsOf(g) -> {g.defaults[option] : option \in OptionsOf(g)}]
    /\ "--help" \notin OptionsOf(g)

\* The texts that are among them.
LEMMA TextsFacts ==
  ASSUME NEW g, NEW argv
  PROVE  /\ "" \in Texts(g, argv) /\ OptionsOf(g) \subseteq Texts(g, argv)
         /\ \A option \in OptionsOf(g) : g.defaults[option] \in Texts(g, argv)
         /\ \A i \in 1 .. Len(argv) : argv[i] \in Texts(g, argv)
  BY DEF Texts

\* A loop that has read nothing is in one of its states ...
LEMMA BlankState ==
  ASSUME NEW g, NEW argv, NEW defaults \in [OptionsOf(g) -> Texts(g, argv)],
         NEW none \in SUBSET OptionsOf(g), NEW empty \in Texts(g, argv)
  PROVE  [at |-> "option", option |-> empty, seen |-> none, config |-> defaults]
            \in LoopStates(g, argv)
  BY DEF LoopStates

\* ... and starts in one.
LEMMA ReadingState ==
  ASSUME NEW g, NEW argv, IsGrammar(g)
  PROVE  Reading(g.defaults) \in LoopStates(g, argv)
<1>1. {} \in SUBSET OptionsOf(g)
  OBVIOUS
<1>2. g.defaults \in [OptionsOf(g) -> Texts(g, argv)]
  BY TextsFacts DEF IsGrammar
<1> QED
  BY <1>1, <1>2, TextsFacts, BlankState DEF Reading

\* A value changes the configuration at the option that waited for it.
LEMMA GaveState ==
  ASSUME NEW g, NEW argv, NEW loop \in LoopStates(g, argv), NEW text \in Texts(g, argv),
         loop.option \in OptionsOf(g), NEW next, next = Gave(loop, text)
  PROVE  /\ next \in LoopStates(g, argv) /\ next.at = "option" /\ next.seen = loop.seen
         /\ \A option \in OptionsOf(g) :
               next.config[option] = IF option = loop.option THEN text ELSE loop.config[option]
<1> DEFINE after == [loop EXCEPT !.at = "option", !.config[loop.option] = text]
<1>1. after \in LoopStates(g, argv)
  BY DEF LoopStates
<1>2. after.seen = loop.seen
  BY DEF LoopStates
<1>3. after.at = "option"
  BY DEF LoopStates
<1>4. after.config = [loop.config EXCEPT ![loop.option] = text]
  BY DEF LoopStates
<1>5. loop.config \in [OptionsOf(g) -> Texts(g, argv)]
  BY DEF LoopStates
<1>6. next = after
  BY DEF Gave
<1> HIDE DEF after
<1> QED
  BY <1>1, <1>2, <1>3, <1>4, <1>5, <1>6

\* An option's name is remembered.
LEMMA TookState ==
  ASSUME NEW g, NEW argv, NEW loop \in LoopStates(g, argv), NEW text \in OptionsOf(g),
         NEW next, next = Took(loop, text)
  PROVE  /\ next \in LoopStates(g, argv) /\ next.at = "value" /\ next.option = text
         /\ next.seen = loop.seen \cup {text} /\ next.config = loop.config
<1> DEFINE after == [loop EXCEPT !.at = "value", !.option = text, !.seen = @ \cup {text}]
<1>0. text \in Texts(g, argv)
  BY TextsFacts
<1>1. after \in LoopStates(g, argv)
  BY <1>0 DEF LoopStates
<1>2. /\ after.at = "value" /\ after.option = text
      /\ after.seen = loop.seen \cup {text} /\ after.config = loop.config
  BY DEF LoopStates
<1>3. next = after
  BY DEF Took
<1> HIDE DEF after
<1> QED
  BY <1>1, <1>2, <1>3

\* Only the place changes where the loop ends.
LEMMA StoppedState ==
  ASSUME NEW g, NEW argv, NEW loop \in LoopStates(g, argv), NEW at \in {"refused", "help"},
         NEW next, next = StoppedAt(loop, at)
  PROVE  next \in LoopStates(g, argv) /\ next.at = at
  BY DEF LoopStates, StoppedAt

\* --help counts where a name could stand, behind pairs that are correct.
LEMMA HelpSteps ==
  ASSUME NEW g, NEW argv, NEW i \in Nat
  PROVE  /\ ~HelpUpTo(g, argv, 0)
         /\ HelpUpTo(g, argv, i + 1) <=>
              \/ HelpUpTo(g, argv, i)
              \/ g.help /\ Odd(i + 1) /\ argv[i + 1] = "--help" /\ UpTo(g, argv, i)
<1>1. \A j \in 1 .. i + 1 : j \in 1 .. i \/ j = i + 1
  OBVIOUS
<1>2. (\A j \in 1 .. i : j \in 1 .. i + 1) /\ i + 1 \in 1 .. i + 1 /\ (i + 1) - 1 = i
  OBVIOUS
<1>3. ~HelpUpTo(g, argv, 0)
  BY DEF HelpUpTo
<1>4. ASSUME HelpUpTo(g, argv, i + 1)
      PROVE  \/ HelpUpTo(g, argv, i)
             \/ g.help /\ Odd(i + 1) /\ argv[i + 1] = "--help" /\ UpTo(g, argv, i)
  BY <1>1, <1>2, <1>4 DEF HelpUpTo
<1>5. ASSUME \/ HelpUpTo(g, argv, i)
             \/ g.help /\ Odd(i + 1) /\ argv[i + 1] = "--help" /\ UpTo(g, argv, i)
      PROVE  HelpUpTo(g, argv, i + 1)
  BY <1>2, <1>5 DEF HelpUpTo
<1> QED
  BY <1>3, <1>4, <1>5

\* Before the first argument the loop knows the empty command line.
LEMMA ReadNothing ==
  ASSUME NEW g, NEW argv, IsGrammar(g)
  PROVE  LoopRead(g, argv, 0, Reading(g.defaults))
<1> DEFINE loop == Reading(g.defaults)
<1>1. loop \in LoopStates(g, argv) /\ loop.at = "option" /\ loop.seen = {}
      /\ loop.config = g.defaults
  <2>1. loop.at = "option" /\ loop.seen = {} /\ loop.config = g.defaults
    BY DEF Reading
  <2> QED
    BY <2>1, ReadingState
<1> HIDE DEF loop
<1>2. UpTo(g, argv, 0) /\ ~OpenAt(g, argv, 0) /\ ~HelpUpTo(g, argv, 0)
  BY OddFacts DEF UpTo, OpenAt, HelpUpTo
<1>3. GivenUpTo(argv, 0) = {}
  BY DEF GivenUpTo
<1>4. \A option \in OptionsOf(g) : Holds(argv, 0, option, g.defaults[option], g.defaults[option])
  BY DEF Holds
<1>5. LoopRead(g, argv, 0, loop)
  BY <1>1, <1>2, <1>3, <1>4 DEF LoopRead
<1> QED
  BY <1>5 DEF loop

\* A value that is accepted completes its pair.
LEMMA PairStep ==
  ASSUME NEW g, NEW argv, NEW i \in Nat, OpenAt(g, argv, i)
  PROVE  UpTo(g, argv, i + 1) <=> argv[i + 1] \in g.accepted[argv[i]]
<1>1. /\ Odd(i) /\ ~Odd(i + 1) /\ i \in 1 .. i + 1 /\ i # 0
      /\ argv[i] \in OptionsOf(g) /\ UpTo(g, argv, i - 1)
      /\ g.once => \A j \in 1 .. i - 1 : Odd(j) => argv[j] # argv[i]
  BY OddFacts DEF OpenAt
<1>2. ASSUME UpTo(g, argv, i + 1) PROVE argv[i + 1] \in g.accepted[argv[i]]
  BY <1>1, <1>2 DEF UpTo
<1>3. ASSUME argv[i + 1] \in g.accepted[argv[i]] PROVE UpTo(g, argv, i + 1)
  <2>1. \A j \in 1 .. i + 1 : Odd(j) => j = i \/ j \in 1 .. i - 1
    BY <1>1
  <2>2. \A j \in 1 .. i + 1 : Odd(j) =>
           argv[j] \in OptionsOf(g) /\ argv[j + 1] \in g.accepted[argv[j]]
    BY <1>1, <1>3, <2>1 DEF UpTo
  <2>3. g.once => \A j, k \in 1 .. i + 1 : Odd(j) /\ Odd(k) /\ argv[j] = argv[k] => j = k
    BY <1>1, <2>1 DEF UpTo
  <2> QED
    BY <1>1, <2>2, <2>3 DEF UpTo
<1> QED
  BY <1>2, <1>3

\* Pairs that are complete began as a reading that waits for a value.
LEMMA PairBefore ==
  ASSUME NEW g, NEW argv, NEW i \in Nat, UpTo(g, argv, i + 1)
  PROVE  OpenAt(g, argv, i)
<1>1. Odd(i) /\ i # 0 /\ ~Odd(i - 1) /\ i - 1 \in Nat
  BY OddFacts DEF UpTo
<1>2. i \in 1 .. i + 1 /\ \A j \in 1 .. i - 1 : j \in 1 .. i + 1 /\ j # i
  BY <1>1
<1>3. UpTo(g, argv, i - 1)
  BY <1>1, <1>2 DEF UpTo
<1>4. argv[i] \in OptionsOf(g) /\ (g.once => \A j \in 1 .. i - 1 : Odd(j) => argv[j] # argv[i])
  BY <1>1, <1>2 DEF UpTo
<1> QED
  BY <1>1, <1>3, <1>4 DEF OpenAt

\* One argument more, and the loop knows one argument more: the inductive step.
LEMMA ArgumentStep ==
  ASSUME NEW g, IsGrammar(g), NEW argv, Len(argv) \in Nat, NEW i \in Nat, i < Len(argv),
         NEW loop, LoopRead(g, argv, i, loop), NEW text, text = argv[i + 1],
         NEW next, next = ReadArgument(g, loop, text)
  PROVE  LoopRead(g, argv, i + 1, next)
<1>1. /\ loop \in LoopStates(g, argv)
      /\ loop.at = "option" <=> UpTo(g, argv, i)
      /\ loop.at = "value" <=> OpenAt(g, argv, i)
      /\ loop.at = "help" <=> HelpUpTo(g, argv, i)
      /\ loop.at = "value" => loop.option = argv[i]
      /\ loop.at \in {"option", "value"} =>
            /\ loop.seen = GivenUpTo(argv, i)
            /\ \A option \in OptionsOf(g) :
                  Holds(argv, i, option, g.defaults[option], loop.config[option])
  BY DEF LoopRead
<1>2. loop.at \in {"option", "value", "refused", "help"}
  BY <1>1 DEF LoopStates
<1>3. UpTo(g, argv, i) => ~Odd(i) /\ Odd(i + 1)
  BY OddFacts DEF UpTo
<1>4. OpenAt(g, argv, i) => Odd(i) /\ ~Odd(i + 1) /\ i # 0 /\ argv[i] \in OptionsOf(g)
  BY OddFacts DEF OpenAt
<1>5. UpTo(g, argv, i + 1) <=> OpenAt(g, argv, i) /\ text \in g.accepted[argv[i]]
  BY PairStep, PairBefore
<1>6. (i + 1) - 1 = i
  OBVIOUS
<1>7. HelpUpTo(g, argv, i + 1) <=>
         loop.at = "help" \/ (loop.at = "option" /\ g.help /\ text = "--help")
  BY <1>1, <1>3, HelpSteps
<1>8. CASE loop.at \in {"refused", "help"}
  <2>1. next = loop
    BY <1>8 DEF ReadArgument
  <2>2. ~UpTo(g, argv, i + 1)
    BY <1>1, <1>5, <1>8
  <2>3. ~OpenAt(g, argv, i + 1)
    BY <1>1, <1>6, <1>8 DEF OpenAt
  <2> QED
    BY <1>1, <1>7, <1>8, <2>1, <2>2, <2>3 DEF LoopRead
<1>9. CASE loop.at = "value"
  <2>1. /\ loop.option = argv[i] /\ argv[i] \in OptionsOf(g) /\ Odd(i) /\ ~Odd(i + 1) /\ i # 0
        /\ OpenAt(g, argv, i)
    BY <1>1, <1>4, <1>9
  <2>2. ~OpenAt(g, argv, i + 1) /\ ~HelpUpTo(g, argv, i + 1)
    BY <1>7, <1>9, <2>1 DEF OpenAt
  <2>3. CASE text \notin g.accepted[argv[i]]
    <3>1. next = StoppedAt(loop, "refused")
      BY <1>9, <2>1, <2>3 DEF ReadArgument
    <3>2. next \in LoopStates(g, argv) /\ next.at = "refused"
      BY <1>1, <3>1, StoppedState
    <3>3. ~UpTo(g, argv, i + 1)
      BY <1>5, <2>3
    <3> QED
      BY <2>2, <3>2, <3>3 DEF LoopRead
  <2>4. CASE text \in g.accepted[argv[i]]
    <3>1. next = Gave(loop, text)
      BY <1>9, <2>1, <2>4 DEF ReadArgument
    <3>2. text \in Texts(g, argv)
      <4>1. i + 1 \in 1 .. Len(argv)
        OBVIOUS
      <4> QED
        BY <4>1, TextsFacts
    <3>3. /\ next \in LoopStates(g, argv) /\ next.at = "option" /\ next.seen = loop.seen
          /\ \A option \in OptionsOf(g) :
                next.config[option] = IF option = argv[i] THEN text ELSE loop.config[option]
      BY <1>1, <2>1, <3>1, <3>2, GaveState
    <3>4. GivenUpTo(argv, i + 1) = GivenUpTo(argv, i)
      <4>1. {k \in 1 .. i + 1 : Odd(k)} = {k \in 1 .. i : Odd(k)}
        BY <2>1
      <4> QED
        BY <4>1 DEF GivenUpTo
    <3>5. ASSUME NEW option \in OptionsOf(g)
          PROVE  Holds(argv, i + 1, option, g.defaults[option], next.config[option])
      <4>1. CASE option = argv[i]
        <5>1. next.config[option] = argv[i + 1]
          BY <3>3, <4>1
        <5>2. i \in 1 .. i + 1 /\ i < i + 1 /\ \A k \in 1 .. i + 1 : k < i + 1 => k <= i
          BY <2>1
        <5> QED
          BY <2>1, <4>1, <5>1, <5>2 DEF Holds
      <4>2. CASE option # argv[i]
        <5>1. next.config[option] = loop.config[option]
          BY <3>3, <4>2
        <5>2. Holds(argv, i, option, g.defaults[option], loop.config[option])
          BY <1>1, <1>9
        <5>3. \A k \in 1 .. i + 1 : k < i + 1 /\ argv[k] = option => k \in 1 .. i /\ k < i
          BY <2>1, <4>2
        <5>4. \A k \in 1 .. i : k < i => k \in 1 .. i + 1 /\ k < i + 1
          OBVIOUS
        <5> QED
          BY <5>1, <5>2, <5>3, <5>4 DEF Holds
      <4> QED
        BY <4>1, <4>2
    <3>6. UpTo(g, argv, i + 1)
      BY <1>5, <2>1, <2>4
    <3> QED
      BY <1>1, <1>9, <2>2, <3>3, <3>4, <3>5, <3>6 DEF LoopRead
  <2> QED
    BY <2>3, <2>4
<1>10. CASE loop.at = "option"
  <2>1. ~Odd(i) /\ Odd(i + 1) /\ UpTo(g, argv, i)
    BY <1>1, <1>3, <1>10
  <2>2. ~UpTo(g, argv, i + 1)
    BY <2>1 DEF UpTo
  <2>3. loop.seen = GivenUpTo(argv, i)
    BY <1>1, <1>10
  <2>4. OpenAt(g, argv, i + 1) <=> text \in OptionsOf(g) /\ (g.once => text \notin loop.seen)
    BY <1>6, <2>1, <2>3 DEF OpenAt, GivenUpTo
  <2>5. CASE text \in OptionsOf(g) /\ (g.once => text \notin loop.seen)
    <3>1. next = Took(loop, text)
      BY <1>10, <2>5 DEF ReadArgument
    <3>2. /\ next \in LoopStates(g, argv) /\ next.at = "value" /\ next.option = text
          /\ next.seen = loop.seen \cup {text} /\ next.config = loop.config
      BY <1>1, <2>5, <3>1, TookState
    <3>3. GivenUpTo(argv, i + 1) = GivenUpTo(argv, i) \cup {text}
      <4>1. {k \in 1 .. i + 1 : Odd(k)} = {k \in 1 .. i : Odd(k)} \cup {i + 1}
        BY <2>1
      <4> QED
        BY <4>1 DEF GivenUpTo
    <3>4. ASSUME NEW option \in OptionsOf(g)
          PROVE  Holds(argv, i + 1, option, g.defaults[option], next.config[option])
      <4>1. Holds(argv, i, option, g.defaults[option], loop.config[option])
        BY <1>1, <1>10
      <4>2. \A k \in 1 .. i + 1 : Odd(k) /\ k < i + 1 => k \in 1 .. i /\ k < i
        BY <2>1
      <4>3. \A k \in 1 .. i : k < i => k \in 1 .. i + 1 /\ k < i + 1
        OBVIOUS
      <4> QED
        BY <3>2, <4>1, <4>2, <4>3 DEF Holds
    <3>5. ~HelpUpTo(g, argv, i + 1)
      BY <1>7, <1>10, <2>5 DEF IsGrammar
    <3> QED
      BY <2>2, <2>3, <2>4, <2>5, <3>2, <3>3, <3>4, <3>5 DEF LoopRead
  <2>6. CASE ~(text \in OptionsOf(g) /\ (g.once => text \notin loop.seen))
    <3> DEFINE at == IF text = "--help" /\ g.help THEN "help" ELSE "refused"
    <3>1. next = StoppedAt(loop, at)
      BY <1>10, <2>6 DEF ReadArgument
    <3>2. at \in {"refused", "help"} /\ (at = "help" <=> text = "--help" /\ g.help)
      OBVIOUS
    <3> HIDE DEF at
    <3>3. next \in LoopStates(g, argv) /\ next.at = at
      BY <1>1, <3>1, <3>2, StoppedState
    <3>4. next.at = "help" <=> HelpUpTo(g, argv, i + 1)
      BY <1>7, <1>10, <3>2, <3>3
    <3> QED
      BY <2>2, <2>4, <2>6, <3>2, <3>3, <3>4 DEF LoopRead
  <2> QED
    BY <2>5, <2>6
<1> QED
  BY <1>2, <1>8, <1>9, <1>10

--------------------------------------------------------------------------------
(* Each loop reads by its grammar.                                           *)

\* The options and values of camstream-gst-test.
LEMMA TestGrammarFacts ==
  /\ IsGrammar(TestGrammar) /\ OptionsOf(TestGrammar) = GstOptions
  /\ TestGrammar.once = TRUE /\ TestGrammar.help = TRUE
  /\ \A option \in GstOptions, text \in STRING :
        text \in TestGrammar.accepted[option] <=>
           text \notin Dashed \cup {""} /\ GstValue(option, text, 1)
<1>1. /\ TestGrammar.once = TRUE /\ TestGrammar.help = TRUE
      /\ TestGrammar.defaults = [option \in GstOptions |-> ""]
      /\ \A option \in GstOptions, text \in STRING :
            text \in TestGrammar.accepted[option] <=>
               text \notin Dashed \cup {""} /\ GstValue(option, text, 1)
  BY DEF TestGrammar
<1>2. OptionsOf(TestGrammar) = GstOptions
  BY <1>1 DEF OptionsOf
<1>3. "--help" \notin GstOptions
  BY DEF GstOptions
<1>4. TestGrammar.defaults \in
         [GstOptions -> {TestGrammar.defaults[option] : option \in GstOptions}]
  BY <1>1
<1> QED
  BY <1>1, <1>2, <1>3, <1>4 DEF IsGrammar

\* The loop of camstream-gst-test knows the whole command line at its end.
LEMMA TestReads ==
  ASSUME NEW argv \in Seq(STRING)
  PROVE  LoopRead(TestGrammar, argv, Len(argv), TestLoop(argv)[Len(argv)])
<1> DEFINE g == TestGrammar
           S == {i \in Nat : i <= Len(argv) => LoopRead(g, argv, i, TestLoop(argv)[i])}
<1>0. Len(argv) \in Nat
  OBVIOUS
<1> HIDE DEF g
<1>1. 0 \in S
  <2>1. LoopRead(g, argv, 0, Reading(g.defaults))
    BY TestGrammarFacts, ReadNothing DEF g
  <2>2. TestLoop(argv)[0] = Reading(g.defaults)
    BY <1>0, TestLoopSteps DEF g, TestGrammar
  <2> QED
    BY <2>1, <2>2
<1>2. ASSUME NEW i \in Nat, i \in S PROVE i + 1 \in S
  <2> SUFFICES ASSUME i < Len(argv) PROVE LoopRead(g, argv, i + 1, TestLoop(argv)[i + 1])
    BY <1>0
  <2> DEFINE loop == TestLoop(argv)[i]
             text == argv[i + 1]
  <2>1. LoopRead(g, argv, i, loop)
    BY <1>0, <1>2
  <2>2. TestLoop(argv)[i + 1] = TestArgument(loop, text)
    BY <1>0, TestLoopSteps
  <2>3. text \in STRING
    OBVIOUS
  <2>4. loop.at \in {"option", "value", "refused", "help"}
    BY <2>1 DEF LoopRead, LoopStates
  <2>5. loop.at = "value" => loop.option \in GstOptions
    BY <2>1, TestGrammarFacts DEF LoopRead, OpenAt, g
  <2>6. loop.at # "help" \/ g.help
    BY <2>1 DEF LoopRead, HelpUpTo
  <2>7. text = argv[i + 1]
    OBVIOUS
  <2> HIDE DEF loop, text
  <2>8. TestArgument(loop, text) = ReadArgument(g, loop, text)
    <3>1. CASE loop.at = "value"
      BY <2>3, <2>5, <3>1, TestGrammarFacts
      DEF TestArgument, ReadArgument, ConsumeValue, Gave, StoppedAt, Refused, g
    <3>2. CASE loop.at = "option"
      BY <3>2, TestGrammarFacts
      DEF TestArgument, ReadArgument, MarkOnce, Took, StoppedAt, Refused, g, IsGrammar
    <3>3. CASE loop.at \in {"refused", "help"}
      BY <2>6, <3>3, TestGrammarFacts DEF TestArgument, ReadArgument, g
    <3> QED
      BY <2>4, <3>1, <3>2, <3>3
  <2> QED
    BY <1>0, <2>1, <2>2, <2>7, <2>8, TestGrammarFacts, ArgumentStep DEF g
<1> HIDE DEF S
<1>3. Len(argv) \in S
  BY <1>0, <1>1, <1>2, Induction
<1> QED
  BY <1>0, <1>3 DEF S, g

\* The options and values of camstream-service.
LEMMA ServiceGrammarFacts ==
  /\ IsGrammar(ServiceGrammar) /\ OptionsOf(ServiceGrammar) = GstOptions
  /\ ServiceGrammar.once = TRUE /\ ServiceGrammar.help = FALSE
  /\ \A option \in GstOptions, text \in STRING :
        text \in ServiceGrammar.accepted[option] <=>
           text \notin Dashed \cup {""} /\ GstValue(option, text, 0)
<1>1. /\ ServiceGrammar.once = TRUE /\ ServiceGrammar.help = FALSE
      /\ ServiceGrammar.defaults = ServiceDefaults
      /\ \A option \in GstOptions, text \in STRING :
            text \in ServiceGrammar.accepted[option] <=>
               text \notin Dashed \cup {""} /\ GstValue(option, text, 0)
  BY DEF ServiceGrammar
<1>2. OptionsOf(ServiceGrammar) = GstOptions
  BY <1>1 DEF OptionsOf, ServiceDefaults
<1>3. "--help" \notin GstOptions
  BY DEF GstOptions
<1>4. ServiceGrammar.defaults \in
         [GstOptions -> {ServiceGrammar.defaults[option] : option \in GstOptions}]
  BY <1>1 DEF ServiceDefaults
<1> QED
  BY <1>1, <1>2, <1>3, <1>4 DEF IsGrammar

\* The loop of camstream-service knows the whole command line at its end.
LEMMA ServiceReads ==
  ASSUME NEW argv \in Seq(STRING)
  PROVE  LoopRead(ServiceGrammar, argv, Len(argv), ServiceLoop(argv)[Len(argv)])
<1> DEFINE g == ServiceGrammar
           S == {i \in Nat : i <= Len(argv) => LoopRead(g, argv, i, ServiceLoop(argv)[i])}
<1>0. Len(argv) \in Nat
  OBVIOUS
<1> HIDE DEF g
<1>1. 0 \in S
  <2>1. LoopRead(g, argv, 0, Reading(g.defaults))
    BY ServiceGrammarFacts, ReadNothing DEF g
  <2>2. ServiceLoop(argv)[0] = Reading(g.defaults)
    BY <1>0, ServiceLoopSteps DEF g, ServiceGrammar
  <2> QED
    BY <2>1, <2>2
<1>2. ASSUME NEW i \in Nat, i \in S PROVE i + 1 \in S
  <2> SUFFICES ASSUME i < Len(argv) PROVE LoopRead(g, argv, i + 1, ServiceLoop(argv)[i + 1])
    BY <1>0
  <2> DEFINE loop == ServiceLoop(argv)[i]
             text == argv[i + 1]
  <2>1. LoopRead(g, argv, i, loop)
    BY <1>0, <1>2
  <2>2. ServiceLoop(argv)[i + 1] = ServiceArgument(loop, text)
    BY <1>0, ServiceLoopSteps
  <2>3. text \in STRING
    OBVIOUS
  <2>4. loop.at \in {"option", "value", "refused", "help"}
    BY <2>1 DEF LoopRead, LoopStates
  <2>5. loop.at = "value" => loop.option \in GstOptions
    BY <2>1, ServiceGrammarFacts DEF LoopRead, OpenAt, g
  <2>6. loop.at # "help" \/ g.help
    BY <2>1 DEF LoopRead, HelpUpTo
  <2>7. text = argv[i + 1]
    OBVIOUS
  <2> HIDE DEF loop, text
  <2>8. ServiceArgument(loop, text) = ReadArgument(g, loop, text)
    <3>1. CASE loop.at = "value"
      BY <2>3, <2>5, <3>1, ServiceGrammarFacts
      DEF ServiceArgument, ReadArgument, ConsumeValue, Gave, StoppedAt, Refused, g
    <3>2. CASE loop.at = "option"
      BY <3>2, ServiceGrammarFacts
      DEF ServiceArgument, ReadArgument, MarkOnce, Took, StoppedAt, Refused, g, IsGrammar
    <3>3. CASE loop.at \in {"refused", "help"}
      BY <2>6, <3>3, ServiceGrammarFacts DEF ServiceArgument, ReadArgument, g
    <3> QED
      BY <2>4, <3>1, <3>2, <3>3
  <2> QED
    BY <1>0, <2>1, <2>2, <2>7, <2>8, ServiceGrammarFacts, ArgumentStep DEF g
<1> HIDE DEF S
<1>3. Len(argv) \in S
  BY <1>0, <1>1, <1>2, Induction
<1> QED
  BY <1>0, <1>3 DEF S, g

\* The options and values of camstream-capture.
LEMMA CaptureGrammarFacts ==
  /\ IsGrammar(CaptureGrammar) /\ OptionsOf(CaptureGrammar) = CaptureOptions
  /\ CaptureGrammar.once = FALSE /\ CaptureGrammar.help = TRUE
  /\ \A option \in CaptureOptions, text \in STRING :
        text \in CaptureGrammar.accepted[option] <=> CaptureValue(option, text)
<1>1. /\ CaptureGrammar.once = FALSE /\ CaptureGrammar.help = TRUE
      /\ CaptureGrammar.defaults = CaptureDefaults
      /\ \A option \in CaptureOptions, text \in STRING :
            text \in CaptureGrammar.accepted[option] <=> CaptureValue(option, text)
  BY DEF CaptureGrammar
<1>2. OptionsOf(CaptureGrammar) = CaptureOptions
  BY <1>1 DEF OptionsOf, CaptureDefaults
<1>3. "--help" \notin CaptureOptions
  BY DEF CaptureOptions
<1>4. CaptureGrammar.defaults \in
         [CaptureOptions -> {CaptureGrammar.defaults[option] : option \in CaptureOptions}]
  BY <1>1 DEF CaptureDefaults
<1> QED
  BY <1>1, <1>2, <1>3, <1>4 DEF IsGrammar

\* The loop of camstream-capture knows the whole command line at its end.
LEMMA CaptureReads ==
  ASSUME NEW argv \in Seq(STRING)
  PROVE  LoopRead(CaptureGrammar, argv, Len(argv), CaptureLoop(argv)[Len(argv)])
<1> DEFINE g == CaptureGrammar
           S == {i \in Nat : i <= Len(argv) => LoopRead(g, argv, i, CaptureLoop(argv)[i])}
<1>0. Len(argv) \in Nat
  OBVIOUS
<1> HIDE DEF g
<1>1. 0 \in S
  <2>1. LoopRead(g, argv, 0, Reading(g.defaults))
    BY CaptureGrammarFacts, ReadNothing DEF g
  <2>2. CaptureLoop(argv)[0] = Reading(g.defaults)
    BY <1>0, CaptureLoopSteps DEF g, CaptureGrammar
  <2> QED
    BY <2>1, <2>2
<1>2. ASSUME NEW i \in Nat, i \in S PROVE i + 1 \in S
  <2> SUFFICES ASSUME i < Len(argv) PROVE LoopRead(g, argv, i + 1, CaptureLoop(argv)[i + 1])
    BY <1>0
  <2> DEFINE loop == CaptureLoop(argv)[i]
             text == argv[i + 1]
  <2>1. LoopRead(g, argv, i, loop)
    BY <1>0, <1>2
  <2>2. CaptureLoop(argv)[i + 1] = CaptureArgument(loop, text)
    BY <1>0, CaptureLoopSteps
  <2>3. text \in STRING
    OBVIOUS
  <2>4. loop.at \in {"option", "value", "refused", "help"}
    BY <2>1 DEF LoopRead, LoopStates
  <2>5. loop.at = "value" => loop.option \in CaptureOptions
    BY <2>1, CaptureGrammarFacts DEF LoopRead, OpenAt, g
  <2>6. loop.at # "help" \/ g.help
    BY <2>1 DEF LoopRead, HelpUpTo
  <2>7. text = argv[i + 1]
    OBVIOUS
  <2> HIDE DEF loop, text
  <2>8. CaptureArgument(loop, text) = ReadArgument(g, loop, text)
    <3>1. CASE loop.at = "value"
      BY <2>3, <2>5, <3>1, CaptureGrammarFacts
      DEF CaptureArgument, ReadArgument, Gave, StoppedAt, Refused, g
    <3>2. CASE loop.at = "option"
      BY <3>2, CaptureGrammarFacts
      DEF CaptureArgument, ReadArgument, Took, StoppedAt, Refused, g, IsGrammar
    <3>3. CASE loop.at \in {"refused", "help"}
      BY <2>6, <3>3, CaptureGrammarFacts DEF CaptureArgument, ReadArgument, g
    <3> QED
      BY <2>4, <3>1, <3>2, <3>3
  <2> QED
    BY <1>0, <2>1, <2>2, <2>7, <2>8, CaptureGrammarFacts, ArgumentStep DEF g
<1> HIDE DEF S
<1>3. Len(argv) \in S
  BY <1>0, <1>1, <1>2, Induction
<1> QED
  BY <1>0, <1>3 DEF S, g


--------------------------------------------------------------------------------
(* Read argument by argument or as a whole, a command line is the same one.  *)

\* Where the names stand.
LEMMA NamesFacts ==
  ASSUME NEW argv \in Seq(STRING)
  PROVE  /\ Len(argv) \in Nat /\ DOMAIN argv = 1 .. Len(argv)
         /\ \A i : i \in Names(argv) <=> i \in 1 .. Len(argv) /\ Odd(i)
<1>1. Len(argv) \in Nat /\ DOMAIN argv = 1 .. Len(argv)
  OBVIOUS
<1> QED
  BY <1>1 DEF Names, Odd

\* A command line of pairs has a text behind each name.
LEMMA PairedRead ==
  ASSUME NEW argv \in Seq(STRING)
  PROVE  /\ Len(argv) % 2 = 0 <=> ~Odd(Len(argv))
         /\ \A i : i \in Names(argv) <=> i \in 1 .. Len(argv) /\ Odd(i)
         /\ \A i \in 1 .. Len(argv) : argv[i] \in STRING
         /\ ~Odd(Len(argv)) => \A i \in 1 .. Len(argv) : Odd(i) => argv[i + 1] \in STRING
<1>1. /\ Len(argv) \in Nat /\ \A i : i \in Names(argv) <=> i \in 1 .. Len(argv) /\ Odd(i)
  BY NamesFacts
<1>2. Len(argv) % 2 = 0 <=> ~Odd(Len(argv))
  BY <1>1, OddFacts
<1>3. ~Odd(Len(argv)) => \A i \in 1 .. Len(argv) : Odd(i) => i + 1 \in 1 .. Len(argv)
  BY <1>1
<1>4. \A i \in 1 .. Len(argv) : argv[i] \in STRING
  OBVIOUS
<1> QED
  BY <1>1, <1>2, <1>3, <1>4

\* The pairs of camstream-gst-test are what its loop accepts.
LEMMA TestPairs ==
  ASSUME NEW argv \in Seq(STRING)
  PROVE  GstPairs(argv, 1) <=> UpTo(TestGrammar, argv, Len(argv))
<1>1. Distinct(argv) <=>
         \A j, k \in 1 .. Len(argv) : Odd(j) /\ Odd(k) /\ argv[j] = argv[k] => j = k
  BY PairedRead DEF Distinct
<1>2. CASE Odd(Len(argv))
  BY <1>2, PairedRead DEF GstPairs, Paired, UpTo
<1>3. CASE ~Odd(Len(argv))
  <2>1. \A j \in 1 .. Len(argv) : Odd(j) =>
           argv[j] \in STRING /\ argv[j + 1] \in STRING
    BY <1>3, PairedRead
  <2>2. GstPairs(argv, 1) <=>
          /\ \A j \in 1 .. Len(argv) : Odd(j) =>
                /\ argv[j] \in GstOptions
                /\ argv[j + 1] \notin Dashed \cup {""}
                /\ GstValue(argv[j], argv[j + 1], 1)
          /\ Distinct(argv)
    BY <1>3, PairedRead DEF GstPairs, Paired
  <2> QED
    BY <1>1, <1>3, <2>1, <2>2, TestGrammarFacts DEF UpTo
<1> QED
  BY <1>2, <1>3

\* The pairs of camstream-service are what its loop accepts.
LEMMA ServicePairs ==
  ASSUME NEW argv \in Seq(STRING)
  PROVE  GstPairs(argv, 0) <=> UpTo(ServiceGrammar, argv, Len(argv))
<1>1. Distinct(argv) <=>
         \A j, k \in 1 .. Len(argv) : Odd(j) /\ Odd(k) /\ argv[j] = argv[k] => j = k
  BY PairedRead DEF Distinct
<1>2. CASE Odd(Len(argv))
  BY <1>2, PairedRead DEF GstPairs, Paired, UpTo
<1>3. CASE ~Odd(Len(argv))
  <2>1. \A j \in 1 .. Len(argv) : Odd(j) =>
           argv[j] \in STRING /\ argv[j + 1] \in STRING
    BY <1>3, PairedRead
  <2>2. GstPairs(argv, 0) <=>
          /\ \A j \in 1 .. Len(argv) : Odd(j) =>
                /\ argv[j] \in GstOptions
                /\ argv[j + 1] \notin Dashed \cup {""}
                /\ GstValue(argv[j], argv[j + 1], 0)
          /\ Distinct(argv)
    BY <1>3, PairedRead DEF GstPairs, Paired
  <2> QED
    BY <1>1, <1>3, <2>1, <2>2, ServiceGrammarFacts DEF UpTo
<1> QED
  BY <1>2, <1>3

\* The pairs of camstream-capture are what its loop accepts.
LEMMA CapturePairsRead ==
  ASSUME NEW argv \in Seq(STRING)
  PROVE  CapturePairs(argv) <=> UpTo(CaptureGrammar, argv, Len(argv))
<1>1. CASE Odd(Len(argv))
  BY <1>1, PairedRead DEF CapturePairs, Paired, UpTo
<1>2. CASE ~Odd(Len(argv))
  <2>1. \A j \in 1 .. Len(argv) : Odd(j) =>
           argv[j] \in STRING /\ argv[j + 1] \in STRING
    BY <1>2, PairedRead
  <2>2. CapturePairs(argv) <=>
          \A j \in 1 .. Len(argv) : Odd(j) =>
             argv[j] \in CaptureOptions /\ CaptureValue(argv[j], argv[j + 1])
    BY <1>2, PairedRead DEF CapturePairs, Paired
  <2> QED
    BY <1>2, <2>1, <2>2, CaptureGrammarFacts DEF UpTo
<1> QED
  BY <1>1, <1>2

\* A beginning is read as a command line of its own.
LEMMA BeginningRead ==
  ASSUME NEW g, NEW argv \in Seq(STRING), NEW j \in 1 .. Len(argv)
  PROVE  LET beginning == SubSeq(argv, 1, j - 1)
         IN  /\ beginning \in Seq(STRING) /\ Len(beginning) = j - 1
             /\ UpTo(g, beginning, j - 1) <=> UpTo(g, argv, j - 1)
<1> DEFINE beginning == SubSeq(argv, 1, j - 1)
<1>1. /\ beginning \in Seq(STRING) /\ Len(beginning) = j - 1
      /\ \A k \in 1 .. j - 1 : beginning[k] = argv[k]
  OBVIOUS
<1> HIDE DEF beginning
<1>2. \A k \in 1 .. j - 1 : Odd(k) /\ ~Odd(j - 1) => k + 1 \in 1 .. j - 1
  <2>1. j - 1 \in Nat
    OBVIOUS
  <2> QED
    BY <2>1
<1>3. UpTo(g, beginning, j - 1) <=> UpTo(g, argv, j - 1)
  BY <1>1, <1>2 DEF UpTo
<1> QED
  BY <1>1, <1>3 DEF beginning

\* The value that the loop holds is the last one the command line gives.
LEMMA ValueRead ==
  ASSUME NEW argv \in Seq(STRING), NEW option, NEW default, NEW value,
         ~Odd(Len(argv)), Holds(argv, Len(argv), option, default, value)
  PROVE  value = ValueOf(argv, option, default)
<1> DEFINE places == {i \in Names(argv) : argv[i] = option}
<1>1. /\ Len(argv) \in Nat /\ \A i : i \in Names(argv) <=> i \in 1 .. Len(argv) /\ Odd(i)
  BY NamesFacts
<1>2. \A i \in places : i \in 1 .. Len(argv) /\ Odd(i) /\ i < Len(argv) /\ argv[i] = option
  BY <1>1
<1>3. CASE places = {}
  <2>1. \A j \in 1 .. Len(argv) : Odd(j) => argv[j] # option
    BY <1>1, <1>3
  <2>2. value = default
    BY <2>1 DEF Holds
  <2> QED
    BY <1>3, <2>2 DEF ValueOf
<1>4. CASE places # {}
  <2>1. places \subseteq 1 .. Len(argv)
    BY <1>2
  <2>2. Max(places) \in places /\ \A i \in places : i <= Max(places)
    BY <1>1, <1>4, <2>1, MaxFacts
  <2>3. Max(places) \in 1 .. Len(argv) /\ Odd(Max(places)) /\ Max(places) < Len(argv)
        /\ argv[Max(places)] = option
    BY <1>2, <2>2
  <2>4. PICK j \in 1 .. Len(argv) :
          /\ Odd(j) /\ j < Len(argv) /\ argv[j] = option /\ argv[j + 1] = value
          /\ \A k \in 1 .. Len(argv) :
                Odd(k) /\ k < Len(argv) /\ argv[k] = option => k <= j
    BY <2>3 DEF Holds
  <2>5. j \in places
    BY <1>1, <2>4
  <2>6. j = Max(places)
    BY <1>1, <2>2, <2>3, <2>4, <2>5
  <2>7. ValueOf(argv, option, default) = argv[Max(places) + 1]
    BY <1>4 DEF ValueOf
  <2> QED
    BY <2>4, <2>6, <2>7
<1> QED
  BY <1>3, <1>4

\* The options that the loop has seen are the ones given.
LEMMA GivenRead ==
  ASSUME NEW argv \in Seq(STRING)
  PROVE  GivenUpTo(argv, Len(argv)) = Given(argv)
  BY NamesFacts DEF GivenUpTo, Given

\* A value that was given is a proper one, and the default stands for the rest.
LEMMA LastCaptureValue ==
  ASSUME NEW argv \in Seq(STRING), CapturePairs(argv), NEW option \in CaptureOptions, NEW default
  PROVE  LET value == ValueOf(argv, option, default)
         IN  IF option \in Given(argv) THEN CaptureValue(option, value) ELSE value = default
<1> DEFINE places == {i \in Names(argv) : argv[i] = option}
<1>1. /\ Len(argv) \in Nat /\ \A i : i \in Names(argv) <=> i \in 1 .. Len(argv) /\ Odd(i)
  BY NamesFacts
<1>2. option \in Given(argv) <=> places # {}
  BY DEF Given
<1>3. CASE places = {}
  BY <1>2, <1>3 DEF ValueOf
<1>4. CASE places # {}
  <2>1. places \subseteq 1 .. Len(argv)
    BY <1>1
  <2>2. Max(places) \in places
    BY <1>1, <1>4, <2>1, MaxFacts
  <2>3. Max(places) \in Names(argv) /\ argv[Max(places)] = option
    BY <2>2
  <2>4. CaptureValue(option, argv[Max(places) + 1])
    BY <2>3 DEF CapturePairs, Paired
  <2>5. ValueOf(argv, option, default) = argv[Max(places) + 1]
    BY <1>4 DEF ValueOf
  <2> QED
    BY <1>2, <1>4, <2>4, <2>5
<1> QED
  BY <1>3, <1>4

\* camstream-service runs exactly for the command lines that are pairs of a new
\* option and a proper value, finitely for the ones whose --buffers is not 0,
\* whatever texts the command line consists of (camstream-service main.cpp,
\* parse_arguments).
THEOREM ServiceCommandLine ==
  ASSUME NEW argv \in Seq(STRING)
  PROVE  LET loop == ServiceArguments(argv)
         IN  \/ loop.at = "refused" /\ ServiceAsks(argv) = "nonsense"
             \/ loop.at = "help" /\ ServiceAsks(argv) = "help"
             \/ /\ loop.at = "option"
                /\ ServiceAsks(argv) = IF Numbers[loop.config["--buffers"]] = 0
                                       THEN "continuous" ELSE "finite"
<1> DEFINE read == ServiceLoop(argv)[Len(argv)]
           loop == ServiceArguments(argv)
<1>1. LoopRead(ServiceGrammar, argv, Len(argv), read) /\ read \in LoopStates(ServiceGrammar, argv)
  BY ServiceReads DEF LoopRead
<1> HIDE DEF read
<1>2. read.at \in {"option", "value", "refused"}
  BY <1>1, ServiceGrammarFacts DEF LoopRead, LoopStates, HelpUpTo
<1>3. read.at = "option" <=> GstPairs(argv, 0)
  BY <1>1, ServicePairs DEF LoopRead
<1>4. CASE argv = <<"--help">>
  <2>1. loop = StoppedAt(read, "help")
    BY <1>4 DEF ServiceArguments, StoppedAt, read
  <2>2. loop.at = "help"
    BY <1>1, <2>1, StoppedState
  <2> QED
    BY <1>4, <2>2 DEF ServiceAsks
<1>5. CASE argv # <<"--help">> /\ read.at # "option"
  <2>1. loop = StoppedAt(read, "refused")
    BY <1>5 DEF ServiceArguments, StoppedAt, Refused, read
  <2>2. loop.at = "refused"
    BY <1>1, <2>1, StoppedState
  <2> QED
    BY <1>3, <1>5, <2>2 DEF ServiceAsks
<1>6. CASE argv # <<"--help">> /\ read.at = "option"
  <2>1. loop = read
    BY <1>6 DEF ServiceArguments, read
  <2>2. "--buffers" \in GstOptions /\ ServiceGrammar.defaults["--buffers"] = "0"
    BY DEF GstOptions, ServiceGrammar, ServiceDefaults
  <2>3. Holds(argv, Len(argv), "--buffers", "0", read.config["--buffers"])
    BY <1>1, <1>6, <2>2, ServiceGrammarFacts DEF LoopRead
  <2>4. ~Odd(Len(argv))
    BY <1>1, <1>6 DEF LoopRead, UpTo
  <2>5. read.config["--buffers"] = ValueOf(argv, "--buffers", "0")
    BY <2>3, <2>4, ValueRead
  <2>6. ServiceAsks(argv) = IF Numbers[read.config["--buffers"]] = 0
                            THEN "continuous" ELSE "finite"
    BY <1>3, <1>6, <2>5 DEF ServiceAsks
  <2> QED
    BY <1>6, <2>1, <2>6
<1> QED
  BY <1>2, <1>4, <1>5, <1>6

\* camstream-gst-test runs exactly for the command lines of such pairs that name
\* every required option, and tells help from nonsense as the command line read
\* as a whole does (camstream-gst-test main.cpp, parse_arguments).
THEOREM TestCommandLine ==
  ASSUME NEW argv \in Seq(STRING)
  PROVE  LET loop == TestArguments(argv)
         IN  \/ loop.at = "refused" /\ TestAsks(argv) = "nonsense"
             \/ loop.at = "help" /\ TestAsks(argv) = "help"
             \/ loop.at = "option" /\ TestAsks(argv) = "run"
<1> DEFINE read == TestLoop(argv)[Len(argv)]
           loop == TestArguments(argv)
<1>1. LoopRead(TestGrammar, argv, Len(argv), read) /\ read \in LoopStates(TestGrammar, argv)
  BY TestReads DEF LoopRead
<1> HIDE DEF read
<1>2. read.at \in {"option", "value", "refused", "help"}
  BY <1>1 DEF LoopStates
<1>3. read.at = "option" <=> GstPairs(argv, 1)
  BY <1>1, TestPairs DEF LoopRead
<1>4. read.at = "option" => read.seen = Given(argv)
  BY <1>1, GivenRead DEF LoopRead
<1> DEFINE correct(beginning) == GstPairs(beginning, 1)
<1>5. read.at = "help" <=> HelpAsked(argv, correct)
  <2>1. ASSUME NEW j \in 1 .. Len(argv)
        PROVE  correct(SubSeq(argv, 1, j - 1)) <=> UpTo(TestGrammar, argv, j - 1)
    <3> DEFINE beginning == SubSeq(argv, 1, j - 1)
    <3>1. /\ beginning \in Seq(STRING) /\ Len(beginning) = j - 1
          /\ UpTo(TestGrammar, beginning, j - 1) <=> UpTo(TestGrammar, argv, j - 1)
      BY BeginningRead
    <3> HIDE DEF beginning
    <3>2. correct(beginning) <=> UpTo(TestGrammar, argv, j - 1)
      BY <3>1, TestPairs
    <3> QED
      BY <3>2 DEF beginning
  <2> HIDE DEF correct
  <2> QED
    BY <1>1, <2>1, NamesFacts, TestGrammarFacts DEF LoopRead, HelpUpTo, HelpAsked
<1>6. TestAsks(argv) = IF HelpAsked(argv, correct) THEN "help"
                       ELSE IF GstPairs(argv, 1) /\ Required \subseteq Given(argv) THEN "run"
                       ELSE "nonsense"
  BY DEF TestAsks
<1> HIDE DEF correct
<1>7. loop = IF read.at = "help" \/ (read.at = "option" /\ Required \subseteq read.seen)
             THEN read ELSE Refused(read)
  BY DEF TestArguments, read
<1>8. Refused(read).at = "refused"
  BY <1>1, StoppedState DEF Refused, StoppedAt
<1>9. CASE read.at = "help"
  BY <1>1, <1>5, <1>6, <1>7, <1>9
<1>10. CASE read.at = "option"
  BY <1>1, <1>3, <1>4, <1>5, <1>6, <1>7, <1>8, <1>10
<1>11. CASE read.at \in {"value", "refused"}
  BY <1>1, <1>3, <1>5, <1>6, <1>7, <1>8, <1>11
<1> QED
  BY <1>2, <1>9, <1>10, <1>11

\* camstream-capture captures, lists, helps or refuses as the command line read as
\* a whole asks, and the last value given for an option is the one that it uses
\* (camstream-capture main.cpp, parse_arguments).
THEOREM CaptureCommandLine ==
  ASSUME NEW argv \in Seq(STRING)
  PROVE  LET loop == CaptureArguments(argv)
         IN  \/ loop.at = "refused" /\ CaptureAsks(argv) = "nonsense"
             \/ loop.at = "help" /\ CaptureAsks(argv) = "help"
             \/ /\ loop.at = "option"
                /\ CaptureAsks(argv) = IF "--format" \in loop.seen THEN "capture" ELSE "list"
                /\ CapturePairs(argv) /\ loop.seen = Given(argv)
                /\ \A option \in CaptureOptions :
                      loop.config[option] = ValueOf(argv, option, CaptureDefaults[option])
<1> DEFINE read == CaptureLoop(argv)[Len(argv)]
           loop == CaptureArguments(argv)
<1>1. LoopRead(CaptureGrammar, argv, Len(argv), read) /\ read \in LoopStates(CaptureGrammar, argv)
  BY CaptureReads DEF LoopRead
<1> HIDE DEF read
<1>2. read.at \in {"option", "value", "refused", "help"}
  BY <1>1 DEF LoopStates
<1>3. read.at = "option" <=> CapturePairs(argv)
  BY <1>1, CapturePairsRead DEF LoopRead
<1>4. read.at = "option" => read.seen = Given(argv)
  BY <1>1, GivenRead DEF LoopRead
<1>5. read.at = "help" <=> HelpAsked(argv, CapturePairs)
  <2>1. ASSUME NEW j \in 1 .. Len(argv)
        PROVE  CapturePairs(SubSeq(argv, 1, j - 1)) <=> UpTo(CaptureGrammar, argv, j - 1)
    <3> DEFINE beginning == SubSeq(argv, 1, j - 1)
    <3>1. /\ beginning \in Seq(STRING) /\ Len(beginning) = j - 1
          /\ UpTo(CaptureGrammar, beginning, j - 1) <=> UpTo(CaptureGrammar, argv, j - 1)
      BY BeginningRead
    <3> HIDE DEF beginning
    <3>2. CapturePairs(beginning) <=> UpTo(CaptureGrammar, argv, j - 1)
      BY <3>1, CapturePairsRead
    <3> QED
      BY <3>2 DEF beginning
  <2> QED
    BY <1>1, <2>1, NamesFacts, CaptureGrammarFacts DEF LoopRead, HelpUpTo, HelpAsked
<1>6. ASSUME read.at = "option", NEW option \in CaptureOptions
      PROVE  read.config[option] = ValueOf(argv, option, CaptureDefaults[option])
  <2>1. CaptureGrammar.defaults = CaptureDefaults
    BY DEF CaptureGrammar
  <2>2. Holds(argv, Len(argv), option, CaptureDefaults[option], read.config[option])
    BY <1>1, <1>6, <2>1, CaptureGrammarFacts DEF LoopRead
  <2>3. ~Odd(Len(argv))
    BY <1>1, <1>6 DEF LoopRead, UpTo
  <2> QED
    BY <2>2, <2>3, ValueRead
<1>7. loop = IF \/ read.at = "help"
                \/ /\ read.at = "option"
                   /\ "--format" \in read.seen \/ read.seen \subseteq {"--device"}
             THEN read ELSE Refused(read)
  BY DEF CaptureArguments, read
<1>8. Refused(read).at = "refused"
  BY <1>1, StoppedState DEF Refused, StoppedAt
<1>9. CASE read.at = "help"
  BY <1>5, <1>7, <1>9 DEF CaptureAsks
<1>10. CASE read.at = "option"
  <2>1. CaptureAsks(argv) = IF "--format" \in read.seen THEN "capture"
                            ELSE IF read.seen \subseteq {"--device"} THEN "list" ELSE "nonsense"
    BY <1>3, <1>4, <1>5, <1>10 DEF CaptureAsks
  <2>2. CASE "--format" \in read.seen \/ read.seen \subseteq {"--device"}
    BY <1>3, <1>4, <1>6, <1>7, <1>10, <2>1, <2>2
  <2>3. CASE ~("--format" \in read.seen \/ read.seen \subseteq {"--device"})
    BY <1>7, <1>8, <1>10, <2>1, <2>3
  <2> QED
    BY <2>2, <2>3
<1>11. CASE read.at \in {"value", "refused"}
  BY <1>3, <1>5, <1>7, <1>8, <1>11 DEF CaptureAsks
<1> QED
  BY <1>2, <1>9, <1>10, <1>11

================================================================================

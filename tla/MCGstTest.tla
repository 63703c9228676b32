------------------------------- MODULE MCGstTest -------------------------------
(* Runs GstTest with every GStreamer request allowed to fail, and beside it *)
(* the wrapper under an arbitrary serial caller.                            *)
EXTENDS GstTest

\* 8 stands for a numeral that fits a u32 but not a gint.
AllNumbers == [text \in {"0", "1", "8"} |-> CASE text = "0" -> 0 [] text = "1" -> 1 [] OTHER -> 8]

AllDashed == GstOptions \cup {"--help", "--other"}

Complete == <<"--device", "video0", "--format", "mjpeg", "--width", "1", "--height", "1",
              "--fps", "1", "--buffers", "1">>

Fragments ==
    {<<option, text>> : option \in GstOptions,
                        text \in {"", "0", "1", "8", "x", "yuy2", "true", "--sync"}}
        \cup {<<text>> : text \in GstOptions \cup {"--help", "--other", "x"}}

\* The complete command line with a fragment put in the place of any part of it.
AllArgumentLists ==
    {SubSeq(Complete, 1, i) \o fragment \o SubSeq(Complete, j, Len(Complete)) :
        i \in 0 .. Len(Complete), j \in 1 .. Len(Complete) + 1,
        fragment \in Fragments \cup {<<>>}}

\* The header allows any serial caller: this one calls what it likes.
AnyCallerInit ==
    /\ PipelineInit
    /\ asked = "any"
    /\ pc = "any"
    /\ wait_succeeded = FALSE
    /\ exit = "none"

AnyCaller == pc = "any" /\ Next /\ UNCHANGED testVars

MCInit == Init \/ AnyCallerInit

MCNext == TestNext \/ AnyCaller

MCSpec == MCInit /\ [][MCNext]_vars /\ WF_vars(Test)
================================================================================

------------------------------ MODULE MCV4l2Capture ------------------------------
(* Runs V4l2Capture with every call of the program allowed to fail, on the  *)
(* command lines of up to three options after --format and on short wrong   *)
(* ones.                                                                    *)
EXTENDS V4l2Capture

AllNumbers == [text \in {"0", "1", "2", "10"} |->
                  CASE text = "0" -> 0 [] text = "1" -> 1 [] text = "2" -> 2 [] OTHER -> 10]

AllDashed == CaptureOptions \cup {"--help", "--other"}

Arguments == AllDashed \cup {"", "0", "1", "2", "MJPG", "x"}

\* An option repeated with another value, an output file, a value left out.
Fragments ==
    {<<option, text>> : option \in {"--count", "--skip"}, text \in {"0", "1", "2"}}
        \cup {<<"--output", "--format">>, <<"--output", "">>, <<"--help">>, <<"--fps">>}

AllArgumentLists ==
    BoundedSeq(Arguments, 2)
        \cup {<<"--format", "MJPG">> \o a \o b \o c : a, b, c \in Fragments \cup {<<>>}}

AllFaults == {"open", "query", "format", "reqbufs", "mmap", "qbuf", "streamon", "output_format",
              "poll", "again", "dqbuf", "flagged", "metadata", "write", "streamoff", "munmap", "close"}
================================================================================

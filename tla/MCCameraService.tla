---------------------------- MODULE MCCameraService ----------------------------
(* Runs CameraService on every command line of up to two options and a few  *)
(* longer ones; finite and continuous services are among them.              *)
EXTENDS CameraService

\* 8 stands for a numeral that fits a u32 but not a gint.
AllNumbers == [text \in {"0", "1", "8"} |-> CASE text = "0" -> 0 [] text = "1" -> 1 [] OTHER -> 8]

AllDashed == GstOptions \cup {"--help", "--other"}

Arguments == GstOptions \cup {"--help", "--other", "", "0", "1", "8", "yuy2", "true", "x"}

AllArgumentLists ==
    BoundedSeq(Arguments, 3)
        \cup {<<"--buffers", count, option, value>> :
                 count \in {"0", "1"}, option \in Arguments, value \in Arguments}

AllFaults == {"mask", "signalfd", "busfd", "poll", "read", "ignore", "close", "restore",
              "interrupt", "spurious"}

\* A finite run, as short or as long as it likes.
FiniteRun == {<<"--buffers", "1">>}
================================================================================

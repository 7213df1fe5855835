-------------------------------- MODULE MCHost --------------------------------
(* Instances of Host for TLC. *)
EXTENDS Host, TLC

CONSTANTS p0, p1, p2, p3, s, c, d, alpine, busybox

Cmd(op, m, src, img, flag) ==
    [op |-> op, m |-> m, src |-> src, img |-> img, id |-> 1, flag |-> flag]

(* Names clash, sources come and go, and every command is there. *)
MixedCommands ==
    {Cmd("run", c, s, busybox, TRUE), Cmd("run", d, s, busybox, FALSE),
     Cmd("branch", c, s, alpine, FALSE), Cmd("branch", d, s, alpine, FALSE),
     Cmd("restore", d, s, alpine, FALSE), Cmd("stop", c, s, alpine, FALSE),
     Cmd("rm", c, s, alpine, FALSE), Cmd("rm", d, s, alpine, TRUE),
     Cmd("snapshot", s, s, alpine, FALSE), Cmd("snaprm", s, s, alpine, FALSE),
     Cmd("gc", s, s, alpine, FALSE), Cmd("branch", d, c, alpine, FALSE)}

(* Two branches of one source. *)
TwoBranches == {Cmd("branch", c, s, alpine, FALSE), Cmd("branch", d, s, alpine, FALSE)}

Invocations == Permutations({p1, p2, p3})
===============================================================================

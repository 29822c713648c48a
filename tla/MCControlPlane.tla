--------------------------- MODULE MCControlPlane ---------------------------
(***************************************************************************)
(* Instances of ControlPlane for TLC: one handler of each kind.            *)
(***************************************************************************)
EXTENDS ControlPlane

MCRequests ==
    {<<Op("execution", TRUE)>>, <<Op("permission", "autonomous")>>,
     <<Op("governance", "degraded_repair")>>, <<Op("authority", "builder")>>,
     <<Op("engage", 0)>>, <<Op("release", 0), Op("note", TRUE)>>, <<Op("cycle", 0)>>,
     <<Op("posture", "builder"), Op("authority", "builder"),
       Op("governance", "unlocked"), Op("note", TRUE)>>}

Symmetry == Permutations(Threads)
=============================================================================

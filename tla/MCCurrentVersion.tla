-------------------------- MODULE MCCurrentVersion --------------------------
(***************************************************************************)
(* Four releases that are listed, two of them of the same minor version,   *)
(* one that has only a target x.y.z and one without a minor version.       *)
(***************************************************************************)
EXTENDS CurrentVersion

CONSTANT NoVersion   \* of a name without a minor part

MCRelease(name, version, targets) ==
    [name |-> name, version |-> version, targets |-> targets]

MCReleases ==
    { MCRelease("4.5", 405, {"x.y.z"}),
      MCRelease("4.6", 406, {"x.y.0", "x.y.z"}), MCRelease("4.6.1", 406, {"x.y.0"}),
      MCRelease("4.7", 407, {"x.y.0"}), MCRelease("4.10", 410, {"x.y.0"}),
      MCRelease("next", NoVersion, {"x.y.0"}) }
=============================================================================

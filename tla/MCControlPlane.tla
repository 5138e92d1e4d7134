--------------------------- MODULE MCControlPlane ---------------------------
(***************************************************************************)
(* Requests on one video for TLC: publications, immediate and scheduled,   *)
(* with the right confirmation and a wrong one, an update of madeForKids,  *)
(* an upload that asks for public, which only the server refuses, and a    *)
(* public playlist.                                                        *)
(***************************************************************************)
EXTENDS ControlPlane

CONSTANT v1

Plain(action, privacy) ==
    [action |-> action, video |-> v1, privacy |-> privacy, at |-> FALSE,
     confirms |-> privacy, kids |-> FALSE]

Publish == Plain("publishVideo", "public")
Hide    == Plain("publishVideo", "private")

Requests ==
    {Publish, Hide, [Hide EXCEPT !.at = TRUE], [Publish EXCEPT !.confirms = "private"],
     [Plain("updateVideo", "private") EXCEPT !.kids = TRUE],
     Plain("startUpload", "public"), Plain("createPlaylist", "public")}

=============================================================================

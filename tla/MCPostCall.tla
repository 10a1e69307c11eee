----------------------------- MODULE MCPostCall -----------------------------
(* Small instances of PostCall for TLC.                                    *)
EXTENDS PostCall

\* Rejections once processPostCallJob or a salvage is under way.
AfterLoad == {"load", "transcribe", "look", "fail", "post"} \cup Persisting
=============================================================================

----------------------------- MODULE MCUploads ------------------------------
(* Files and clients for TLC.                                              *)
EXTENDS UploadProperties

CONSTANTS f1, f2, p1

\* All files have one name; their contents differ.  f1 is the browser's.
OneName == [f \in File |-> p1]
Parts == [f \in File |-> IF f = f1 THEN 3 ELSE 2]

Mp4 == [streams |-> {"video", "audio"}, codec |-> "h264", formats |-> <<"mov", "mp4">>]
Song == [streams |-> {"audio"}, codec |-> "none", formats |-> <<"mp3">>]
Probes == [f \in File |-> IF f = f1 THEN Mp4 ELSE Song]
=============================================================================

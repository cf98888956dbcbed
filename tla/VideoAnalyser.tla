--------------------------- MODULE VideoAnalyser ----------------------------
(***************************************************************************)
(* What the api makes of the output of ffprobe                             *)
(* (api/src/video-analyser): the description of a supported file, or an    *)
(* error.  A probe is a record with the types of the streams, the codec of *)
(* the video stream and the formats of the container in ffprobe's order.   *)
(***************************************************************************)
EXTENDS Naturals, Sequences

Unsupported == [isSupported |-> FALSE]

VideoFileContainer == {"mp4", "webm", "mov", "mkv"}
AudioFileContainer == {"mp3", "wav", "aac"}

\* The codecs of videoCodecMap, named as ffprobe names them.
KnownCodec == {"h264", "h265", "vp8", "vp9"}

\* The first of the formats that is a video container.
IsVideoContainerOf(c, formats) ==
    \E i \in 1..Len(formats) : /\ c = formats[i]
                               /\ c \in VideoFileContainer
                               /\ \A j \in 1..(i - 1) : formats[j] \notin VideoFileContainer

\* The metadata analyzeFile returns for a probe; where it throws, the caller
\* stores that the file is not supported.  A video without sound is an error.
Descriptions(probe) ==
    LET video == {[isSupported |-> TRUE, type |-> "video", container |-> c, codec |-> probe.codec] :
                     c \in {c \in VideoFileContainer :
                               /\ {"video", "audio"} \subseteq probe.streams
                               /\ probe.codec \in KnownCodec
                               /\ IsVideoContainerOf(c, probe.formats)}}
        audio == {[isSupported |-> TRUE, type |-> "audio", container |-> c] :
                     c \in {c \in AudioFileContainer :
                               /\ "video" \notin probe.streams /\ "audio" \in probe.streams
                               /\ probe.formats = <<c>>}}
    IN  video \cup audio

analyzeFile(probe) ==
    IF Descriptions(probe) = {} THEN Unsupported ELSE CHOOSE d \in Descriptions(probe) : TRUE
=============================================================================

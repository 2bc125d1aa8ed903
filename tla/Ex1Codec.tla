------------------------------ MODULE Ex1Codec ------------------------------
(***************************************************************************)
(* Ex.1/Polyalphabetic_encoder: encode.c reads a source file and writes its*)
(* encoding to a destination file; decode.c reads the destination file and *)
(* writes back the source file.  Runs of both share the two files.         *)
(***************************************************************************)
EXTENDS PolyCodec

CONSTANTS Coders,    \* runs of the two programs
          Program,   \* run -> "encode", "decode", or another program
          Key,       \* the key in both mains
          Originals, \* what the source file may hold at the beginning
          Missing,   \* content of a file that does not exist
          Garbage    \* bytes a search behind the key may give

ASSUME CodecAssumption ==
  /\ \A p \in Coders : Program[p] \in {"encode", "decode"}
  /\ ValidKey(Key) /\ Originals \subseteq Seq(1..127) /\ Garbage \subseteq Byte

VARIABLES original,  \* what the source file held at the beginning
          file,      \* the source file "src" and the destination file "dst"
          pc,        \* where each run is
          textin, fileSize,
          disturbed  \* history: runs that others may have disturbed, see Start

coder_vars == <<textin, fileSize>>

CodecInit ==
  /\ original \in Originals
  /\ file = [src |-> original, dst |-> Missing]
  /\ textin = [p \in Coders |-> <<>>]
  /\ fileSize = [p \in Coders |-> 0]

Idle == {"new", "done", "failed"}

Go(p, from, to) == pc[p] = from /\ pc' = [pc EXCEPT ![p] = to]

\* readFile of encode reads src, and dst in the end; readFile of decode reads dst.
Input(p) == IF Program[p] = "decode" \/ pc[p] \in {"check", "check read"} THEN "dst" ELSE "src"

\* Deviation: encode writes over the text that it has read.
OutputInPlace(p) == "src"

Output(p) == IF Program[p] = "encode" THEN "dst" ELSE "src"

\* free at the end of main, or exit
FreeTexts(p) ==
  /\ textin' = [textin EXCEPT ![p] = <<>>]
  /\ fileSize' = [fileSize EXCEPT ![p] = 0]

\* readFile: fopen, fseek, ftell
OpenAndMeasure(p) ==
  /\ \/ Go(p, "open", IF file[Input(p)] = Missing THEN "failed" ELSE "read")
     \/ Go(p, "check", "check read")
  /\ fileSize' = [fileSize EXCEPT ![p] = IF file[Input(p)] = Missing THEN 0
                                         ELSE Len(file[Input(p)])]
  /\ UNCHANGED <<file, textin>>

\* readFile: fread; when the file is shorter by now main exits.
ReadText(p) ==
  /\ LET short == Len(file[Input(p)]) < fileSize[p] IN
       \/ /\ ~short /\ Go(p, "read", "create")
          /\ textin' = [textin EXCEPT ![p] = SubSeq(file[Input(p)], 1, fileSize[p])]
          /\ UNCHANGED fileSize
       \/ /\ \/ short /\ (Go(p, "read", "failed") \/ Go(p, "check read", "failed"))
             \/ ~short /\ Go(p, "check read", "done")
          /\ FreeTexts(p)
  /\ UNCHANGED file

\* writeToFile: fopen "w" empties the file.
CreateOutput(p) ==
  /\ Go(p, "create", "flush")
  /\ file' = [file EXCEPT ![Output(p)] = <<>>]
  /\ UNCHANGED coder_vars

\* writeToFile: fprintf "%s" of the converted text, fclose; encode looks at dst.
WriteOutput(p) ==
  /\ Go(p, "flush", IF Program[p] = "encode" THEN "check" ELSE "done")
  /\ \E g \in [DOMAIN textin[p] -> Garbage] :
       LET textout == IF Program[p] = "encode" THEN Encode(Key, textin[p])
                                               ELSE Decode(Key, textin[p], g) IN
       file' = [file EXCEPT ![Output(p)] = Overlay(@, CString(textout))]
  /\ IF Program[p] = "encode" THEN UNCHANGED coder_vars ELSE FreeTexts(p)

\* The run is stopped from outside, at any point: what it has not flushed is
\* lost with it, and a file that it has emptied stays empty.
StopCoder(p) ==
  /\ pc[p] \notin Idle
  /\ pc' = [pc EXCEPT ![p] = "failed"]
  /\ FreeTexts(p)
  /\ UNCHANGED file

CoderNext(p) ==
  /\ OpenAndMeasure(p) \/ ReadText(p) \/ CreateOutput(p) \/ WriteOutput(p) \/ StopCoder(p)
  /\ UNCHANGED <<original, disturbed>>

=============================================================================

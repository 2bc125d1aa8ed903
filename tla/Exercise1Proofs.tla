--------------------------- MODULE Exercise1Proofs ---------------------------
(***************************************************************************)
(* Proofs about the codec and the archive programs of Ex.1, for every key, *)
(* every text and every set of runs.                                       *)
(***************************************************************************)
EXTENDS Exercise1, WellFoundedInduction, TLAPS

(* The codec.                                                              *)

\* A character of the key is found where it is.
LEMMA LookupFinds ==
  ASSUME NEW key, ValidKey(key), NEW from \in {0, 26}, NEW i \in from..61,
         NEW first \in Nat, first + i - from <= 255, NEW g
  PROVE  Lookup(key, from, key[i], first, g) = first + i - from
<1>1. i \in 0..61 /\ \A n \in from..61 : n \in 0..61
  OBVIOUS
<1>2. \A n \in from..61 : key[n] = key[i] => n = i
  BY <1>1 DEF ValidKey
<1>3. \A j \in from..(i - 1) : j \in from..61 /\ j # i
  BY <1>1
<1> DEFINE n == CHOOSE k \in from..61 : key[k] = key[i] /\ \A j \in from..(k - 1) : key[j] # key[i]
<1>4. \E k \in from..61 : key[k] = key[i] /\ \A j \in from..(k - 1) : key[j] # key[i]
  BY <1>2, <1>3
<1>5. n \in from..61 /\ key[n] = key[i]
  BY <1>4
<1>6. n = i
  BY <1>2, <1>5
<1> HIDE DEF n
<1>7. Lookup(key, from, key[i], first, g) = (first + n - from) % 256
  BY DEF Lookup, n
<1> QED  BY <1>1, <1>6, <1>7

\* decode finds each of the Survivors again.
LEMMA CharComesBack ==
  ASSUME NEW key, ValidKey(key), NEW c \in Survivors(key), NEW g
  PROVE  DecodeChar(key, EncodeChar(key, c), g) = c
<1> USE DEF Lower, Upper, Digits
<1>1. CASE c \in Lower /\ key[c - 97] \in Lower
  <2>1. PICK i \in 0..61 : i = c - 97 /\ i <= 25
    BY <1>1
  <2>2. Lookup(key, 0, key[i], 97, g) = 97 + i - 0
    BY <2>1, LookupFinds
  <2>3. EncodeChar(key, c) = key[i] /\ c = 97 + i - 0
    BY <1>1, <2>1 DEF EncodeChar
  <2> QED  BY <1>1, <2>1, <2>2, <2>3 DEF DecodeChar
<1>2. CASE c \in Upper /\ key[c - 65 + 26] \in Upper
  <2>1. PICK i \in 26..61 : i = c - 65 + 26 /\ i <= 51
    BY <1>2
  <2>2. Lookup(key, 26, key[i], 65, g) = 65 + i - 26
    BY <2>1, LookupFinds
  <2>3. EncodeChar(key, c) = key[i] /\ c = 65 + i - 26
    BY <1>2, <2>1 DEF EncodeChar
  <2> QED  BY <1>2, <2>1, <2>2, <2>3 DEF DecodeChar
<1>3. CASE c \in 1..127 /\ c \notin Lower \cup Upper \cup Digits
  BY <1>3 DEF EncodeChar, DecodeChar
<1> QED  BY <1>1, <1>2, <1>3 DEF Survivors

(***************************************************************************)
(* decode is the inverse of encode on texts of Survivors, whatever bytes   *)
(* are found behind the key (encriptor.c:29, 60).                          *)
(***************************************************************************)
THEOREM DecodeInvertsEncode ==
  ASSUME NEW key, ValidKey(key), NEW text \in Seq(Survivors(key)), NEW g
  PROVE  Decode(key, Encode(key, text), g) = text
<1>1. DOMAIN Encode(key, text) = DOMAIN text
      /\ \A k \in DOMAIN text : Encode(key, text)[k] = EncodeChar(key, text[k])
  BY DEF Encode
<1>2. \A k \in DOMAIN text : text[k] \in Survivors(key)
  OBVIOUS
<1>3. \A k \in DOMAIN text : DecodeChar(key, EncodeChar(key, text[k]), g[k]) = text[k]
  BY <1>2, CharComesBack
<1>4. Decode(key, Encode(key, text), g) = [k \in DOMAIN text |-> text[k]]
  BY <1>1, <1>3 DEF Decode
<1>5. text = [k \in DOMAIN text |-> text[k]]
  OBVIOUS
<1> QED  BY <1>4, <1>5

-----------------------------------------------------------------------------
(* Temporary files.                                                        *)

\* The labels of all programs.
Labels == {"new", "open", "read", "create", "flush", "check", "check read", "tar", "gzip", "gpg",
           "tar read", "gzip read", "gpg read", "tar write", "gzip write", "gpg write",
           "mkstemp", "mkdir", "unlink 1", "unlink 2", "done", "failed"}

FirstUnlinked(p) == IF Program[p] = "myzip" THEN "temp_tar_file" ELSE "temp_compress_file"

(***************************************************************************)
(* A name refers to the file of a run only while this run is under way:    *)
(* only a run itself gives a name to a file of its own, when it opens its  *)
(* output, and then it unlinks both names, or they refer to other files.   *)
(***************************************************************************)
NamesInv ==
  /\ pc \in [Runs -> Labels]
  /\ dir \in [Names -> Zippers \cup {NoFile}]
  /\ \A p \in Zippers : /\ pc[p] = "unlink 2" => dir[FirstUnlinked(p)] # p
                        /\ pc[p] = "done" => \A n \in TempNames : dir[n] # p

LEMMA NamesInit == Init => NamesInv
  BY ZipAssumption DEF Init, ZipInit, NamesInv, Runs, Names, TempNames, FirstUnlinked, Labels

\* Nothing but its own opening makes a name refer to a file of p.
LEMMA NamesKept ==
  ASSUME NamesInv, pc' \in [Runs -> Labels], dir' \in [Names -> Zippers \cup {NoFile}],
         \A p \in Zippers : \A n \in TempNames : dir[n] # p => dir'[n] # p \/ pc'[p] \notin {"unlink 2", "done"},
         \A p \in Zippers : pc'[p] = "unlink 2" => pc[p] = "unlink 2" \/ dir'[FirstUnlinked(p)] # p,
         \A p \in Zippers : pc'[p] = "done" => pc[p] = "done" \/ \A n \in TempNames : dir'[n] # p
  PROVE  NamesInv'
<1>1. \A p \in Zippers : FirstUnlinked(p) \in TempNames
  BY DEF FirstUnlinked, TempNames, Names
<1> QED  BY <1>1 DEF NamesInv, FirstUnlinked

\* A step of a run that changes no name, and does not lead to the unlinking's end.
LEMMA NamesOther ==
  ASSUME NamesInv, NEW p \in Runs, NEW there \in Labels, UNCHANGED dir,
         pc' = [pc EXCEPT ![p] = there], p \in Zippers => there \notin {"unlink 2", "done"}
  PROVE  NamesInv'
<1>1. pc \in [Runs -> Labels] /\ Zippers \subseteq Runs
  BY DEF NamesInv, Runs
<1>2. pc' \in [Runs -> Labels] /\ dir' \in [Names -> Zippers \cup {NoFile}]
  BY <1>1 DEF NamesInv
<1>3. \A q \in Zippers : pc'[q] \in {"unlink 2", "done"} => pc'[q] = pc[q]
  BY <1>1
<1> QED  BY <1>2, <1>3, NamesKept

\* The outputs of the commands, and the labels behind them.
LEMMA CommandTable ==
  ASSUME NEW p, NEW layer \in Layers
  PROVE  /\ Command(p)[layer].to \in Names \cup {"directory"}
         /\ Command(p)[layer].next \in Labels \ {"unlink 2", "done"}
         /\ Reading[layer] \in Labels \ {"unlink 2", "done"}
         /\ Writing[layer] \in Labels \ {"unlink 2", "done"}
<1>1. /\ Reading[layer] \in Labels \ {"unlink 2", "done"}
      /\ Writing[layer] \in Labels \ {"unlink 2", "done"}
  <2>1. CASE layer = "tar"
    BY <2>1 DEF Reading, Writing, Labels
  <2>2. CASE layer = "gzip"
    BY <2>2 DEF Reading, Writing, Labels
  <2>3. CASE layer = "gpg"
    BY <2>3 DEF Reading, Writing, Labels
  <2> QED  BY <2>1, <2>2, <2>3 DEF Layers
<1>2. /\ MyzipCommands[layer].to \in Names
      /\ MyzipCommands[layer].next \in Labels \ {"unlink 2", "done"}
  <2>1. CASE layer = "tar"
    BY <2>1 DEF MyzipCommands, Step, Names, Labels
  <2>2. CASE layer = "gzip"
    BY <2>2 DEF MyzipCommands, Step, Names, Labels
  <2>3. CASE layer = "gpg"
    BY <2>3 DEF MyzipCommands, Step, Names, Labels
  <2> QED  BY <2>1, <2>2, <2>3 DEF Layers
<1>3. /\ MyunzipCommands[layer].to \in Names \cup {"directory"}
      /\ MyunzipCommands[layer].next \in Labels \ {"unlink 2", "done"}
  <2>1. CASE layer = "tar"
    BY <2>1 DEF MyunzipCommands, Step, Names, Labels
  <2>2. CASE layer = "gzip"
    BY <2>2 DEF MyunzipCommands, Step, Names, Labels
  <2>3. CASE layer = "gpg"
    BY <2>3 DEF MyunzipCommands, Step, Names, Labels
  <2> QED  BY <2>1, <2>2, <2>3 DEF Layers
<1> QED  BY <1>1, <1>2, <1>3 DEF Command

LEMMA NamesOpen ==
  ASSUME NamesInv, NEW p \in Zippers, OpenCommand(p)
  PROVE  NamesInv'
<1>1. PICK layer \in Layers :
        LET c == Command(p)[layer] IN
        c.to # "directory" /\ Go(p, layer, Reading[layer]) /\ OpenOutput(p, c.to)
  BY DEF OpenCommand
<1> DEFINE c == Command(p)[layer]
<1>2. c.to \in Names
  <2>1. c.to \in Names \cup {"directory"}
    BY CommandTable
  <2> QED  BY <1>1, <2>1
<1>3. Reading[layer] \in Labels /\ Reading[layer] \notin {"unlink 2", "done"}
  BY CommandTable
<1>4. p \in Runs /\ pc \in [Runs -> Labels] /\ dir \in [Names -> Zippers \cup {NoFile}]
  BY DEF Runs, NamesInv
<1> HIDE DEF c
<1>5. Go(p, layer, Reading[layer]) /\ OpenOutput(p, c.to)
  BY <1>1 DEF c
<1>6. pc' = [pc EXCEPT ![p] = Reading[layer]]
  BY <1>5 DEF Go
<1>7. dir' = [dir EXCEPT ![c.to] = IF dir[c.to] = NoFile THEN p ELSE dir[c.to]]
  BY <1>5 DEF OpenOutput
<1>8. pc' \in [Runs -> Labels] /\ dir' \in [Names -> Zippers \cup {NoFile}]
  BY <1>6, <1>7, <1>2, <1>3, <1>4
<1>9. pc'[p] \notin {"unlink 2", "done"} /\ \A q \in Zippers \ {p} : q \in Runs /\ pc'[q] = pc[q]
  BY <1>6, <1>3, <1>4 DEF Runs
<1>10. \A n \in Names : \A q \in Zippers \ {p} : dir[n] # q => dir'[n] # q
  BY <1>7, <1>2, <1>4
<1> QED  BY <1>8, <1>9, <1>10, NamesKept DEF TempNames

LEMMA NamesUnlink ==
  ASSUME NamesInv, NEW p \in Zippers, UnlinkTemporary(p)
  PROVE  NamesInv'
<1>1. p \in Runs /\ Zippers \subseteq Runs /\ pc \in [Runs -> Labels]
      /\ dir \in [Names -> Zippers \cup {NoFile}] /\ NoFile \notin Zippers
  BY ZipAssumption DEF Runs, NamesInv
<1>2. FirstUnlinked(p) \in TempNames /\ TempNames \subseteq Names
  BY DEF FirstUnlinked, TempNames, Names
<1>3. CASE Go(p, "unlink 1", "unlink 2") /\ dir' = [dir EXCEPT ![FirstUnlinked(p)] = NoFile]
  <2>1. pc' = [pc EXCEPT ![p] = "unlink 2"]
    BY <1>3 DEF Go
  <2>2. pc' \in [Runs -> Labels] /\ dir' \in [Names -> Zippers \cup {NoFile}]
    BY <2>1, <1>1, <1>2, <1>3 DEF Labels
  <2>3. dir'[FirstUnlinked(p)] # p /\ pc'[p] = "unlink 2" /\ \A q \in Zippers \ {p} : pc'[q] = pc[q]
    BY <2>1, <1>1, <1>2, <1>3 DEF Labels
  <2>4. \A n \in TempNames : \A q \in Zippers : dir[n] # q => dir'[n] # q
    BY <1>1, <1>2, <1>3
  <2> QED  BY <2>2, <2>3, <2>4, NamesKept
<1>4. CASE Go(p, "unlink 2", "done")
           /\ \E n \in TempNames \ {FirstUnlinked(p)} : dir' = [dir EXCEPT ![n] = NoFile]
  <2>1. pc[p] = "unlink 2" /\ pc' = [pc EXCEPT ![p] = "done"]
    BY <1>4 DEF Go
  <2>2. PICK m \in TempNames \ {FirstUnlinked(p)} : dir' = [dir EXCEPT ![m] = NoFile]
    BY <1>4
  <2>3. pc' \in [Runs -> Labels] /\ dir' \in [Names -> Zippers \cup {NoFile}]
    BY <2>1, <2>2, <1>1, <1>2 DEF Labels
  <2>4. TempNames = {FirstUnlinked(p), m}
    BY <2>2 DEF FirstUnlinked, TempNames, Names
  <2>5. dir[FirstUnlinked(p)] # p
    BY <2>1 DEF NamesInv
  <2>6. \A n \in TempNames : dir'[n] # p
    BY <2>2, <2>4, <2>5, <1>1, <1>2
  <2>7. pc'[p] = "done" /\ \A q \in Zippers \ {p} : pc'[q] = pc[q]
    BY <2>1, <1>1
  <2>8. \A n \in TempNames : \A q \in Zippers : dir[n] # q => dir'[n] # q
    BY <2>2, <1>1, <1>2
  <2> QED  BY <2>3, <2>6, <2>7, <2>8, NamesKept
<1> QED  BY <1>3, <1>4 DEF UnlinkTemporary, FirstUnlinked

LEMMA CommandsGo ==
  ASSUME NEW p \in Zippers,
         \/ TarReads(p) \/ ReadCommand(p) \/ WriteCommand(p)
         \/ MkstempOrMkdir(p) \/ Extract(p) \/ FailOrStop(p)
  PROVE  UNCHANGED pc \/ \E there \in Labels \ {"unlink 2", "done"} : pc' = [pc EXCEPT ![p] = there]
<1>1. CASE TarReads(p)
  BY <1>1 DEF TarReads, Go, Labels
<1>2. CASE ReadCommand(p)
  <2>1. PICK layer \in {"gzip", "gpg"} : Go(p, Reading[layer], Writing[layer])
    BY <1>2 DEF ReadCommand
  <2>2. Writing[layer] \in Labels \ {"unlink 2", "done"}
    BY CommandTable DEF Layers
  <2> QED  BY <2>1, <2>2 DEF Go
<1>3. CASE WriteCommand(p)
  <2>1. PICK layer \in Layers : Go(p, Writing[layer], Command(p)[layer].next)
    BY <1>3 DEF WriteCommand
  <2>2. Command(p)[layer].next \in Labels \ {"unlink 2", "done"}
    BY CommandTable
  <2> QED  BY <2>1, <2>2 DEF Go
<1>4. CASE MkstempOrMkdir(p)
  BY <1>4 DEF MkstempOrMkdir, Go, Labels
<1>5. CASE Extract(p)
  BY <1>5 DEF Extract, Go, Labels
<1>6. CASE FailOrStop(p)
  BY <1>6 DEF FailOrStop, Labels
<1> QED  BY <1>1, <1>2, <1>3, <1>4, <1>5, <1>6

LEMMA NamesCommands ==
  ASSUME NamesInv, NEW p \in Zippers,
         \/ TarReads(p) \/ ReadCommand(p) \/ WriteCommand(p)
         \/ MkstempOrMkdir(p) \/ Extract(p) \/ FailOrStop(p)
  PROVE  NamesInv'
<1>1. UNCHANGED dir
  BY DEF TarReads, ReadCommand, WriteCommand, MkstempOrMkdir, Extract, FailOrStop, zip_vars
<1>2. UNCHANGED pc \/ \E there \in Labels \ {"unlink 2", "done"} : pc' = [pc EXCEPT ![p] = there]
  BY CommandsGo
<1>3. CASE UNCHANGED pc
  BY <1>1, <1>3 DEF NamesInv, FirstUnlinked
<1>4. CASE \E there \in Labels \ {"unlink 2", "done"} : pc' = [pc EXCEPT ![p] = there]
  BY <1>1, <1>4, NamesOther DEF Runs
<1> QED  BY <1>2, <1>3, <1>4

LEMMA ZipGoes ==
  ASSUME NEW p \in Zippers, ZipNext(p)
  PROVE  UNCHANGED pc \/ \E there \in Labels : pc' = [pc EXCEPT ![p] = there]
<1>1. CASE OpenCommand(p)
  <2>1. PICK layer \in Layers : Go(p, layer, Reading[layer])
    BY <1>1 DEF OpenCommand
  <2>2. Reading[layer] \in Labels
    BY CommandTable
  <2> QED  BY <2>1, <2>2 DEF Go
<1>2. CASE UnlinkTemporary(p)
  BY <1>2 DEF UnlinkTemporary, Go, Labels
<1> QED  BY <1>1, <1>2, CommandsGo DEF ZipNext

LEMMA NamesCoders ==
  ASSUME NamesInv, NEW p \in Coders, CoderNext(p), UNCHANGED zip_vars
  PROVE  NamesInv'
<1>1. \E there \in Labels : pc' = [pc EXCEPT ![p] = there]
  BY DEF CoderNext, OpenAndMeasure, ReadText, CreateOutput, WriteOutput, StopCoder, Go, Labels
<1> QED  BY <1>1, NamesOther, ZipAssumption DEF Runs, zip_vars

LEMMA NamesStart ==
  ASSUME NamesInv, NEW p \in Runs, Start(p)
  PROVE  NamesInv'
<1>1. \E there \in Labels \ {"unlink 2", "done"} : pc' = [pc EXCEPT ![p] = there]
  BY DEF Start, Go, Labels
<1> QED  BY <1>1, NamesOther DEF Start, zip_vars

(***************************************************************************)
(* A run that ended well has left no temporary file, whatever other runs   *)
(* did with the names it uses.                                             *)
(***************************************************************************)
THEOREM NothingLeft == Spec => []NoLeftovers
<1>1. NamesInv /\ [Next]_vars => NamesInv'
  <2> SUFFICES ASSUME NamesInv, [Next]_vars PROVE NamesInv'
    OBVIOUS
  <2>1. CASE \E p \in Runs : Start(p)
    BY <2>1, NamesStart
  <2>2. CASE \E p \in Coders : CoderNext(p) /\ UNCHANGED zip_vars
    BY <2>2, NamesCoders
  <2>3. CASE \E p \in Zippers : ZipNext(p)
    BY <2>3, NamesOpen, NamesCommands, NamesUnlink DEF ZipNext
  <2>4. CASE UNCHANGED vars
    BY <2>4 DEF vars, zip_vars, NamesInv, FirstUnlinked
  <2> QED  BY <2>1, <2>2, <2>3, <2>4 DEF Next
<1>2. NamesInv => NoLeftovers
  <2> SUFFICES ASSUME NamesInv, NEW n \in TempNames, dir[n] # NoFile PROVE pc[dir[n]] # "done"
    BY DEF NoLeftovers
  <2>1. dir[n] \in Zippers
    BY DEF NamesInv, TempNames
  <2> QED  BY <2>1 DEF NamesInv
<1> QED  BY NamesInit, <1>1, <1>2, PTL DEF Spec

-----------------------------------------------------------------------------
(* The two files of the codec.                                             *)

Encoders == {p \in Coders : Program[p] = "encode"}
Decoders == {p \in Coders : Program[p] = "decode"}
Encoded == Encode(Key, original)
Undisturbed == disturbed \cap Coders = {}

\* A run of decode that is under way beside another coder is disturbed.
Overlaps ==
  \A d \in Decoders \cap Active : \A q \in (Coders \cap Active) \ {d} : d \in disturbed

(***************************************************************************)
(* Each of the two files is complete or empty, and one of them is complete;*)
(* what a run that is under way reads from is complete, and so is what it  *)
(* has read.  A run that is stopped while its output is empty leaves it so;*)
(* the next run that would read it is disturbed by that.                   *)
(***************************************************************************)
Consistent ==
  /\ file["dst"] \in {Missing, <<>>, Encoded} /\ file["src"] \in {<<>>, original}
  /\ file["src"] = original \/ file["dst"] = Encoded
  /\ \A e \in Encoders :
       /\ pc[e] \notin Idle => file["src"] = original
       /\ pc[e] = "read" => fileSize[e] = Len(original)
       /\ pc[e] \in {"create", "flush"} => textin[e] = original
       /\ pc[e] = "flush" => file["dst"] # Missing
  /\ \A d \in Decoders :
       /\ pc[d] \notin Idle => file["dst"] \in {Missing, Encoded}
       /\ pc[d] = "read" => fileSize[d] = Len(Encoded)
       /\ pc[d] \in {"create", "flush"} => textin[d] = Encoded
       /\ pc[d] \in {"read", "create", "flush"} => file["dst"] = Encoded
       /\ pc[d] = "flush" => file["src"] = <<>>

CodecInv ==
  /\ original \in Originals
  /\ pc \in [Runs -> Labels]
  /\ DOMAIN file = Files /\ file = [f \in Files |-> file[f]]
  /\ textin = [p \in Coders |-> textin[p]]
  /\ fileSize = [p \in Coders |-> fileSize[p]]
  /\ Overlaps
  /\ Undisturbed => Consistent

LEMMA CodersByProgram ==
  /\ Encoders \cup Decoders = Coders /\ Encoders \cap Decoders = {}
  /\ OfProgram({"decode"}) = Decoders
  /\ Coders \subseteq Runs /\ Zippers \subseteq Runs /\ Coders \cap Zippers = {}
  BY CodecAssumption, ZipAssumption DEF Encoders, Decoders, OfProgram, Runs

\* The characters of a text; 0 is none of them.
Ascii == 1..127

\* Sequences as functions, over sets of which the provers need not know more.
LEMMA SeqElements ==
  ASSUME NEW S, NEW s \in Seq(S)
  PROVE  /\ Len(s) \in Nat /\ DOMAIN s = 1..Len(s) /\ s \in [1..Len(s) -> S]
         /\ SubSeq(s, 1, Len(s)) = s
  OBVIOUS

LEMMA SeqOf ==
  ASSUME NEW S, NEW n \in Nat, NEW s \in [1..n -> S]
  PROVE  s \in Seq(S)
  OBVIOUS

LEMMA AsciiBytes == Seq(Ascii) \subseteq Seq(Byte)
<1>1. Ascii \subseteq Byte
  BY DEF Ascii, Byte
<1> QED  BY <1>1, SeqElements, SeqOf

LEMMA NoZeros ==
  ASSUME NEW s \in Seq(Ascii)
  PROVE  CString(s) = s
<1>1. \A k \in DOMAIN s : s[k] # 0
  <2>1. \A k \in DOMAIN s : s[k] \in Ascii
    BY SeqElements
  <2>2. \A c \in Ascii : c # 0
    BY DEF Ascii
  <2> QED  BY <2>1, <2>2
<1> DEFINE zeros == {k \in DOMAIN s : s[k] = 0}
<1>2. zeros = {}
  <2>1. \A k \in zeros : FALSE
    BY <1>1
  <2> QED  BY <2>1
<1>3. CString(s) = IF zeros = {} THEN s
                   ELSE SubSeq(s, 1, (CHOOSE k \in zeros : \A l \in zeros : k <= l) - 1)
  BY DEF CString
<1> HIDE DEF zeros
<1> QED  BY <1>2, <1>3

LEMMA OverItself ==
  ASSUME NEW S, NEW new \in Seq(S), NEW old \in {<<>>, new}
  PROVE  Overlay(old, new) = new
<1>1. SubSeq(old, Len(new) + 1, Len(old)) = <<>>
  OBVIOUS
<1> QED  BY <1>1 DEF Overlay

LEMMA EncodedText ==
  ASSUME original \in Seq(Survivors(Key)), Missing \notin Seq(Byte)
  PROVE  /\ original \in Seq(Ascii) /\ original # Missing
         /\ Encoded \in Seq(Ascii) /\ Encoded # Missing
         /\ \A g : Decode(Key, Encoded, g) = original
<1>1. Survivors(Key) \subseteq Ascii
  BY DEF Survivors, Ascii
<1>2. original \in Seq(Ascii)
  BY <1>1, SeqElements, SeqOf
<1>3. Encoded \in Seq(Ascii)
  <2>1. \A c \in Ascii : EncodeChar(Key, c) \in Ascii
    <3>1. \A n \in 0..61 : Key[n] \in Ascii
      BY CodecAssumption DEF ValidKey, Ascii
    <3>2. \A c \in Lower : c - 97 \in 0..61
      BY DEF Lower
    <3>3. \A c \in Upper : c - 65 + 26 \in 0..61
      BY DEF Upper
    <3> QED  BY <3>1, <3>2, <3>3 DEF EncodeChar
  <2>2. Len(original) \in Nat /\ \A k \in 1..Len(original) : original[k] \in Ascii
    BY <1>2, SeqElements
  <2>3. Encoded = [k \in 1..Len(original) |-> EncodeChar(Key, original[k])]
    <3>1. DOMAIN original = 1..Len(original)
      BY <1>2, SeqElements
    <3> QED  BY <3>1 DEF Encoded, Encode
  <2>4. \A k \in 1..Len(original) : EncodeChar(Key, original[k]) \in Ascii
    BY <2>1, <2>2
  <2>5. Encoded \in [1..Len(original) -> Ascii]
    BY <2>3, <2>4
  <2> QED  BY <2>2, <2>5, SeqOf
<1>4. Missing \notin Seq(Ascii)
  BY AsciiBytes
<1>5. \A g : Decode(Key, Encoded, g) = original
  BY DecodeInvertsEncode, CodecAssumption DEF Encoded
<1> QED  BY <1>2, <1>3, <1>4, <1>5


\* Beside a run of encode there is no undisturbed decode, beside an undisturbed
\* decode no other coder.
LEMMA Alone ==
  ASSUME CodecInv, Undisturbed, NEW p \in Coders, p \in Active
  PROVE  /\ p \in Encoders => file["src"] = original /\ \A d \in Decoders : pc[d] \in Idle
         /\ p \in Decoders => \A q \in Coders \ {p} : pc[q] \in Idle
<1>1. \A q \in Coders : q \in Active <=> pc[q] \notin Idle
  BY CodersByProgram DEF Active
<1>2. \A d \in Decoders : d \in Coders /\ d \notin Encoders /\ d \notin disturbed
  BY CodersByProgram DEF Undisturbed
<1>3. \A d \in Decoders : \A q \in Coders : q # d /\ d \in Active => q \notin Active
  BY <1>2 DEF CodecInv, Overlaps
<1>4. p \in Encoders => file["src"] = original
  BY <1>1 DEF CodecInv, Consistent
<1> QED  BY <1>1, <1>2, <1>3, <1>4, CodersByProgram

\* A step of a coder keeps the rest of the invariant.
LEMMA CodecKept ==
  ASSUME CodecInv, NEW p \in Coders, p \in Active, NEW there \in Labels,
         pc' = [pc EXCEPT ![p] = there], UNCHANGED <<original, disturbed>>,
         DOMAIN file' = Files, file' = [f \in Files |-> file'[f]],
         textin' = [q \in Coders |-> textin'[q]], fileSize' = [q \in Coders |-> fileSize'[q]],
         Undisturbed /\ Consistent => Consistent'
  PROVE  CodecInv'
<1>1. pc' \in [Runs -> Labels]
  BY CodersByProgram DEF CodecInv
<1>2. Active' \subseteq Active
  <2>1. \A q \in Runs : q # p => pc'[q] = pc[q]
    BY DEF CodecInv
  <2> QED  BY <2>1 DEF Active
<1>3. Overlaps'
  BY <1>2 DEF CodecInv, Overlaps, Decoders
<1>4. Undisturbed' => Undisturbed
  BY DEF Undisturbed, Decoders
<1> QED  BY <1>1, <1>3, <1>4 DEF CodecInv, Encoded

\* For the steps of a coder: the values after it, and what else is needed.
LEMMA AfterStep ==
  ASSUME CodecInv, NEW p \in Coders, NEW there \in Labels, pc' = [pc EXCEPT ![p] = there]
  PROVE  pc'[p] = there /\ \A q \in Coders \ {p} : pc'[q] = pc[q]
  BY CodersByProgram DEF CodecInv

\* A step that writes no file, of a coder that is not about to.
LEMMA ConsistentReading ==
  ASSUME Consistent, NEW p \in Coders, UNCHANGED <<original, file>>,
         pc[p] \notin Idle, pc'[p] # "flush",
         \A q \in Coders \ {p} : pc'[q] = pc[q] /\ textin'[q] = textin[q] /\ fileSize'[q] = fileSize[q],
         p \in Encoders => /\ pc'[p] = "read" => fileSize'[p] = Len(original)
                           /\ pc'[p] = "create" => textin'[p] = original,
         p \in Decoders => /\ pc'[p] = "read" => fileSize'[p] = Len(Encoded)
                           /\ pc'[p] = "create" => textin'[p] = Encoded
                           /\ pc'[p] \in {"read", "create"} => file["dst"] = Encoded
  PROVE  Consistent'
<1>1. Encoders' = Encoders /\ Decoders' = Decoders /\ Encoded' = Encoded
  BY DEF Encoders, Decoders, Encoded
<1>2. \A q \in Encoders \cup Decoders : q \in Coders
  BY CodersByProgram
<1>3. /\ file["dst"] \in {Missing, <<>>, Encoded} /\ file["src"] \in {<<>>, original}
      /\ file["src"] = original \/ file["dst"] = Encoded
  BY DEF Consistent
<1>4. \A q \in Encoders \cup Decoders : pc'[q] \notin Idle => pc[q] \notin Idle
  BY <1>2
<1>5. /\ \A e \in Encoders : pc'[e] \notin Idle => file["src"] = original
      /\ \A d \in Decoders : pc'[d] \notin Idle => file["dst"] \in {Missing, Encoded}
  BY <1>4 DEF Consistent
<1>6. ASSUME NEW e \in Encoders
      PROVE  /\ pc'[e] = "read" => fileSize'[e] = Len(original)
             /\ pc'[e] \in {"create", "flush"} => textin'[e] = original
             /\ pc'[e] = "flush" => file["dst"] # Missing
  <2>1. CASE e = p
    BY <2>1
  <2>2. CASE e # p
    BY <2>2, <1>2 DEF Consistent
  <2> QED  BY <2>1, <2>2
<1>7. ASSUME NEW d \in Decoders
      PROVE  /\ pc'[d] = "read" => fileSize'[d] = Len(Encoded)
             /\ pc'[d] \in {"create", "flush"} => textin'[d] = Encoded
             /\ pc'[d] \in {"read", "create", "flush"} => file["dst"] = Encoded
             /\ pc'[d] = "flush" => file["src"] = <<>>
  <2>1. CASE d = p
    BY <2>1
  <2>2. CASE d # p
    BY <2>2, <1>2 DEF Consistent
  <2> QED  BY <2>1, <2>2
<1> QED  BY <1>1, <1>3, <1>4, <1>5, <1>6, <1>7 DEF Consistent

LEMMA OpenStep ==
  ASSUME CodecInv, original \in Seq(Survivors(Key)), Missing \notin Seq(Byte),
         NEW p \in Coders, OpenAndMeasure(p), UNCHANGED <<original, disturbed>>
  PROVE  CodecInv'
<1> DEFINE there == IF pc[p] = "check" THEN "check read"
                    ELSE IF file[Input(p)] = Missing THEN "failed" ELSE "read"
           size == IF file[Input(p)] = Missing THEN 0 ELSE Len(file[Input(p)])
<1>1. /\ pc[p] \in {"open", "check"} /\ pc' = [pc EXCEPT ![p] = there]
      /\ fileSize' = [fileSize EXCEPT ![p] = size]
      /\ UNCHANGED <<file, textin>>
  BY DEF OpenAndMeasure, Go
<1>2. there \in Labels /\ p \in Active /\ pc[p] \notin Idle /\ there \notin {"create", "flush"}
  BY <1>1, CodersByProgram DEF Labels, Active, Idle
<1>3. /\ fileSize' = [q \in Coders |-> fileSize'[q]] /\ fileSize'[p] = size
      /\ \A q \in Coders \ {p} : fileSize'[q] = fileSize[q]
  BY <1>1 DEF CodecInv
<1>4. /\ DOMAIN file' = Files /\ file' = [f \in Files |-> file'[f]]
      /\ textin' = [q \in Coders |-> textin'[q]]
  BY <1>1 DEF CodecInv
<1>5. pc'[p] = there /\ \A q \in Coders \ {p} : pc'[q] = pc[q]
  BY <1>1, <1>2, AfterStep
<1> HIDE DEF there, size
<1>6. ASSUME Undisturbed, Consistent PROVE Consistent'
  <2>1. CASE p \in Encoders
    <3>1. Input(p) = (IF pc[p] = "check" THEN "dst" ELSE "src") /\ file["src"] = original
      BY <1>1, <1>2, <2>1, <1>6, Alone DEF Input, Encoders
    <3>2. there = "read" => size = Len(original)
      BY <1>1, <3>1 DEF there, size
    <3> QED  BY <1>1, <1>2, <1>3, <1>5, <1>6, <2>1, <3>2, CodersByProgram, ConsistentReading
  <2>2. CASE p \in Decoders
    <3>1. Input(p) = "dst"
      BY <2>2 DEF Input, Decoders
    <3>2. file["dst"] \in {Missing, Encoded}
      BY <1>2, <1>6, <2>2 DEF Consistent
    <3>3. there = "read" => file["dst"] = Encoded /\ size = Len(Encoded)
      BY <3>1, <3>2 DEF there, size
    <3> QED  BY <1>1, <1>2, <1>3, <1>5, <1>6, <2>2, <3>3, CodersByProgram, ConsistentReading
  <2> QED  BY <2>1, <2>2, CodersByProgram
<1> QED  BY <1>1, <1>2, <1>3, <1>4, <1>6, CodecKept

LEMMA ReadStep ==
  ASSUME CodecInv, original \in Seq(Survivors(Key)), Missing \notin Seq(Byte),
         NEW p \in Coders, ReadText(p), UNCHANGED <<original, disturbed>>
  PROVE  CodecInv'
<1>1. PICK there \in {"create", "failed", "done"} : pc' = [pc EXCEPT ![p] = there]
        /\ (there = "create" => /\ pc[p] = "read"
                                /\ textin' = [textin EXCEPT ![p] = SubSeq(file[Input(p)], 1, fileSize[p])])
  BY DEF ReadText, Go
<1>2. pc[p] \in {"read", "check read"} /\ UNCHANGED file
  BY DEF ReadText, Go
<1>3. there \in Labels /\ p \in Active /\ pc[p] \notin Idle
  BY <1>1, <1>2, CodersByProgram DEF Labels, Active, Idle
<1>4. /\ textin' = [q \in Coders |-> textin'[q]] /\ fileSize' = [q \in Coders |-> fileSize'[q]]
      /\ \A q \in Coders \ {p} : textin'[q] = textin[q] /\ fileSize'[q] = fileSize[q]
      /\ there = "create" => textin'[p] = SubSeq(file[Input(p)], 1, fileSize[p])
  <2>1. \/ \E x : textin' = [textin EXCEPT ![p] = x] /\ UNCHANGED fileSize
        \/ \E x, y : textin' = [textin EXCEPT ![p] = x] /\ fileSize' = [fileSize EXCEPT ![p] = y]
    BY DEF ReadText, FreeTexts
  <2> QED  BY <1>1, <2>1 DEF CodecInv
<1>5. pc'[p] = there /\ \A q \in Coders \ {p} : pc'[q] = pc[q]
  BY <1>1, <1>3, AfterStep
<1>6. ASSUME Undisturbed, Consistent PROVE Consistent'
  <2>1. CASE p \in Encoders
    <3>1. there = "create" => textin'[p] = original
      <4> SUFFICES ASSUME there = "create" PROVE textin'[p] = original
        OBVIOUS
      <4>1. pc[p] = "read" /\ fileSize[p] = Len(original)
        BY <1>1, <1>6, <2>1 DEF Consistent
      <4>2. file[Input(p)] = original
        BY <4>1, <1>3, <1>6, <2>1, Alone DEF Input, Encoders
      <4> QED  BY <4>1, <4>2, <1>4, SeqElements
    <3> QED  BY <1>1, <1>2, <1>3, <1>4, <1>5, <1>6, <2>1, <3>1, CodersByProgram, ConsistentReading
  <2>2. CASE p \in Decoders
    <3>1. there = "create" => textin'[p] = Encoded /\ file["dst"] = Encoded
      <4> SUFFICES ASSUME there = "create" PROVE textin'[p] = Encoded /\ file["dst"] = Encoded
        OBVIOUS
      <4>1. pc[p] = "read" /\ fileSize[p] = Len(Encoded) /\ file["dst"] = Encoded
        BY <1>1, <1>6, <2>2 DEF Consistent
      <4>2. file[Input(p)] = Encoded
        BY <4>1, <2>2 DEF Input, Decoders
      <4> QED  BY <4>1, <4>2, <1>4, SeqElements, EncodedText
    <3> QED  BY <1>1, <1>2, <1>3, <1>4, <1>5, <1>6, <2>2, <3>1, CodersByProgram, ConsistentReading
  <2> QED  BY <2>1, <2>2, CodersByProgram
<1> QED  BY <1>1, <1>2, <1>3, <1>4, <1>6, CodecKept DEF CodecInv

LEMMA CreateStep ==
  ASSUME CodecInv, original \in Seq(Survivors(Key)), Missing \notin Seq(Byte),
         NEW p \in Coders, CreateOutput(p), UNCHANGED <<original, disturbed>>
  PROVE  CodecInv'
<1>1. /\ pc[p] = "create" /\ pc' = [pc EXCEPT ![p] = "flush"]
      /\ file' = [file EXCEPT ![Output(p)] = <<>>]
      /\ UNCHANGED <<textin, fileSize>>
  BY DEF CreateOutput, Go, coder_vars
<1>2. "flush" \in Labels /\ p \in Active /\ pc[p] \notin Idle
  BY <1>1, CodersByProgram DEF Labels, Active, Idle
<1>3. Output(p) = (IF p \in Encoders THEN "dst" ELSE "src")
  BY DEF Output, Encoders
<1>4. /\ DOMAIN file' = Files /\ file' = [f \in Files |-> file'[f]]
      /\ file'[Output(p)] = <<>> /\ \A f \in Files \ {Output(p)} : file'[f] = file[f]
  BY <1>1, <1>3 DEF CodecInv, Files
<1>5. pc'[p] = "flush" /\ \A q \in Coders \ {p} : pc'[q] = pc[q]
  BY <1>1, <1>2, AfterStep
<1>6. Encoders' = Encoders /\ Decoders' = Decoders /\ Encoded' = Encoded
  BY DEF Encoders, Decoders, Encoded
<1>7. <<>> # Missing
  <2>1. <<>> \in Seq(Byte)
    OBVIOUS
  <2> QED  BY <2>1
<1>8. ASSUME Undisturbed, Consistent PROVE Consistent'
  <2>1. CASE p \in Encoders
    <3>1. file'["dst"] = <<>> /\ file'["src"] = original
      BY <1>2, <1>3, <1>4, <1>8, <2>1, Alone DEF Files
    <3>2. \A d \in Decoders : pc'[d] \in Idle /\ pc'[d] \notin {"read", "create", "flush"}
      BY <1>2, <1>5, <1>8, <2>1, Alone, CodersByProgram DEF Idle
    <3>3. textin'[p] = original
      BY <1>1, <1>8, <2>1 DEF Consistent
    <3>4. \A e \in Encoders : /\ pc'[e] = "read" => fileSize'[e] = Len(original)
                              /\ pc'[e] \in {"create", "flush"} => textin'[e] = original
      BY <1>1, <1>5, <1>8, <3>3, CodersByProgram DEF Consistent
    <3> QED  BY <1>5, <1>6, <1>7, <2>1, <3>1, <3>2, <3>4 DEF Consistent
  <2>2. CASE p \in Decoders
    <3>1. file["dst"] = Encoded /\ textin[p] = Encoded
      BY <1>1, <1>8, <2>2 DEF Consistent
    <3>2. file'["dst"] = Encoded /\ file'["src"] = <<>>
      BY <1>3, <1>4, <2>2, <3>1, CodersByProgram DEF Files
    <3>3. \A q \in Coders \ {p} : pc'[q] \in Idle /\ pc'[q] \notin {"read", "create", "flush"}
      BY <1>2, <1>5, <1>8, <2>2, Alone DEF Idle
    <3> QED  BY <1>1, <1>5, <1>6, <2>2, <3>1, <3>2, <3>3, CodersByProgram DEF Consistent
  <2> QED  BY <2>1, <2>2, CodersByProgram
<1> QED  BY <1>1, <1>2, <1>4, <1>8, CodecKept DEF CodecInv

LEMMA WriteStep ==
  ASSUME CodecInv, original \in Seq(Survivors(Key)), Missing \notin Seq(Byte),
         NEW p \in Coders, WriteOutput(p), UNCHANGED <<original, disturbed>>
  PROVE  CodecInv'
<1> DEFINE there == IF Program[p] = "encode" THEN "check" ELSE "done"
<1>1. pc[p] = "flush" /\ pc' = [pc EXCEPT ![p] = there]
  BY DEF WriteOutput, Go
<1>2. PICK g : LET textout == IF Program[p] = "encode" THEN Encode(Key, textin[p])
                                                      ELSE Decode(Key, textin[p], g) IN
               file' = [file EXCEPT ![Output(p)] = Overlay(file[Output(p)], CString(textout))]
  BY DEF WriteOutput
<1>3. there \in Labels \ {"read", "create", "flush"} /\ p \in Active
  BY <1>1, CodersByProgram DEF Labels, Active, Idle
<1>4. Output(p) = (IF p \in Encoders THEN "dst" ELSE "src")
      /\ (p \in Encoders <=> Program[p] = "encode")
  BY DEF Output, Encoders
<1>5. /\ DOMAIN file' = Files /\ file' = [f \in Files |-> file'[f]]
      /\ \A f \in Files \ {Output(p)} : file'[f] = file[f]
      /\ p \in Encoders => file'["dst"] = Overlay(file["dst"], CString(Encode(Key, textin[p])))
      /\ p \notin Encoders => file'["src"] = Overlay(file["src"], CString(Decode(Key, textin[p], g)))
  BY <1>2, <1>4 DEF CodecInv, Files
<1>6. /\ textin' = [q \in Coders |-> textin'[q]] /\ fileSize' = [q \in Coders |-> fileSize'[q]]
      /\ \A q \in Coders \ {p} : textin'[q] = textin[q] /\ fileSize'[q] = fileSize[q]
  BY DEF WriteOutput, FreeTexts, coder_vars, CodecInv
<1>7. pc'[p] = there /\ \A q \in Coders \ {p} : pc'[q] = pc[q]
  BY <1>1, <1>3, AfterStep
<1>8. Encoders' = Encoders /\ Decoders' = Decoders /\ Encoded' = Encoded
  BY DEF Encoders, Decoders, Encoded
<1> HIDE DEF there
<1>9. ASSUME Undisturbed, Consistent PROVE Consistent'
  <2>1. CASE p \in Encoders
    <3>1. textin[p] = original /\ file["dst"] \in {<<>>, Encoded}
      BY <1>1, <1>9, <2>1 DEF Consistent
    <3>2. file'["dst"] = Encoded
      BY <1>5, <2>1, <3>1, EncodedText, NoZeros, OverItself DEF Encoded
    <3>3. file'["src"] = original
      BY <1>3, <1>4, <1>5, <1>9, <2>1, Alone DEF Files
    <3>4. \A d \in Decoders : pc'[d] \in Idle /\ pc'[d] \notin {"read", "create", "flush"}
      BY <1>3, <1>7, <1>9, <2>1, Alone, CodersByProgram DEF Idle
    <3>5. \A e \in Encoders : /\ pc'[e] = "read" => fileSize'[e] = Len(original)
                              /\ pc'[e] \in {"create", "flush"} => textin'[e] = original
      BY <1>3, <1>6, <1>7, <1>9, CodersByProgram DEF Consistent
    <3> QED  BY <1>8, <3>2, <3>3, <3>4, <3>5, EncodedText DEF Consistent
  <2>2. CASE p \in Decoders
    <3>1. textin[p] = Encoded /\ file["dst"] = Encoded /\ file["src"] = <<>>
      BY <1>1, <1>9, <2>2 DEF Consistent
    <3>2. file'["src"] = original
      BY <1>5, <2>2, <3>1, EncodedText, NoZeros, OverItself, CodersByProgram
    <3>3. file'["dst"] = Encoded
      BY <1>4, <1>5, <2>2, <3>1, CodersByProgram DEF Files
    <3>4. \A q \in Coders : pc'[q] \in Idle /\ pc'[q] \notin {"read", "create", "flush"}
      <4>1. there = "done"
        BY <1>4, <2>2, CodersByProgram DEF there
      <4> QED  BY <4>1, <1>3, <1>7, <1>9, <2>2, Alone DEF Idle
    <3> QED  BY <1>8, <3>2, <3>3, <3>4, CodersByProgram DEF Consistent
  <2> QED  BY <2>1, <2>2, CodersByProgram
<1> QED  BY <1>1, <1>3, <1>5, <1>6, <1>9, CodecKept

\* A run that is stopped leaves the files as they are.
LEMMA StopStep ==
  ASSUME CodecInv, NEW p \in Coders, StopCoder(p), UNCHANGED <<original, disturbed>>
  PROVE  CodecInv'
<1>1. pc[p] \notin Idle /\ pc' = [pc EXCEPT ![p] = "failed"] /\ UNCHANGED file
  BY DEF StopCoder
<1>2. "failed" \in Labels /\ p \in Active
  BY <1>1, CodersByProgram DEF Labels, Active
<1>3. /\ textin' = [q \in Coders |-> textin'[q]] /\ fileSize' = [q \in Coders |-> fileSize'[q]]
      /\ \A q \in Coders \ {p} : textin'[q] = textin[q] /\ fileSize'[q] = fileSize[q]
  BY DEF StopCoder, FreeTexts, CodecInv
<1>4. pc'[p] = "failed" /\ \A q \in Coders \ {p} : pc'[q] = pc[q]
  BY <1>1, <1>2, AfterStep
<1>5. ASSUME Undisturbed, Consistent PROVE Consistent'
  BY <1>1, <1>3, <1>4, <1>5, ConsistentReading
<1> QED  BY <1>1, <1>2, <1>3, <1>5, CodecKept DEF CodecInv

LEMMA CodecStart ==
  ASSUME CodecInv, NEW p \in Runs, Start(p)
  PROVE  CodecInv'
<1>1. PICK there \in Labels \ {"read", "create", "flush"} :
        pc[p] = "new" /\ pc' = [pc EXCEPT ![p] = there]
  BY DEF Start, Go, Labels
<1>2. /\ disturbed' = disturbed \cup {q \in Active \cup {p} : \E r \in (Active \cup {p}) \ {q} : Disturbs(r, q)}
                               \cup {q \in {p} \cap Coders : file[Input(q)] = <<>>}
      /\ UNCHANGED <<original, file, textin, fileSize>>
  BY DEF Start, coder_vars
<1>3. /\ pc' \in [Runs -> Labels] /\ pc'[p] = there
      /\ \A q \in Runs \ {p} : pc'[q] = pc[q]
  BY <1>1 DEF CodecInv
<1>4. Active' \subseteq Active \cup {p}
  BY <1>3 DEF Active
<1>5. Overlaps'
  <2> SUFFICES ASSUME NEW d \in Decoders \cap Active', NEW q \in (Coders \cap Active') \ {d}
               PROVE  d \in disturbed'
    BY DEF Overlaps, Decoders
  <2>1. Disturbs(q, d)
    BY DEF Disturbs, Decoders
  <2> QED  BY <2>1, <1>2, <1>4
<1>6. ASSUME Undisturbed' PROVE Consistent'
  <2>1. Consistent
    BY <1>2, <1>6 DEF Undisturbed, Decoders, CodecInv
  <2>2. /\ Encoders' = Encoders /\ Decoders' = Decoders /\ Encoded' = Encoded
    BY <1>2 DEF Encoders, Decoders, Encoded
  <2>3. \A q \in Coders : pc'[q] = pc[q] \/ (pc[q] \notin {"read", "create", "flush"} /\ pc'[q] \notin {"read", "create", "flush"})
    BY <1>1, <1>3, CodersByProgram
  <2>4. \A q \in Encoders \cup Decoders : q \in Coders
    BY CodersByProgram
  <2>5. \A q \in Encoders \cup Decoders : pc'[q] \in {"read", "create", "flush"} \/ pc[q] \in {"read", "create", "flush"} => pc'[q] = pc[q]
    BY <2>3, <2>4
  <2>6. p \in Coders => file[Input(p)] # <<>>
    BY <1>2, <1>6 DEF Undisturbed
  <2>7. p \in Encoders => file["src"] = original
    BY <1>1, <2>1, <2>4, <2>6 DEF Encoders, Input, Consistent
  <2>8. p \in Decoders => file["dst"] \in {Missing, Encoded}
    BY <1>1, <2>1, <2>4, <2>6 DEF Decoders, Input, Consistent
  <2>9. /\ \A e \in Encoders : pc'[e] \notin Idle => file["src"] = original
        /\ \A d \in Decoders : pc'[d] \notin Idle => file["dst"] \in {Missing, Encoded}
    <3>1. \A q \in Encoders \cup Decoders : q # p => pc'[q] = pc[q]
      BY <1>3, <2>4, CodersByProgram
    <3> QED  BY <2>1, <2>7, <2>8, <3>1 DEF Consistent
  <2> QED  BY <1>2, <2>1, <2>2, <2>5, <2>9 DEF Consistent
<1> QED  BY <1>2, <1>3, <1>5, <1>6 DEF CodecInv, Encoded

\* The archive programs neither run as coders nor write the two files.
LEMMA CodecZip ==
  ASSUME CodecInv, NEW p \in Zippers, ZipNext(p)
  PROVE  CodecInv'
<1>1. UNCHANGED <<original, file, textin, fileSize, disturbed>>
  BY DEF ZipNext, coder_vars
<1>2. pc' \in [Runs -> Labels] /\ \A q \in Coders : pc'[q] = pc[q]
  <2>1. UNCHANGED pc \/ \E there \in Labels : pc' = [pc EXCEPT ![p] = there]
    BY ZipGoes
  <2> QED  BY <2>1, CodersByProgram DEF CodecInv
<1>3. \A q \in Coders : q \in Active' <=> q \in Active
  BY <1>2, CodersByProgram DEF Active
<1>4. Overlaps'
  BY <1>1, <1>3, CodersByProgram DEF Overlaps, Decoders, CodecInv
<1>5. Undisturbed' => Consistent'
  <2>1. \A q \in Encoders \cup Decoders : pc'[q] = pc[q]
    BY <1>2, CodersByProgram
  <2>2. Encoders' = Encoders /\ Decoders' = Decoders /\ Encoded' = Encoded
    BY <1>1 DEF Encoders, Decoders, Encoded
  <2> QED  BY <1>1, <2>1, <2>2 DEF Undisturbed, Consistent, CodecInv
<1> QED  BY <1>1, <1>2, <1>4, <1>5 DEF CodecInv

LEMMA CodecInvariant ==
  ASSUME Originals \subseteq Seq(Survivors(Key)), Missing \notin Seq(Byte)
  PROVE  Spec => []CodecInv
<1>1. Init => CodecInv
  <2> SUFFICES ASSUME Init PROVE CodecInv
    OBVIOUS
  <2>1. /\ original \in Originals /\ file = [src |-> original, dst |-> Missing]
        /\ textin = [p \in Coders |-> <<>>] /\ fileSize = [p \in Coders |-> 0]
        /\ pc = [p \in Runs |-> "new"]
    BY DEF Init, CodecInit
  <2>2. file["src"] = original /\ file["dst"] = Missing
        /\ DOMAIN file = Files /\ file = [f \in Files |-> file[f]]
    BY <2>1 DEF Files
  <2>3. \A p \in Coders : pc[p] = "new"
    BY <2>1, CodersByProgram
  <2>4. pc \in [Runs -> Labels] /\ Active = {}
    BY <2>1 DEF Labels, Active, Idle
  <2>5. Overlaps
    BY <2>4 DEF Overlaps
  <2>6. Consistent
    BY <2>2, <2>3, CodersByProgram DEF Consistent
  <2> QED  BY <2>1, <2>2, <2>4, <2>5, <2>6 DEF CodecInv
<1>2. CodecInv /\ [Next]_vars => CodecInv'
  <2> SUFFICES ASSUME CodecInv, [Next]_vars PROVE CodecInv'
    OBVIOUS
  <2>1. original \in Seq(Survivors(Key))
    BY DEF CodecInv
  <2>2. CASE \E p \in Runs : Start(p)
    BY <2>2, CodecStart
  <2>3. CASE \E p \in Coders : CoderNext(p) /\ UNCHANGED zip_vars
    BY <2>1, <2>3, OpenStep, ReadStep, CreateStep, WriteStep, StopStep DEF CoderNext
  <2>4. CASE \E p \in Zippers : ZipNext(p)
    BY <2>4, CodecZip
  <2>5. CASE UNCHANGED vars
    BY <2>5 DEF vars, coder_vars, CodecInv, Overlaps, Active, Undisturbed, Consistent, Encoded,
                Encoders, Decoders
  <2> QED  BY <2>2, <2>3, <2>4, <2>5 DEF Next
<1> QED  BY <1>1, <1>2, PTL DEF Spec

(***************************************************************************)
(* The text of characters that decode finds again is never lost, wherever  *)
(* runs are stopped and whatever archives are made beside them, for any    *)
(* key and any number of runs, as long as no decode overlaps with another  *)
(* coder and none begins with the empty file of a run that was stopped.    *)
(***************************************************************************)
THEOREM TextNeverLost ==
  ASSUME Originals \subseteq Seq(Survivors(Key)), Missing \notin Seq(Byte)
  PROVE  Spec => []TextRecoverable
<1>1. CodecInv => TextRecoverable
  <2> SUFFICES ASSUME CodecInv, disturbed \cap Coders = {} PROVE Recoverable(file)
    BY DEF TextRecoverable
  <2>1. Consistent
    BY DEF CodecInv, Undisturbed
  <2>2. original \in Seq(Survivors(Key))
    BY DEF CodecInv
  <2>3. file["src"] = original \/ file["dst"] = Encoded
    BY <2>1 DEF Consistent
  <2> QED  BY <2>2, <2>3, EncodedText DEF Recoverable
<1> QED  BY <1>1, CodecInvariant, PTL

-----------------------------------------------------------------------------
(* Types.  What the commands of the archive programs pass on has as many     *)
(* layers as the name of its file says, whatever other runs do with the name.*)

\* The commands and the labels of main while they run, row by row.
LEMMA CommandRows ==
  ASSUME NEW p \in Zippers
  PROVE  /\ Program[p] \in {"myzip", "myunzip"}
         /\ Program[p] = "myzip" =>
              /\ Command(p)["tar"].to = "temp_tar_file" /\ Command(p)["tar"].kind = "add"
              /\ Command(p)["tar"].next = "gzip"
              /\ Command(p)["gzip"].from = "temp_tar_file" /\ Command(p)["gzip"].kind = "add"
              /\ Command(p)["gzip"].to = "temp_compress_file" /\ Command(p)["gzip"].next = "mkstemp"
              /\ Command(p)["gpg"].from = "temp_compress_file" /\ Command(p)["gpg"].kind = "add"
              /\ Command(p)["gpg"].to = "output_file" /\ Command(p)["gpg"].next = "unlink 1"
         /\ Program[p] = "myunzip" =>
              /\ Command(p)["gpg"].from = "output_file" /\ Command(p)["gpg"].kind = "remove"
              /\ Command(p)["gpg"].to = "temp_compress_file" /\ Command(p)["gpg"].next = "mkdir"
              /\ Command(p)["gzip"].from = "temp_compress_file" /\ Command(p)["gzip"].kind = "remove"
              /\ Command(p)["gzip"].to = "temp_tar_file" /\ Command(p)["gzip"].next = "tar"
              /\ Command(p)["tar"].to = "directory"
<1>1. Program[p] \in {"myzip", "myunzip"}
  BY ZipAssumption
<1>2. CASE Program[p] = "myzip"
  BY <1>2 DEF Command, MyzipCommands, Step
<1>3. CASE Program[p] = "myunzip"
  BY <1>3 DEF Command, MyunzipCommands, Step
<1> QED  BY <1>1, <1>2, <1>3

LEMMA LabelRows ==
  /\ Reading["tar"] = "tar read" /\ Reading["gzip"] = "gzip read" /\ Reading["gpg"] = "gpg read"
  /\ Writing["tar"] = "tar write" /\ Writing["gzip"] = "gzip write" /\ Writing["gpg"] = "gpg write"
  BY DEF Reading, Writing

LEMMA Contents ==
  /\ Empty \in Archives /\ Garbled \in Archives
  /\ Archives \subseteq Compressed /\ Compressed \subseteq Encrypted
  /\ \A d \in Directories : <<"tar", d>> \in Archives
  /\ \A c \in Archives : <<"gzip", c>> \in Compressed
  /\ \A c \in Compressed : <<"gpg", c>> \in Encrypted
  BY DEF Archives, Compressed, Encrypted, Empty, Garbled

\* Taking off the layer that a command expects.
LEMMA Peeled ==
  /\ \A a \in Archives : Expected("tar", a) /\ a # Empty => a[2] \in Directories /\ a = <<"tar", a[2]>>
  /\ \A c \in Compressed : Expected("gzip", c) => c[2] \in Archives /\ c = <<"gzip", c[2]>>
  /\ \A c \in Encrypted : Expected("gpg", c) => c[2] \in Compressed /\ c = <<"gpg", c[2]>>
<1>1. /\ Empty = <<>> /\ Garbled[1] = "garbled"
      /\ \A d \in {"tar"} \X Directories : d[1] = "tar" /\ d[2] \in Directories /\ d = <<"tar", d[2]>>
      /\ \A d \in {"gzip"} \X Archives : d[1] = "gzip" /\ d[2] \in Archives /\ d = <<"gzip", d[2]>>
      /\ \A d \in {"gpg"} \X Compressed : d[1] = "gpg" /\ d[2] \in Compressed /\ d = <<"gpg", d[2]>>
  BY DEF Empty, Garbled
<1>2. /\ \A a \in Archives : a \in {Empty, Garbled} \/ a \in {"tar"} \X Directories
      /\ \A c \in Compressed : c \in Archives \/ c \in {"gzip"} \X Archives
      /\ \A c \in Encrypted : c \in Compressed \/ c \in {"gpg"} \X Compressed
  BY DEF Archives, Compressed, Encrypted
<1>3. \A a \in Archives : a # Empty => a[1] \in {"tar", "garbled"}
  BY <1>1, <1>2
<1>4. \A c \in Compressed : c # Empty => c[1] \in {"tar", "garbled", "gzip"}
  BY <1>1, <1>2, <1>3
<1>5. \A a \in Archives : Expected("tar", a) /\ a # Empty => a[2] \in Directories /\ a = <<"tar", a[2]>>
  BY <1>1, <1>2 DEF Expected
<1>6. \A c \in Compressed : Expected("gzip", c) => c[2] \in Archives /\ c = <<"gzip", c[2]>>
  BY <1>1, <1>2, <1>3 DEF Expected
<1>7. \A c \in Encrypted : Expected("gpg", c) => c[2] \in Compressed /\ c = <<"gpg", c[2]>>
  BY <1>1, <1>2, <1>4 DEF Expected
<1> QED  BY <1>5, <1>6, <1>7

\* What the file of a name may hold.
Holds(n) ==
  IF n = "temp_tar_file" THEN Archives ELSE IF n = "temp_compress_file" THEN Compressed ELSE Encrypted

DataOK(d) ==
  /\ d \in [Zippers -> [Names -> Encrypted]]
  /\ \A q \in Zippers : \A n \in Names : d[q][n] \in Holds(n)

LEMMA EmptyHolds == \A n : Empty \in Holds(n) /\ Garbled \in Holds(n)
  BY Contents DEF Holds

\* e is d with v under name n of run q.
Put(d, q, n, v, e) == e = [d EXCEPT ![q][n] = v]

LEMMA DataUpdate ==
  ASSUME NEW d, DataOK(d), NEW q \in Zippers, NEW n \in Names, NEW v \in Holds(n),
         NEW e, Put(d, q, n, v, e)
  PROVE  /\ DataOK(e) /\ e[q][n] = v
         /\ \A r \in Zippers, m \in Names : r # q \/ m # n => e[r][m] = d[r][m]
<1>1. v \in Encrypted
  BY Contents DEF Holds
<1>2. d \in [Zippers -> [Names -> Encrypted]]
  BY DEF DataOK
<1>3. e = [d EXCEPT ![q] = [d[q] EXCEPT ![n] = v]]
  BY DEF Put
<1>4. [d[q] EXCEPT ![n] = v] \in [Names -> Encrypted]
  BY <1>1, <1>2
<1>5. e \in [Zippers -> [Names -> Encrypted]]
  BY <1>2, <1>3, <1>4
<1>6. e[q] = [d[q] EXCEPT ![n] = v] /\ \A r \in Zippers \ {q} : e[r] = d[r]
  BY <1>2, <1>3
<1>7. e[q][n] = v /\ \A m \in Names \ {n} : e[q][m] = d[q][m]
  BY <1>2, <1>6
<1> QED  BY <1>5, <1>6, <1>7 DEF DataOK

\* The names of the files, and the files that tar reads.
FileContent == Seq(Byte) \cup {Missing}

Commanding == {"tar read", "gzip read", "gpg read", "tar write", "gzip write", "gpg write"}

BufOK(p) ==
  /\ buf[p] \in Encrypted \cup Directories
  /\ pc[p] \in {"tar read", "tar write"} => Program[p] = "myzip"
  /\ pc[p] = "tar write" => buf[p] \in Directories
  /\ pc[p] = "gzip write" => (IF Program[p] = "myzip" THEN buf[p] ELSE buf[p][2]) \in Archives
  /\ pc[p] = "gpg write" => (IF Program[p] = "myzip" THEN buf[p] ELSE buf[p][2]) \in Compressed

\* What tar of p has read so far.
SnapshotOK(s) == DOMAIN s \subseteq Files /\ s = [f \in DOMAIN s |-> s[f]] /\ \A f \in DOMAIN s : s[f] \in FileContent

ZipTypes ==
  /\ pc \in [Runs -> Labels]
  /\ dir \in [Names -> Zippers \cup {NoFile}]
  /\ DataOK(data)
  /\ out \in [Zippers -> Zippers \cup {NoFile}]
  /\ buf = [p \in Zippers |-> buf[p]]
  /\ snapshot = [p \in Zippers |-> snapshot[p]]
  /\ unpacked \in {Empty} \cup Directories
  /\ \A p \in Zippers : /\ BufOK(p) /\ SnapshotOK(snapshot[p])
                        /\ pc[p] \in Commanding => out[p] \in Zippers

LEMMA EmptySnapshot == SnapshotOK(<<>>)
  BY DEF SnapshotOK

LEMMA ZipTypesInit == Init => ZipTypes
<1> SUFFICES ASSUME Init PROVE ZipTypes
  OBVIOUS
<1>1. Zippers \subseteq Runs /\ pc = [p \in Runs |-> "new"]
  BY DEF Init, Runs
<1>2. pc \in [Runs -> Labels] /\ \A p \in Zippers : pc[p] = "new"
  BY <1>1 DEF Labels
<1>3. dir \in [Names -> Zippers \cup {NoFile}] /\ out \in [Zippers -> Zippers \cup {NoFile}]
  BY DEF Init, ZipInit
<1>4. DataOK(data)
  <2>1. data = [p \in Zippers |-> [n \in Names |-> Empty]]
    BY DEF Init, ZipInit
  <2>2. Empty \in Encrypted
    BY Contents
  <2> QED  BY <2>1, <2>2, EmptyHolds DEF DataOK
<1>5. buf = [p \in Zippers |-> Empty] /\ snapshot = [p \in Zippers |-> <<>>] /\ unpacked = Empty
  BY DEF Init, ZipInit
<1>6. \A p \in Zippers : BufOK(p) /\ pc[p] \notin Commanding
  BY <1>2, <1>5, Contents DEF BufOK, Commanding
<1> QED  BY <1>2, <1>3, <1>4, <1>5, <1>6, EmptySnapshot DEF ZipTypes

\* The other runs are where they were.
LEMMA Gone ==
  ASSUME ZipTypes, NEW p \in Zippers, NEW here, NEW there, Go(p, here, there)
  PROVE  /\ pc[p] = here /\ pc'[p] = there /\ \A q \in Runs \ {p} : pc'[q] = pc[q]
         /\ there \in Labels => pc' \in [Runs -> Labels]
  BY DEF Go, ZipTypes, Runs

\* A command opens its output.
LEMMA Opened ==
  ASSUME ZipTypes, NEW p \in Zippers, NEW n \in Names, OpenOutput(p, n)
  PROVE  /\ dir' \in [Names -> Zippers \cup {NoFile}] /\ out' \in [Zippers -> Zippers \cup {NoFile}]
         /\ DataOK(data') /\ dir'[n] \in Zippers /\ out'[p] = dir'[n]
         /\ \A m \in Names \ {n} : dir'[m] = dir[m]
         /\ \A q \in Zippers \ {p} : out'[q] = out[q]
         /\ data'[dir'[n]][n] = Empty
         /\ \A q \in Zippers, m \in Names \ {n} : data'[q][m] = data[q][m]
<1>1. PICK owner : owner = IF dir[n] = NoFile THEN p ELSE dir[n]
  OBVIOUS
<1>2. owner \in Zippers
  BY <1>1 DEF ZipTypes
<1>3. /\ dir' = [dir EXCEPT ![n] = owner] /\ data' = [data EXCEPT ![owner][n] = Empty]
      /\ out' = [out EXCEPT ![p] = owner]
  BY <1>1 DEF OpenOutput
<1>4. /\ dir' \in [Names -> Zippers \cup {NoFile}] /\ dir'[n] = owner
      /\ \A m \in Names \ {n} : dir'[m] = dir[m]
  BY <1>2, <1>3 DEF ZipTypes
<1>5. /\ out' \in [Zippers -> Zippers \cup {NoFile}] /\ out'[p] = owner
      /\ \A q \in Zippers \ {p} : out'[q] = out[q]
  BY <1>2, <1>3 DEF ZipTypes
<1>6. /\ DataOK(data') /\ data'[owner][n] = Empty
      /\ \A r \in Zippers, m \in Names : r # owner \/ m # n => data'[r][m] = data[r][m]
  <2>1. DataOK(data)
    BY DEF ZipTypes
  <2>2. Put(data, owner, n, Empty, data') /\ Empty \in Holds(n)
    BY <1>3, EmptyHolds DEF Put
  <2> QED  BY <1>2, <2>1, <2>2, DataUpdate
<1> QED  BY <1>2, <1>4, <1>5, <1>6
\* A step of run p changes what is its own, and the files.
LEMMA ZipStepTypes ==
  ASSUME ZipTypes, NEW p \in Zippers, pc' \in [Runs -> Labels], \A q \in Runs \ {p} : pc'[q] = pc[q],
         dir' \in [Names -> Zippers \cup {NoFile}], DataOK(data'),
         out' \in [Zippers -> Zippers \cup {NoFile}], \A q \in Zippers \ {p} : out'[q] = out[q],
         buf' = [q \in Zippers |-> buf'[q]], \A q \in Zippers \ {p} : buf'[q] = buf[q],
         snapshot' = [q \in Zippers |-> snapshot'[q]],
         \A q \in Zippers \ {p} : snapshot'[q] = snapshot[q],
         unpacked' \in {Empty} \cup Directories,
         BufOK(p)', SnapshotOK(snapshot'[p]), pc'[p] \in Commanding => out'[p] \in Zippers
  PROVE  ZipTypes'
<1>1. ASSUME NEW q \in Zippers \ {p}
      PROVE  BufOK(q)' /\ SnapshotOK(snapshot'[q]) /\ (pc'[q] \in Commanding => out'[q] \in Zippers)
  BY DEF ZipTypes, BufOK, Runs
<1> QED  BY <1>1 DEF ZipTypes

LEMMA OpenTypes ==
  ASSUME ZipTypes, NEW p \in Zippers, OpenCommand(p)
  PROVE  ZipTypes'
<1>1. PICK layer \in Layers :
        LET c == Command(p)[layer] IN
        /\ c.to # "directory"
        /\ Go(p, layer, Reading[layer]) /\ OpenOutput(p, c.to)
        /\ UNCHANGED <<buf, snapshot, unpacked>>
  BY DEF OpenCommand
<1>2. PICK n : n = Command(p)[layer].to
  OBVIOUS
<1>3. n \in Names /\ Reading[layer] \in Labels
  BY <1>1, <1>2, CommandTable
<1>4. /\ Program[p] = "myunzip" => layer # "tar"
      /\ Program[p] \in {"myzip", "myunzip"}
  BY <1>1, CommandRows
<1>5. Reading[layer] \in {"tar read", "gzip read", "gpg read"} /\ (Reading[layer] = "tar read" => layer = "tar")
  BY LabelRows DEF Layers
<1>6. UNCHANGED <<buf, snapshot, unpacked>>
  BY <1>1
<1>7. buf[p] \in Encrypted \cup Directories /\ SnapshotOK(snapshot[p])
  BY DEF ZipTypes, BufOK
<1>8. Go(p, layer, Reading[layer]) /\ OpenOutput(p, n)
  BY <1>1, <1>2
<1>9. BufOK(p)'
  BY <1>3, <1>4, <1>5, <1>6, <1>7, <1>8, Gone DEF BufOK
<1>10. pc' \in [Runs -> Labels] /\ \A q \in Runs \ {p} : pc'[q] = pc[q]
  BY <1>3, <1>8, Gone
<1> QED  BY <1>3, <1>6, <1>7, <1>8, <1>9, <1>10, Opened, ZipStepTypes DEF ZipTypes

\* One more file is in the snapshot.
More(s, f, v, t) == t = [g \in {f} \cup DOMAIN s |-> IF g = f THEN v ELSE s[g]]

LEMMA SnapshotMore ==
  ASSUME NEW s, SnapshotOK(s), NEW f \in Files \ DOMAIN s, NEW v \in FileContent,
         NEW t, More(s, f, v, t)
  PROVE  /\ SnapshotOK(t) /\ DOMAIN t = DOMAIN s \cup {f} /\ t[f] = v
         /\ \A g \in DOMAIN s : t[g] = s[g]
         /\ DOMAIN t = Files => <<"files", t>> \in Directories
<1>1. t = [g \in {f} \cup DOMAIN s |-> IF g = f THEN v ELSE s[g]]
  BY DEF More
<1>2. DOMAIN t = DOMAIN s \cup {f} /\ t[f] = v /\ \A g \in DOMAIN s : t[g] = s[g]
  BY <1>1
<1>3. SnapshotOK(t)
  BY <1>1, <1>2 DEF SnapshotOK
<1>4. DOMAIN t = Files => t \in [Files -> FileContent]
  BY <1>3 DEF SnapshotOK
<1>5. DOMAIN t = Files => <<"files", t>> \in {"files"} \X [Files -> FileContent]
  BY <1>4
<1> QED  BY <1>2, <1>3, <1>5 DEF Directories, FileContent

\* What tar of myzip does in one step.
LEMMA TarStep ==
  ASSUME ZipTypes, NEW p \in Zippers, TarReads(p), file \in [Files -> FileContent]
  PROVE  /\ pc[p] = "tar read" /\ SnapshotOK(snapshot'[p])
         /\ snapshot' = [q \in Zippers |-> snapshot'[q]] /\ \A q \in Zippers \ {p} : snapshot'[q] = snapshot[q]
         /\ \E f \in Files \ DOMAIN snapshot[p] :
              /\ DOMAIN snapshot'[p] = DOMAIN snapshot[p] \cup {f} /\ snapshot'[p][f] = file[f]
              /\ \A g \in DOMAIN snapshot[p] : snapshot'[p][g] = snapshot[p][g]
         /\ \/ /\ Files = DOMAIN snapshot'[p] /\ Go(p, "tar read", "tar write")
               /\ buf' = [buf EXCEPT ![p] = <<"files", snapshot'[p]>>]
               /\ <<"files", snapshot'[p]>> \in Directories
            \/ Files # DOMAIN snapshot'[p] /\ UNCHANGED <<pc, buf>>
<1>1. PICK f \in Files \ DOMAIN snapshot[p] :
             snapshot' = [snapshot EXCEPT ![p] = [g \in {f} \cup DOMAIN snapshot[p] |->
                                                    IF g = f THEN file[f] ELSE snapshot[p][g]]]
  BY DEF TarReads
<1>2. PICK t : More(snapshot[p], f, file[f], t)
  BY DEF More
<1>3. snapshot' = [snapshot EXCEPT ![p] = t] /\ snapshot = [q \in Zippers |-> snapshot[q]]
  BY <1>1, <1>2 DEF ZipTypes, More
<1>4. snapshot'[p] = t /\ snapshot' = [q \in Zippers |-> snapshot'[q]]
      /\ \A q \in Zippers \ {p} : snapshot'[q] = snapshot[q]
  BY <1>3
<1>5. SnapshotOK(snapshot[p]) /\ file[f] \in FileContent
  <2>1. SnapshotOK(snapshot[p])
    BY DEF ZipTypes
  <2>2. file[f] \in FileContent
    OBVIOUS
  <2> QED  BY <2>1, <2>2
<1>6. More(snapshot[p], f, file[f], snapshot'[p])
  BY <1>2, <1>4 DEF More
<1> DEFINE u == snapshot'[p]
<1>7. /\ SnapshotOK(u) /\ DOMAIN u = DOMAIN snapshot[p] \cup {f} /\ u[f] = file[f]
      /\ \A g \in DOMAIN snapshot[p] : u[g] = snapshot[p][g]
      /\ DOMAIN u = Files => <<"files", u>> \in Directories
  BY <1>5, <1>6, SnapshotMore
<1>8. \/ Files = DOMAIN u /\ Go(p, "tar read", "tar write") /\ buf' = [buf EXCEPT ![p] = <<"files", u>>]
      \/ Files # DOMAIN u /\ UNCHANGED <<pc, buf>>
  BY DEF TarReads
<1>9. pc[p] = "tar read" /\ f \in Files \ DOMAIN snapshot[p]
  BY DEF TarReads
<1> HIDE DEF u
<1>10. \/ /\ Files = DOMAIN u /\ Go(p, "tar read", "tar write")
          /\ buf' = [buf EXCEPT ![p] = <<"files", u>>] /\ <<"files", u>> \in Directories
       \/ Files # DOMAIN u /\ UNCHANGED <<pc, buf>>
  BY <1>7, <1>8
<1>11. \E g \in Files \ DOMAIN snapshot[p] :
         /\ DOMAIN u = DOMAIN snapshot[p] \cup {g} /\ u[g] = file[g]
         /\ \A h \in DOMAIN snapshot[p] : u[h] = snapshot[p][h]
  BY <1>7, <1>9
<1> QED  BY <1>4, <1>7, <1>9, <1>10, <1>11 DEF u

LEMMA TarTypes ==
  ASSUME ZipTypes, NEW p \in Zippers, TarReads(p), file \in [Files -> FileContent]
  PROVE  ZipTypes'
<1>1. UNCHANGED <<dir, data, out, unpacked>>
  BY DEF TarReads
<1>2. p \in Runs /\ BufOK(p) /\ SnapshotOK(snapshot[p]) /\ (pc[p] \in Commanding => out[p] \in Zippers)
  BY DEF ZipTypes, Runs
<1>3. "tar write" \in Labels /\ "tar read" \in Commanding
  BY DEF Labels, Commanding
<1>4. /\ pc[p] = "tar read" /\ SnapshotOK(snapshot'[p])
      /\ snapshot' = [q \in Zippers |-> snapshot'[q]] /\ \A q \in Zippers \ {p} : snapshot'[q] = snapshot[q]
  BY TarStep
<1>5. CASE UNCHANGED <<pc, buf>>
  <2>1. BufOK(p)'
    BY <1>2, <1>5 DEF BufOK
  <2> QED  BY <1>1, <1>2, <1>4, <1>5, <2>1, ZipStepTypes DEF ZipTypes
<1>6. CASE /\ Go(p, "tar read", "tar write") /\ buf' = [buf EXCEPT ![p] = <<"files", snapshot'[p]>>]
           /\ <<"files", snapshot'[p]>> \in Directories
  <2>1. PICK v : v = <<"files", snapshot'[p]>>
    OBVIOUS
  <2>2. buf' = [q \in Zippers |-> buf'[q]] /\ buf'[p] = v /\ \A q \in Zippers \ {p} : buf'[q] = buf[q]
    BY <1>6, <2>1 DEF ZipTypes
  <2>3. pc' \in [Runs -> Labels] /\ pc'[p] = "tar write" /\ \A q \in Runs \ {p} : pc'[q] = pc[q]
    BY <1>3, <1>6, Gone
  <2>4. BufOK(p)'
    BY <1>2, <1>4, <1>6, <2>1, <2>2, <2>3 DEF BufOK
  <2>5. out'[p] \in Zippers
    BY <1>1, <1>2, <1>3, <1>4
  <2> QED  BY <1>1, <1>4, <2>2, <2>3, <2>4, <2>5, ZipStepTypes DEF ZipTypes
<1> QED  BY <1>5, <1>6, TarStep

\* What gzip and gpg do when they read.
HasRead(p, here, there, n, layer, remove) ==
  /\ pc[p] = here /\ pc'[p] = there /\ dir[n] \in Zippers
  /\ buf'[p] = Content(n) /\ Content(n) \in Holds(n)
  /\ remove => Expected(layer, Content(n))

LEMMA ReadStepRow ==
  ASSUME ZipTypes, NEW p \in Zippers, ReadCommand(p)
  PROVE  /\ UNCHANGED <<dir, data, out, snapshot, unpacked>>
         /\ pc' \in [Runs -> Labels] /\ \A q \in Runs \ {p} : pc'[q] = pc[q]
         /\ buf' = [q \in Zippers |-> buf'[q]] /\ \A q \in Zippers \ {p} : buf'[q] = buf[q]
         /\ pc[p] \in {"gzip read", "gpg read"}
         /\ \/ /\ Program[p] = "myzip"
               /\ \/ HasRead(p, "gzip read", "gzip write", "temp_tar_file", "gzip", FALSE)
                  \/ HasRead(p, "gpg read", "gpg write", "temp_compress_file", "gpg", FALSE)
            \/ /\ Program[p] = "myunzip"
               /\ \/ HasRead(p, "gpg read", "gpg write", "output_file", "gpg", TRUE)
                  \/ HasRead(p, "gzip read", "gzip write", "temp_compress_file", "gzip", TRUE)
<1>1. PICK layer \in {"gzip", "gpg"} :
        /\ Go(p, Reading[layer], Writing[layer]) /\ Fits(p, layer)
        /\ buf' = [buf EXCEPT ![p] = Content(Command(p)[layer].from)]
  BY DEF ReadCommand
<1>2. UNCHANGED <<dir, data, out, snapshot, unpacked>>
  BY DEF ReadCommand
<1>3. Reading[layer] \in {"gzip read", "gpg read"} /\ Writing[layer] \in Labels
  BY LabelRows DEF Labels
<1>4. PICK n : n = Command(p)[layer].from
  OBVIOUS
<1>5. /\ buf' = [q \in Zippers |-> buf'[q]] /\ \A q \in Zippers \ {p} : buf'[q] = buf[q]
      /\ buf'[p] = Content(n)
  BY <1>1, <1>4 DEF ZipTypes
<1>6. pc[p] = Reading[layer] /\ pc'[p] = Writing[layer] /\ pc' \in [Runs -> Labels]
      /\ \A q \in Runs \ {p} : pc'[q] = pc[q]
  BY <1>3, <1>1, Gone
<1>7. dir[n] # NoFile /\ (Command(p)[layer].kind = "remove" => Expected(layer, Content(n)))
  BY <1>1, <1>4 DEF Fits
<1>8. n \in Names => dir[n] \in Zippers /\ Content(n) \in Holds(n)
  BY <1>7 DEF ZipTypes, Content, DataOK
<1>9. CASE Program[p] = "myzip"
  <2>1. CASE layer = "gzip"
    <3>1. n = "temp_tar_file" /\ n \in Names
      BY <1>4, <1>9, <2>1, CommandRows DEF Names
    <3>2. HasRead(p, "gzip read", "gzip write", "temp_tar_file", "gzip", FALSE)
      BY <1>5, <1>6, <1>8, <2>1, <3>1, LabelRows DEF HasRead
    <3> QED  BY <1>2, <1>3, <1>5, <1>6, <1>9, <3>2
  <2>2. CASE layer = "gpg"
    <3>1. n = "temp_compress_file" /\ n \in Names
      BY <1>4, <1>9, <2>2, CommandRows DEF Names
    <3>2. HasRead(p, "gpg read", "gpg write", "temp_compress_file", "gpg", FALSE)
      BY <1>5, <1>6, <1>8, <2>2, <3>1, LabelRows DEF HasRead
    <3> QED  BY <1>2, <1>3, <1>5, <1>6, <1>9, <3>2
  <2> QED  BY <2>1, <2>2
<1>10. CASE Program[p] = "myunzip"
  <2>1. CASE layer = "gzip"
    <3>1. n = "temp_compress_file" /\ n \in Names /\ Command(p)[layer].kind = "remove"
      BY <1>4, <1>10, <2>1, CommandRows DEF Names
    <3>2. HasRead(p, "gzip read", "gzip write", "temp_compress_file", "gzip", TRUE)
      BY <1>5, <1>6, <1>7, <1>8, <2>1, <3>1, LabelRows DEF HasRead
    <3> QED  BY <1>2, <1>3, <1>5, <1>6, <1>10, <3>2
  <2>2. CASE layer = "gpg"
    <3>1. n = "output_file" /\ n \in Names /\ Command(p)[layer].kind = "remove"
      BY <1>4, <1>10, <2>2, CommandRows DEF Names
    <3>2. HasRead(p, "gpg read", "gpg write", "output_file", "gpg", TRUE)
      BY <1>5, <1>6, <1>7, <1>8, <2>2, <3>1, LabelRows DEF HasRead
    <3> QED  BY <1>2, <1>3, <1>5, <1>6, <1>10, <3>2
  <2> QED  BY <2>1, <2>2
<1> QED  BY <1>9, <1>10, CommandRows

LEMMA ReadTypes ==
  ASSUME ZipTypes, NEW p \in Zippers, ReadCommand(p)
  PROVE  ZipTypes'
<1>1. UNCHANGED <<dir, data, out, snapshot, unpacked>>
  BY ReadStepRow
<1>2. BufOK(p) /\ SnapshotOK(snapshot[p]) /\ (pc[p] \in Commanding => out[p] \in Zippers)
  BY DEF ZipTypes
<1>3. pc[p] \in {"gzip read", "gpg read"} /\ pc[p] \in Commanding
  BY ReadStepRow DEF Commanding
<1>4. BufOK(p)'
  <2>1. CASE Program[p] = "myzip" /\ HasRead(p, "gzip read", "gzip write", "temp_tar_file", "gzip", FALSE)
    BY <2>1, Contents DEF BufOK, HasRead, Holds
  <2>2. CASE Program[p] = "myzip" /\ HasRead(p, "gpg read", "gpg write", "temp_compress_file", "gpg", FALSE)
    BY <2>2, Contents DEF BufOK, HasRead, Holds
  <2>3. CASE Program[p] = "myunzip" /\ HasRead(p, "gpg read", "gpg write", "output_file", "gpg", TRUE)
    BY <2>3, Contents, Peeled DEF BufOK, HasRead, Holds
  <2>4. CASE Program[p] = "myunzip" /\ HasRead(p, "gzip read", "gzip write", "temp_compress_file", "gzip", TRUE)
    BY <2>4, Contents, Peeled DEF BufOK, HasRead, Holds
  <2> QED  BY <2>1, <2>2, <2>3, <2>4, ReadStepRow
<1> QED  BY <1>1, <1>2, <1>3, <1>4, ReadStepRow, ZipStepTypes DEF ZipTypes

\* What a command does when it writes: new, or a mixture, is in its file.
HasWritten(p, here, there, n, new) ==
  /\ pc[p] = here /\ pc'[p] = there /\ out[p] \in Zippers
  /\ new \in Holds(n) /\ data'[out[p]][n] \in {new, Garbled}
  /\ data[out[p]][n] = Empty => data'[out[p]][n] = new
  /\ \A q \in Zippers, m \in Names : q # out[p] \/ m # n => data'[q][m] = data[q][m]

LEMMA WriteStepRow ==
  ASSUME ZipTypes, NEW p \in Zippers, WriteCommand(p)
  PROVE  /\ UNCHANGED <<dir, snapshot, unpacked>>
         /\ pc' \in [Runs -> Labels] /\ \A q \in Runs \ {p} : pc'[q] = pc[q]
         /\ buf' = [buf EXCEPT ![p] = Empty] /\ out' = [out EXCEPT ![p] = NoFile]
         /\ DataOK(data')
         /\ \/ /\ Program[p] = "myzip"
               /\ \/ HasWritten(p, "tar write", "gzip", "temp_tar_file", <<"tar", buf[p]>>)
                  \/ HasWritten(p, "gzip write", "mkstemp", "temp_compress_file", <<"gzip", buf[p]>>)
                  \/ HasWritten(p, "gpg write", "unlink 1", "output_file", <<"gpg", buf[p]>>)
            \/ /\ Program[p] = "myunzip"
               /\ \/ HasWritten(p, "gpg write", "mkdir", "temp_compress_file", buf[p][2])
                  \/ HasWritten(p, "gzip write", "tar", "temp_tar_file", buf[p][2])
<1>1. PICK layer \in Layers :
        LET c == Command(p)[layer]
            new == IF c.kind = "add" THEN <<layer, buf[p]>> ELSE buf[p][2] IN
        /\ Go(p, Writing[layer], c.next)
        /\ \E content \in {new} \cup (IF data[out[p]][c.to] \in {Empty, new} THEN {} ELSE {Garbled}) :
             data' = [data EXCEPT ![out[p]][c.to] = content]
        /\ out' = [out EXCEPT ![p] = NoFile]
        /\ buf' = [buf EXCEPT ![p] = Empty]
        /\ UNCHANGED <<dir, snapshot, unpacked>>
  BY DEF WriteCommand
<1>2. PICK n : n = Command(p)[layer].to
  OBVIOUS
<1>3. PICK new : new = IF Command(p)[layer].kind = "add" THEN <<layer, buf[p]>> ELSE buf[p][2]
  OBVIOUS
<1>4. PICK content : /\ content = new \/ (data[out[p]][n] # Empty /\ content = Garbled)
                     /\ Put(data, out[p], n, content, data')
  BY <1>1, <1>2, <1>3 DEF Put
<1>5. PICK there : there = Command(p)[layer].next
  OBVIOUS
<1>6. Go(p, Writing[layer], there) /\ there \in Labels
  BY <1>1, <1>5, CommandTable
<1>7. pc[p] = Writing[layer] /\ pc'[p] = there /\ pc' \in [Runs -> Labels] /\ \A q \in Runs \ {p} : pc'[q] = pc[q]
  BY <1>6, Gone
<1>8. BufOK(p) /\ out[p] \in Zippers /\ DataOK(data)
  BY <1>7, LabelRows DEF ZipTypes, Commanding, Layers
<1>9. UNCHANGED <<dir, snapshot, unpacked>> /\ buf' = [buf EXCEPT ![p] = Empty] /\ out' = [out EXCEPT ![p] = NoFile]
  BY <1>1
<1>10. ASSUME n \in Names, new \in Holds(n), NEW here, here = Writing[layer]
       PROVE  DataOK(data') /\ HasWritten(p, here, there, n, new)
  <2>1. content \in Holds(n)
    BY <1>4, <1>10, EmptyHolds
  <2>2. /\ DataOK(data') /\ data'[out[p]][n] = content
        /\ \A q \in Zippers, m \in Names : q # out[p] \/ m # n => data'[q][m] = data[q][m]
    BY <1>4, <1>8, <1>10, <2>1, DataUpdate
  <2> QED  BY <1>4, <1>7, <1>8, <1>10, <2>2 DEF HasWritten
<1>11. CASE Program[p] = "myzip"
  <2>1. CASE layer = "tar"
    <3>1. n = "temp_tar_file" /\ new = <<"tar", buf[p]>> /\ there = "gzip" /\ n \in Names
      BY <1>2, <1>3, <1>5, <1>11, <2>1, CommandRows DEF Names
    <3>2. new \in Holds(n)
      BY <1>7, <1>8, <2>1, <3>1, LabelRows, Contents DEF BufOK, Holds
    <3>3. DataOK(data') /\ HasWritten(p, "tar write", "gzip", "temp_tar_file", <<"tar", buf[p]>>)
      BY <1>10, <2>1, <3>1, <3>2, LabelRows
    <3> QED  BY <1>7, <1>9, <1>11, <3>3
  <2>2. CASE layer = "gzip"
    <3>1. n = "temp_compress_file" /\ new = <<"gzip", buf[p]>> /\ there = "mkstemp" /\ n \in Names
      BY <1>2, <1>3, <1>5, <1>11, <2>2, CommandRows DEF Names
    <3>2. new \in Holds(n)
      BY <1>7, <1>8, <1>11, <2>2, <3>1, LabelRows, Contents DEF BufOK, Holds
    <3>3. DataOK(data') /\ HasWritten(p, "gzip write", "mkstemp", "temp_compress_file", <<"gzip", buf[p]>>)
      BY <1>10, <2>2, <3>1, <3>2, LabelRows
    <3> QED  BY <1>7, <1>9, <1>11, <3>3
  <2>3. CASE layer = "gpg"
    <3>1. n = "output_file" /\ new = <<"gpg", buf[p]>> /\ there = "unlink 1" /\ n \in Names
      BY <1>2, <1>3, <1>5, <1>11, <2>3, CommandRows DEF Names
    <3>2. new \in Holds(n)
      BY <1>7, <1>8, <1>11, <2>3, <3>1, LabelRows, Contents DEF BufOK, Holds
    <3>3. DataOK(data') /\ HasWritten(p, "gpg write", "unlink 1", "output_file", <<"gpg", buf[p]>>)
      BY <1>10, <2>3, <3>1, <3>2, LabelRows
    <3> QED  BY <1>7, <1>9, <1>11, <3>3
  <2> QED  BY <2>1, <2>2, <2>3 DEF Layers
<1>12. CASE Program[p] = "myunzip"
  <2>1. layer # "tar"
    BY <1>7, <1>8, <1>12, LabelRows DEF BufOK
  <2>2. CASE layer = "gzip"
    <3>1. n = "temp_tar_file" /\ new = buf[p][2] /\ there = "tar" /\ n \in Names
      BY <1>2, <1>3, <1>5, <1>12, <2>2, CommandRows DEF Names
    <3>2. new \in Holds(n)
      BY <1>7, <1>8, <1>12, <2>2, <3>1, LabelRows, Contents DEF BufOK, Holds
    <3>3. DataOK(data') /\ HasWritten(p, "gzip write", "tar", "temp_tar_file", buf[p][2])
      BY <1>10, <2>2, <3>1, <3>2, LabelRows
    <3> QED  BY <1>7, <1>9, <1>12, <3>3
  <2>3. CASE layer = "gpg"
    <3>1. n = "temp_compress_file" /\ new = buf[p][2] /\ there = "mkdir" /\ n \in Names
      BY <1>2, <1>3, <1>5, <1>12, <2>3, CommandRows DEF Names
    <3>2. new \in Holds(n)
      BY <1>7, <1>8, <1>12, <2>3, <3>1, LabelRows, Contents DEF BufOK, Holds
    <3>3. DataOK(data') /\ HasWritten(p, "gpg write", "mkdir", "temp_compress_file", buf[p][2])
      BY <1>10, <2>3, <3>1, <3>2, LabelRows
    <3> QED  BY <1>7, <1>9, <1>12, <3>3
  <2> QED  BY <2>1, <2>2, <2>3 DEF Layers
<1> QED  BY <1>11, <1>12, CommandRows
LEMMA WriteTypes ==
  ASSUME ZipTypes, NEW p \in Zippers, WriteCommand(p)
  PROVE  ZipTypes'
<1>1. /\ UNCHANGED <<dir, snapshot, unpacked>>
      /\ pc' \in [Runs -> Labels] /\ \A q \in Runs \ {p} : pc'[q] = pc[q]
      /\ buf' = [buf EXCEPT ![p] = Empty] /\ out' = [out EXCEPT ![p] = NoFile]
      /\ DataOK(data')
  BY WriteStepRow
<1>2. pc'[p] \in {"gzip", "mkstemp", "unlink 1", "mkdir", "tar"}
  BY WriteStepRow DEF HasWritten
<1>3. SnapshotOK(snapshot[p])
  BY DEF ZipTypes
<1>4. /\ buf' = [q \in Zippers |-> buf'[q]] /\ buf'[p] = Empty
      /\ \A q \in Zippers \ {p} : buf'[q] = buf[q]
  BY <1>1 DEF ZipTypes
<1>5. out' \in [Zippers -> Zippers \cup {NoFile}] /\ \A q \in Zippers \ {p} : out'[q] = out[q]
  BY <1>1 DEF ZipTypes
<1>6. BufOK(p)'
  BY <1>2, <1>4, Contents DEF BufOK
<1>7. pc'[p] \notin Commanding
  BY <1>2 DEF Commanding
<1> QED  BY <1>1, <1>3, <1>4, <1>5, <1>6, <1>7, ZipStepTypes DEF ZipTypes

\* mkstemp, mkdir, tar -xf and unlink lead to no command's label.
LEMMA OtherTypes ==
  ASSUME ZipTypes, NEW p \in Zippers, MkstempOrMkdir(p) \/ Extract(p) \/ UnlinkTemporary(p)
  PROVE  ZipTypes'
<1>1. UNCHANGED <<data, out, buf>>
  BY DEF MkstempOrMkdir, Extract, UnlinkTemporary, zip_vars
<1>2. PICK here \in {"mkstemp", "mkdir", "tar", "unlink 1", "unlink 2"},
           there \in {"gpg", "gzip", "unlink 1", "unlink 2", "done"} : Go(p, here, there)
  BY DEF MkstempOrMkdir, Extract, UnlinkTemporary
<1>3. there \in Labels /\ there \notin Commanding /\ BufOK(p) /\ SnapshotOK(snapshot[p]) /\ SnapshotOK(<<>>)
  <2>1. there \in Labels /\ there \notin Commanding
    BY <1>2 DEF Labels, Commanding
  <2>2. BufOK(p) /\ SnapshotOK(snapshot[p])
    BY DEF ZipTypes
  <2> QED  BY <2>1, <2>2, EmptySnapshot
<1>4. pc'[p] = there /\ pc' \in [Runs -> Labels] /\ \A q \in Runs \ {p} : pc'[q] = pc[q]
  BY <1>2, <1>3, Gone
<1>5. BufOK(p)'
  BY <1>1, <1>3, <1>4 DEF BufOK
<1>6. UNCHANGED dir \/ \E n \in Names : dir' = [dir EXCEPT ![n] = NoFile]
  BY DEF MkstempOrMkdir, Extract, UnlinkTemporary, zip_vars, TempNames, Names
<1>7. dir' \in [Names -> Zippers \cup {NoFile}]
  BY <1>6 DEF ZipTypes
<1>8. UNCHANGED snapshot \/ snapshot' = [snapshot EXCEPT ![p] = <<>>]
  BY DEF MkstempOrMkdir, Extract, UnlinkTemporary, zip_vars
<1>9. /\ snapshot' = [q \in Zippers |-> snapshot'[q]] /\ snapshot'[p] \in {snapshot[p], <<>>}
      /\ \A q \in Zippers \ {p} : snapshot'[q] = snapshot[q]
  BY <1>8 DEF ZipTypes
<1>10. unpacked' \in {Empty} \cup Directories
  <2>1. CASE UNCHANGED unpacked
    BY <2>1 DEF ZipTypes
  <2>2. CASE /\ dir["temp_tar_file"] # NoFile /\ Expected("tar", Content("temp_tar_file"))
             /\ Content("temp_tar_file") # Empty /\ unpacked' = Content("temp_tar_file")[2]
    <3>1. "temp_tar_file" \in Names
      BY DEF Names
    <3>2. Content("temp_tar_file") \in Archives
      BY <2>2, <3>1 DEF ZipTypes, DataOK, Content, Holds
    <3> QED  BY <2>2, <3>2, Peeled
  <2> QED  BY <2>1, <2>2 DEF MkstempOrMkdir, Extract, UnlinkTemporary, zip_vars
<1> QED  BY <1>1, <1>3, <1>4, <1>5, <1>7, <1>9, <1>10, ZipStepTypes DEF ZipTypes

\* A run that fails or is stopped has no command any more.
LEMMA FailStepRow ==
  ASSUME ZipTypes, NEW p \in Zippers, FailOrStop(p)
  PROVE  /\ UNCHANGED <<dir, data, unpacked>> /\ pc[p] \notin Idle /\ pc'[p] = "failed"
         /\ pc' \in [Runs -> Labels] /\ \A q \in Runs \ {p} : pc'[q] = pc[q]
         /\ out' \in [Zippers -> Zippers \cup {NoFile}] /\ \A q \in Zippers \ {p} : out'[q] = out[q]
         /\ buf' = [q \in Zippers |-> buf'[q]] /\ buf'[p] = Empty /\ \A q \in Zippers \ {p} : buf'[q] = buf[q]
         /\ snapshot' = [q \in Zippers |-> snapshot'[q]] /\ snapshot'[p] = <<>>
         /\ \A q \in Zippers \ {p} : snapshot'[q] = snapshot[q]
<1>1. p \in Runs /\ "failed" \in Labels
  BY DEF Runs, Labels
<1> QED  BY <1>1 DEF FailOrStop, ZipTypes

LEMMA FailTypes ==
  ASSUME ZipTypes, NEW p \in Zippers, FailOrStop(p)
  PROVE  ZipTypes'
<1>1. BufOK(p)'
  <2>1. buf'[p] = Empty /\ pc'[p] = "failed"
    BY FailStepRow
  <2> QED  BY <2>1, Contents DEF BufOK
<1>2. SnapshotOK(snapshot'[p]) /\ pc'[p] \notin Commanding
  BY FailStepRow, EmptySnapshot DEF Commanding
<1> QED  BY <1>1, <1>2, FailStepRow, ZipStepTypes DEF ZipTypes

\* The other steps concern no file of the archive programs.
LEMMA ElsewhereTypes ==
  ASSUME ZipTypes, UNCHANGED zip_vars,
         pc' \in [Runs -> Labels], \A p \in Zippers : pc'[p] = pc[p] \/ pc'[p] \in {"tar", "gpg"}
  PROVE  ZipTypes'
<1>1. UNCHANGED <<dir, data, out, buf, snapshot, unpacked>>
  BY DEF zip_vars
<1>2. ASSUME NEW p \in Zippers
      PROVE  BufOK(p)' /\ SnapshotOK(snapshot'[p]) /\ (pc'[p] \in Commanding => out'[p] \in Zippers)
  BY <1>1 DEF ZipTypes, BufOK, Commanding
<1> QED  BY <1>1, <1>2 DEF ZipTypes

-----------------------------------------------------------------------------
(* The files of the codec: a run reads and writes only what exists.          *)

ReadFile(p) == IF Program[p] = "decode" THEN "dst" ELSE "src"

CoderTypes ==
  /\ original \in Originals /\ file \in [Files -> FileContent]
  /\ textin = [p \in Coders |-> textin[p]] /\ fileSize = [p \in Coders |-> fileSize[p]]
  /\ \A p \in Coders :
       /\ textin[p] \in Seq(Byte) /\ fileSize[p] \in Nat
       /\ pc[p] = "read" => file[ReadFile(p)] \in Seq(Byte)
       /\ pc[p] \in {"flush", "check", "check read"} => file[Output(p)] \in Seq(Byte)
       /\ pc[p] \in {"check", "check read"} => Program[p] = "encode"

\* A set of natural numbers has a least one.
LEMMA HasMinimum ==
  ASSUME NEW S \in SUBSET Nat, S # {}
  PROVE  \E k \in S : \A l \in S : k <= l
<1> DEFINE R == {p \in Nat \X Nat : p[1] < p[2]}
<1>1. IsWellFoundedOn(R, Nat)
  BY NatLessThanWellFounded DEF OpToRel
<1> HIDE DEF R
<1>2. PICK k \in S : \A l \in S : <<l, k>> \notin R
  BY <1>1, WFMin
<1>3. \A l \in S : ~(l < k)
  BY <1>2 DEF R
<1> QED  BY <1>3

LEMMA CStringBytes ==
  ASSUME NEW s \in Seq(Byte)
  PROVE  CString(s) \in Seq(Byte)
<1> DEFINE zeros == {k \in DOMAIN s : s[k] = 0}
           first == CHOOSE k \in zeros : \A l \in zeros : k <= l
<1>1. CString(s) = IF zeros = {} THEN s ELSE SubSeq(s, 1, first - 1)
  BY DEF CString
<1>2. ASSUME zeros # {}
      PROVE  first \in 1..Len(s)
  <2>1. zeros \subseteq Nat /\ zeros \subseteq 1..Len(s)
    BY SeqElements
  <2>2. \E k \in zeros : \A l \in zeros : k <= l
    BY <1>2, <2>1, HasMinimum
  <2> HIDE DEF zeros
  <2>3. first \in zeros
    BY <2>2
  <2> QED  BY <2>1, <2>3
<1> HIDE DEF zeros, first
<1>3. ASSUME NEW k \in 1..Len(s)
      PROVE  SubSeq(s, 1, k - 1) \in Seq(Byte)
  OBVIOUS
<1> QED  BY <1>1, <1>2, <1>3

LEMMA OverlayBytes ==
  ASSUME NEW s \in Seq(Byte), NEW t \in Seq(Byte)
  PROVE  Overlay(s, t) \in Seq(Byte)
<1>1. SubSeq(s, Len(t) + 1, Len(s)) \in Seq(Byte)
  OBVIOUS
<1> QED  BY <1>1 DEF Overlay

LEMMA LookupByte ==
  ASSUME NEW c, NEW g \in Byte, NEW from \in {0, 26, 52}, NEW first \in Byte
  PROVE  Lookup(Key, from, c, first, g) \in Byte
<1> DEFINE n == CHOOSE i \in from..61 : Key[i] = c /\ \A j \in from..(i - 1) : Key[j] # c
<1>1. CASE \E i \in from..61 : Key[i] = c
  <2> DEFINE found == {i \in from..61 : Key[i] = c}
  <2>1. \E i \in found : \A j \in found : i <= j
    <3>1. found \subseteq Nat /\ found # {}
      BY <1>1
    <3> HIDE DEF found
    <3> QED  BY <3>1, HasMinimum
  <2>2. \E i \in from..61 : Key[i] = c /\ \A j \in from..(i - 1) : Key[j] # c
    <3>1. PICK i \in found : \A j \in found : i <= j
      BY <2>1
    <3>2. \A j \in from..(i - 1) : j \in from..61 /\ ~(i <= j)
      BY <3>1
    <3> QED  BY <3>1, <3>2
  <2>3. n \in from..61
    BY <2>2
  <2> HIDE DEF n
  <2>4. (first + n - from) \in Int
    BY <2>3 DEF Byte
  <2>5. (first + n - from) % 256 \in Byte
    BY <2>4 DEF Byte
  <2>6. Lookup(Key, from, c, first, g) = (first + n - from) % 256
    BY <1>1 DEF Lookup, n
  <2> QED  BY <2>5, <2>6
<1>2. CASE ~\E i \in from..61 : Key[i] = c
  BY <1>2 DEF Lookup
<1> QED  BY <1>1, <1>2

LEMMA ConvertedBytes ==
  ASSUME NEW s \in Seq(Byte)
  PROVE  /\ Encode(Key, s) \in Seq(Byte)
         /\ \A g \in [DOMAIN s -> Garbage] : Decode(Key, s, g) \in Seq(Byte)
<1>1. Len(s) \in Nat /\ DOMAIN s = 1..Len(s) /\ \A k \in 1..Len(s) : s[k] \in Byte
  BY SeqElements
<1>2. \A c \in Byte : EncodeChar(Key, c) \in Byte
  <2>1. \A n \in 0..61 : Key[n] \in Byte
    <3>1. Key \in [0..61 -> 1..127] /\ \A c \in 1..127 : c \in Byte
      <4>1. Key \in [0..61 -> 1..127]
        BY CodecAssumption DEF ValidKey
      <4>2. \A c \in 1..127 : c \in Byte
        BY DEF Byte
      <4> QED  BY <4>1, <4>2
    <3> QED  BY <3>1
  <2>2. (\A c \in Lower : c - 97 \in 0..61) /\ \A c \in Upper : c - 65 + 26 \in 0..61
    BY DEF Lower, Upper
  <2> QED  BY <2>1, <2>2 DEF EncodeChar
<1>3. Encode(Key, s) \in [1..Len(s) -> Byte]
  BY <1>1, <1>2 DEF Encode
<1>4. ASSUME NEW g \in [DOMAIN s -> Garbage]
      PROVE  Decode(Key, s, g) \in Seq(Byte)
  <2>1. \A c \in Byte, b \in Byte : DecodeChar(Key, c, b) \in Byte
    <3>1. 97 \in Byte /\ 65 \in Byte /\ 48 \in Byte
      BY DEF Byte
    <3> QED  BY <3>1, LookupByte DEF DecodeChar
  <2>2. \A k \in 1..Len(s) : g[k] \in Byte
    BY <1>1, CodecAssumption
  <2>3. Decode(Key, s, g) \in [1..Len(s) -> Byte]
    BY <1>1, <2>1, <2>2 DEF Decode
  <2> QED  BY <1>1, <2>3, SeqOf
<1> QED  BY <1>1, <1>3, <1>4, SeqOf
\* A step of coder p: the files that there are remain, the texts of the others too.
LEMMA CoderStepTypes ==
  ASSUME CoderTypes, NEW p \in Coders, UNCHANGED original,
         \A q \in Coders \ {p} : pc'[q] = pc[q],
         file' \in [Files -> FileContent],
         \A f \in Files : file[f] \in Seq(Byte) => file'[f] \in Seq(Byte),
         textin' = [q \in Coders |-> textin'[q]], \A q \in Coders \ {p} : textin'[q] = textin[q],
         fileSize' = [q \in Coders |-> fileSize'[q]], \A q \in Coders \ {p} : fileSize'[q] = fileSize[q],
         textin'[p] \in Seq(Byte), fileSize'[p] \in Nat,
         pc'[p] = "read" => file'[ReadFile(p)] \in Seq(Byte),
         pc'[p] \in {"flush", "check", "check read"} => file'[Output(p)] \in Seq(Byte),
         pc'[p] \in {"check", "check read"} => Program[p] = "encode"
  PROVE  CoderTypes'
<1>1. \A q \in Coders : ReadFile(q) \in Files /\ Output(q) \in Files
  BY DEF ReadFile, Output, Files
<1>2. ASSUME NEW q \in Coders \ {p}
      PROVE  /\ textin'[q] \in Seq(Byte) /\ fileSize'[q] \in Nat
             /\ pc'[q] = "read" => file'[ReadFile(q)] \in Seq(Byte)
             /\ pc'[q] \in {"flush", "check", "check read"} => file'[Output(q)] \in Seq(Byte)
             /\ pc'[q] \in {"check", "check read"} => Program[q] = "encode"
  BY <1>1 DEF CoderTypes
<1> QED  BY <1>2 DEF CoderTypes, ReadFile, Output

LEMMA OpenCoderTypes ==
  ASSUME ZipTypes, CoderTypes, NEW p \in Coders, OpenAndMeasure(p), UNCHANGED original
  PROVE  CoderTypes'
<1>1. UNCHANGED <<file, textin>> /\ p \in Runs /\ Coders \subseteq Runs
  BY DEF OpenAndMeasure, Runs
<1>2. PICK n : n = IF file[Input(p)] = Missing THEN 0 ELSE Len(file[Input(p)])
  OBVIOUS
<1>3. fileSize' = [fileSize EXCEPT ![p] = n]
  <2>1. fileSize' = [fileSize EXCEPT ![p] = IF file[Input(p)] = Missing THEN 0 ELSE Len(file[Input(p)])]
    BY DEF OpenAndMeasure
  <2> QED  BY <1>2, <2>1
<1>4. Input(p) \in Files /\ file \in [Files -> FileContent] /\ \A s \in Seq(Byte) : Len(s) \in Nat
  <2>1. Input(p) \in Files
    BY DEF Input, Files
  <2>2. \A s \in Seq(Byte) : Len(s) \in Nat
    BY SeqElements
  <2> QED  BY <2>1, <2>2 DEF CoderTypes
<1>5. n \in Nat
  <2>1. file[Input(p)] = Missing \/ file[Input(p)] \in Seq(Byte)
    BY <1>4 DEF FileContent
  <2> QED  BY <1>2, <1>4, <2>1
<1>6. /\ fileSize' = [q \in Coders |-> fileSize'[q]] /\ fileSize'[p] \in Nat
      /\ \A q \in Coders \ {p} : fileSize'[q] = fileSize[q]
  BY <1>3, <1>5 DEF CoderTypes
<1>7. \/ pc[p] = "open" /\ pc'[p] = "failed"
      \/ pc[p] = "open" /\ pc'[p] = "read" /\ file[Input(p)] # Missing
      \/ pc[p] = "check" /\ pc'[p] = "check read"
  BY <1>1 DEF OpenAndMeasure, Go, ZipTypes
<1>8. \A q \in Coders \ {p} : pc'[q] = pc[q]
  BY <1>1 DEF OpenAndMeasure, Go, ZipTypes
<1>9. pc'[p] = "read" => file'[ReadFile(p)] \in Seq(Byte)
  <2>1. pc[p] = "open" => ReadFile(p) = Input(p)
    BY DEF ReadFile, Input
  <2> QED  BY <1>1, <1>4, <1>7, <2>1 DEF FileContent
<1>10. textin' = [q \in Coders |-> textin'[q]] /\ textin'[p] \in Seq(Byte)
       /\ (pc[p] = "check" => file[Output(p)] \in Seq(Byte) /\ Program[p] = "encode")
  BY <1>1 DEF CoderTypes
<1> QED  BY <1>1, <1>4, <1>6, <1>7, <1>8, <1>9, <1>10, CoderStepTypes

LEMMA ReadCoderTypes ==
  ASSUME ZipTypes, CoderTypes, NEW p \in Coders, ReadText(p), UNCHANGED original
  PROVE  CoderTypes'
<1>1. UNCHANGED file /\ p \in Runs /\ Coders \subseteq Runs
  BY DEF ReadText, Runs
<1>2. /\ file \in [Files -> FileContent]
      /\ textin = [q \in Coders |-> textin[q]] /\ fileSize = [q \in Coders |-> fileSize[q]]
      /\ textin[p] \in Seq(Byte) /\ fileSize[p] \in Nat
  BY DEF CoderTypes
<1>3. \A q \in Coders \ {p} : pc'[q] = pc[q]
  BY <1>1 DEF ReadText, Go, ZipTypes
<1>4. pc'[p] \in {"create", "failed", "done"}
  BY <1>1 DEF ReadText, Go, ZipTypes
<1>5. CASE /\ ~(Len(file[Input(p)]) < fileSize[p]) /\ Go(p, "read", "create")
           /\ textin' = [textin EXCEPT ![p] = SubSeq(file[Input(p)], 1, fileSize[p])] /\ UNCHANGED fileSize
  <2>1. file[Input(p)] \in Seq(Byte)
    BY <1>5 DEF Go, CoderTypes, Input, ReadFile
  <2>2. SubSeq(file[Input(p)], 1, fileSize[p]) \in Seq(Byte)
    BY <1>2, <1>5, <2>1
  <2>3. PICK s \in Seq(Byte) : s = SubSeq(file[Input(p)], 1, fileSize[p])
    BY <2>2
  <2>4. textin' = [q \in Coders |-> textin'[q]] /\ textin'[p] \in Seq(Byte)
        /\ \A q \in Coders \ {p} : textin'[q] = textin[q]
    BY <1>2, <1>5, <2>3
  <2> QED  BY <1>1, <1>2, <1>3, <1>4, <1>5, <2>4, CoderStepTypes
<1>6. CASE FreeTexts(p)
  <2>1. /\ textin' = [q \in Coders |-> textin'[q]] /\ textin'[p] = <<>>
        /\ \A q \in Coders \ {p} : textin'[q] = textin[q]
    BY <1>2, <1>6 DEF FreeTexts
  <2>2. /\ fileSize' = [q \in Coders |-> fileSize'[q]] /\ fileSize'[p] = 0
        /\ \A q \in Coders \ {p} : fileSize'[q] = fileSize[q]
    BY <1>2, <1>6 DEF FreeTexts
  <2>3. textin'[p] \in Seq(Byte) /\ fileSize'[p] \in Nat
    <3>1. <<>> \in Seq(Byte) /\ 0 \in Nat
      OBVIOUS
    <3> QED  BY <2>1, <2>2, <3>1
  <2> QED  BY <1>1, <1>2, <1>3, <1>4, <2>1, <2>2, <2>3, CoderStepTypes
<1> QED  BY <1>5, <1>6 DEF ReadText

LEMMA CreateCoderTypes ==
  ASSUME ZipTypes, CoderTypes, NEW p \in Coders, CreateOutput(p), UNCHANGED original
  PROVE  CoderTypes'
<1>1. UNCHANGED <<textin, fileSize>> /\ p \in Runs /\ Coders \subseteq Runs /\ Output(p) \in Files
  BY DEF CreateOutput, Runs, coder_vars, Output, Files
<1>2. /\ file \in [Files -> FileContent]
      /\ textin = [q \in Coders |-> textin[q]] /\ fileSize = [q \in Coders |-> fileSize[q]]
      /\ textin[p] \in Seq(Byte) /\ fileSize[p] \in Nat
  BY DEF CoderTypes
<1>3. pc'[p] = "flush" /\ \A q \in Coders \ {p} : pc'[q] = pc[q]
  BY <1>1 DEF CreateOutput, Go, ZipTypes
<1>4. <<>> \in Seq(Byte) /\ <<>> \in FileContent
  BY DEF FileContent
<1>5. /\ file' \in [Files -> FileContent] /\ file'[Output(p)] \in Seq(Byte)
      /\ \A f \in Files : file[f] \in Seq(Byte) => file'[f] \in Seq(Byte)
  BY <1>1, <1>2, <1>4 DEF CreateOutput
<1> QED  BY <1>1, <1>2, <1>3, <1>5, CoderStepTypes

LEMMA WriteCoderTypes ==
  ASSUME ZipTypes, CoderTypes, NEW p \in Coders, WriteOutput(p), UNCHANGED original
  PROVE  CoderTypes'
<1>1. p \in Runs /\ Coders \subseteq Runs /\ Output(p) \in Files
  BY DEF Runs, Output, Files
<1>2. /\ file \in [Files -> FileContent]
      /\ textin = [q \in Coders |-> textin[q]] /\ fileSize = [q \in Coders |-> fileSize[q]]
      /\ textin[p] \in Seq(Byte) /\ fileSize[p] \in Nat
  BY DEF CoderTypes
<1>3. /\ pc[p] = "flush" /\ pc'[p] = (IF Program[p] = "encode" THEN "check" ELSE "done")
      /\ \A q \in Coders \ {p} : pc'[q] = pc[q]
  BY <1>1 DEF WriteOutput, Go, ZipTypes
<1>4. file[Output(p)] \in Seq(Byte)
  BY <1>3 DEF CoderTypes
<1>5. PICK g \in [DOMAIN textin[p] -> Garbage] :
        LET textout == IF Program[p] = "encode" THEN Encode(Key, textin[p])
                                                ELSE Decode(Key, textin[p], g) IN
        file' = [file EXCEPT ![Output(p)] = Overlay(@, CString(textout))]
  BY DEF WriteOutput
<1>6. PICK textout : textout = IF Program[p] = "encode" THEN Encode(Key, textin[p])
                                                        ELSE Decode(Key, textin[p], g)
  OBVIOUS
<1>7. textout \in Seq(Byte)
  BY <1>2, <1>5, <1>6, ConvertedBytes
<1>8. Overlay(file[Output(p)], CString(textout)) \in Seq(Byte)
  BY <1>4, <1>7, CStringBytes, OverlayBytes
<1>9. PICK s \in Seq(Byte) : file' = [file EXCEPT ![Output(p)] = s]
  BY <1>5, <1>6, <1>8
<1>10. /\ file' \in [Files -> FileContent] /\ file'[Output(p)] \in Seq(Byte)
       /\ \A f \in Files : file[f] \in Seq(Byte) => file'[f] \in Seq(Byte)
  BY <1>1, <1>2, <1>9 DEF FileContent
<1>11. \/ UNCHANGED <<textin, fileSize>>
       \/ FreeTexts(p)
  BY DEF WriteOutput, coder_vars
<1>12. /\ textin' = [q \in Coders |-> textin'[q]] /\ textin'[p] \in {textin[p], <<>>}
       /\ \A q \in Coders \ {p} : textin'[q] = textin[q]
  BY <1>2, <1>11 DEF FreeTexts
<1>13. /\ fileSize' = [q \in Coders |-> fileSize'[q]] /\ fileSize'[p] \in {fileSize[p], 0}
       /\ \A q \in Coders \ {p} : fileSize'[q] = fileSize[q]
  BY <1>2, <1>11 DEF FreeTexts
<1>14. <<>> \in Seq(Byte) /\ 0 \in Nat
  OBVIOUS
<1>15. textin'[p] \in Seq(Byte) /\ fileSize'[p] \in Nat
  BY <1>2, <1>12, <1>13, <1>14
<1> QED  BY <1>1, <1>3, <1>10, <1>12, <1>13, <1>15, CoderStepTypes

\* Steps that leave the coders alone.
LEMMA StopCoderTypes ==
  ASSUME ZipTypes, CoderTypes, NEW p \in Coders, StopCoder(p), UNCHANGED original
  PROVE  CoderTypes'
<1>1. UNCHANGED file /\ pc' = [pc EXCEPT ![p] = "failed"]
      /\ textin' = [textin EXCEPT ![p] = <<>>] /\ fileSize' = [fileSize EXCEPT ![p] = 0]
  BY DEF StopCoder, FreeTexts
<1>2. pc'[p] = "failed" /\ \A q \in Coders \ {p} : pc'[q] = pc[q]
  BY <1>1, CodersByProgram DEF ZipTypes
<1>3. /\ textin' = [q \in Coders |-> textin'[q]] /\ fileSize' = [q \in Coders |-> fileSize'[q]]
      /\ \A q \in Coders \ {p} : textin'[q] = textin[q] /\ fileSize'[q] = fileSize[q]
      /\ textin'[p] = <<>> /\ fileSize'[p] = 0
  BY <1>1 DEF CoderTypes
<1>4. <<>> \in Seq(Byte) /\ 0 \in Nat
  OBVIOUS
<1> QED  BY <1>1, <1>2, <1>3, <1>4, CoderStepTypes DEF CoderTypes

LEMMA CoderIdleTypes ==
  ASSUME CoderTypes, UNCHANGED <<original, file, textin, fileSize>>,
         \A p \in Coders : pc'[p] = pc[p] \/ pc'[p] \notin {"read", "flush", "check", "check read"}
  PROVE  CoderTypes'
  BY DEF CoderTypes, Output, ReadFile

LEMMA ExerciseTypeNext ==
  ASSUME ZipTypes, CoderTypes, [Next]_vars
  PROVE  ZipTypes' /\ CoderTypes'
<1>1. pc \in [Runs -> Labels] /\ file \in [Files -> FileContent]
  BY DEF ZipTypes, CoderTypes
<1>2. CASE \E p \in Runs : Start(p)
  <2>1. PICK p \in Runs : Start(p)
    BY <1>2
  <2>2. UNCHANGED <<original, file, textin, fileSize, zip_vars>>
    BY <2>1 DEF Start, coder_vars
  <2>3. PICK there \in {"open", "tar", "gpg"} : pc' = [pc EXCEPT ![p] = there] /\ (p \in Zippers => there # "open")
    BY <2>1, ZipAssumption DEF Start, Go
  <2>4. pc' \in [Runs -> Labels]
    BY <1>1, <2>3 DEF Labels
  <2>5. \A q \in Runs : pc'[q] = pc[q] \/ (q = p /\ pc'[q] = there)
    BY <1>1, <2>3
  <2>6. ZipTypes'
    BY <2>2, <2>3, <2>4, <2>5, ElsewhereTypes, CodersByProgram
  <2>7. CoderTypes'
    BY <2>2, <2>5, CoderIdleTypes, CodersByProgram
  <2> QED  BY <2>6, <2>7
<1>3. CASE \E p \in Coders : CoderNext(p) /\ UNCHANGED zip_vars
  <2>1. PICK p \in Coders : CoderNext(p) /\ UNCHANGED zip_vars
    BY <1>3
  <2>2. \E there \in Labels : pc' = [pc EXCEPT ![p] = there]
    BY <2>1 DEF CoderNext, OpenAndMeasure, ReadText, CreateOutput, WriteOutput, StopCoder, Go, Labels
  <2>3. pc' \in [Runs -> Labels] /\ \A q \in Zippers : pc'[q] = pc[q]
    BY <1>1, <2>2, CodersByProgram
  <2>4. ZipTypes'
    BY <2>1, <2>3, ElsewhereTypes
  <2>5. CoderTypes'
    BY <2>1, OpenCoderTypes, ReadCoderTypes, CreateCoderTypes, WriteCoderTypes, StopCoderTypes DEF CoderNext
  <2> QED  BY <2>4, <2>5
<1>4. CASE \E p \in Zippers : ZipNext(p)
  <2>1. PICK p \in Zippers : ZipNext(p)
    BY <1>4
  <2>2. UNCHANGED <<original, file, textin, fileSize>>
    BY <2>1 DEF ZipNext, coder_vars
  <2>3. \A q \in Coders : pc'[q] = pc[q]
    <3>1. UNCHANGED pc \/ \E there \in Labels : pc' = [pc EXCEPT ![p] = there]
      BY <2>1, ZipGoes
    <3> QED  BY <1>1, <3>1, CodersByProgram
  <2>4. ZipTypes'
    BY <1>1, <2>1, OpenTypes, TarTypes, ReadTypes, WriteTypes, OtherTypes, FailTypes DEF ZipNext
  <2> QED  BY <2>2, <2>3, <2>4, CoderIdleTypes
<1>5. CASE UNCHANGED vars
  <2>1. UNCHANGED <<original, file, pc, textin, fileSize, zip_vars>>
    BY <1>5 DEF vars, coder_vars
  <2> QED  BY <1>1, <2>1, ElsewhereTypes, CoderIdleTypes
<1> QED  BY <1>2, <1>3, <1>4, <1>5 DEF Next

LEMMA ExerciseTypes == Spec => [](ZipTypes /\ CoderTypes)
<1>1. Init => CoderTypes
  <2> SUFFICES ASSUME Init PROVE CoderTypes
    OBVIOUS
  <2>1. /\ original \in Originals /\ file = [src |-> original, dst |-> Missing]
        /\ textin = [p \in Coders |-> <<>>] /\ fileSize = [p \in Coders |-> 0]
        /\ pc = [p \in Runs |-> "new"]
    BY DEF Init, CodecInit
  <2>2. original \in Seq(Byte)
    BY <2>1, CodecAssumption, AsciiBytes DEF Ascii
  <2>3. file \in [Files -> FileContent]
    BY <2>1, <2>2 DEF Files, FileContent
  <2>4. \A p \in Coders : pc[p] = "new" /\ textin[p] = <<>> /\ fileSize[p] = 0
    BY <2>1, CodersByProgram
  <2>5. <<>> \in Seq(Byte)
    OBVIOUS
  <2> QED  BY <2>1, <2>3, <2>4, <2>5 DEF CoderTypes
<1> QED  BY <1>1, ZipTypesInit, ExerciseTypeNext, PTL DEF Spec

(***************************************************************************)
(* The types of Exercise1: whatever runs of the four programs do with the  *)
(* same names, a command finds the layers that the name of its file says,  *)
(* or garbled data on which it fails, and nothing else is ever unpacked    *)
(* than what tar has read.                                                 *)
(***************************************************************************)
THEOREM ExerciseTypeOK == Spec => []TypeOK
<1>1. ZipTypes /\ CoderTypes => TypeOK
  <2> SUFFICES ASSUME ZipTypes, CoderTypes PROVE TypeOK
    OBVIOUS
  <2>1. /\ original \in Originals /\ file \in [Files -> Seq(Byte) \cup {Missing}]
        /\ \A p \in Coders : textin[p] \in Seq(Byte) /\ fileSize[p] \in Nat
    BY DEF CoderTypes, FileContent
  <2>2. \A p \in Zippers : /\ data[p]["temp_tar_file"] \in Archives
                           /\ data[p]["temp_compress_file"] \in Compressed
                           /\ data[p]["output_file"] \in Encrypted
    BY DEF ZipTypes, DataOK, Holds, Names
  <2>3. buf \in [Zippers -> Encrypted \cup Directories]
    BY DEF ZipTypes, BufOK
  <2> QED  BY <2>1, <2>2, <2>3 DEF ZipTypes, TypeOK
<1> QED  BY <1>1, ExerciseTypes, PTL

-----------------------------------------------------------------------------
(* A run of myzip or myunzip that is alone.  From when it has opened a file  *)
(* until it is done with it, the name refers to this file and nobody else    *)
(* writes it.                                                                *)

\* A run of myzip or myunzip that is under way beside another one, or of myzip
\* beside a decode, is disturbed.
ZipOverlaps ==
  \A q \in Zippers \cap Active : \A r \in Active \ {q} :
    r \in Zippers \/ (Program[q] = "myzip" /\ r \in Decoders) => q \in disturbed

\* The file of name n is the one p has open, and p has written nothing yet.
OpenFor(p, n) == dir[n] \in Zippers /\ out[p] = dir[n] /\ Content(n) = Empty

Named(n, content) == dir[n] \in Zippers /\ Content(n) = content

Archive(p) == <<"tar", <<"files", snapshot[p]>>>>

Zipping(p) ==
  /\ pc[p] # "mkdir"
  /\ pc[p] \in {"tar read", "tar write"} => OpenFor(p, "temp_tar_file")
  /\ pc[p] = "tar write" => buf[p] = <<"files", snapshot[p]>>
  /\ pc[p] \in {"gzip", "gzip read", "gzip write"} => Named("temp_tar_file", Archive(p))
  /\ pc[p] \in {"gzip read", "gzip write"} => OpenFor(p, "temp_compress_file")
  /\ pc[p] = "gzip write" => buf[p] = Archive(p)
  /\ pc[p] \in {"mkstemp", "gpg", "gpg read", "gpg write"} =>
       Named("temp_compress_file", <<"gzip", Archive(p)>>)
  /\ pc[p] \in {"gpg read", "gpg write"} => OpenFor(p, "output_file")
  /\ pc[p] = "gpg write" => buf[p] = <<"gzip", Archive(p)>>
  /\ pc[p] \in {"unlink 1", "unlink 2"} => Named("output_file", <<"gpg", <<"gzip", Archive(p)>>>>)
  /\ pc[p] \in {"tar write", "gzip", "gzip read", "gzip write", "mkstemp", "gpg", "gpg read", "gpg write",
                "unlink 1", "unlink 2"} => DOMAIN snapshot[p] = Files

Unzipping(p) ==
  /\ pc[p] # "mkstemp"
  /\ pc[p] \in {"gpg read", "gpg write"} => OpenFor(p, "temp_compress_file")
  /\ pc[p] = "gpg write" => Named("output_file", <<"gpg", buf[p][2]>>)
  /\ pc[p] \in {"mkdir", "gzip", "gzip read", "gzip write"} =>
       dir["temp_compress_file"] \in Zippers /\ Named("output_file", <<"gpg", Content("temp_compress_file")>>)
  /\ pc[p] \in {"gzip read", "gzip write"} => OpenFor(p, "temp_tar_file")
  /\ pc[p] = "gzip write" => Content("temp_compress_file") = <<"gzip", buf[p][2]>>
  /\ pc[p] = "tar" =>
       dir["temp_tar_file"] \in Zippers /\ Named("output_file", <<"gpg", <<"gzip", Content("temp_tar_file")>>>>)
  /\ pc[p] \in {"unlink 1", "unlink 2"} =>
       \E c \in {Empty, <<"tar", unpacked>>} : Named("output_file", <<"gpg", <<"gzip", c>>>>)

ByProgram(p) == IF Program[p] = "myzip" THEN Zipping(p) ELSE Unzipping(p)

AloneInv == ZipOverlaps /\ \A p \in Zippers \ disturbed : ByProgram(p)

LEMMA AloneInit == Init => AloneInv
<1> SUFFICES ASSUME Init PROVE AloneInv
  OBVIOUS
<1>1. pc = [p \in Runs |-> "new"] /\ snapshot = [p \in Zippers |-> <<>>] /\ Zippers \subseteq Runs
  BY DEF Init, ZipInit, Runs
<1>2. Active = {} /\ \A p \in Zippers : pc[p] = "new" /\ snapshot[p] = <<>>
  BY <1>1 DEF Active, Idle
<1>3. \A p \in Zippers : ByProgram(p)
  BY <1>2 DEF ByProgram, Zipping, Unzipping
<1> QED  BY <1>2, <1>3 DEF AloneInv, ZipOverlaps

\* The command of a run that has opened its output.
HasOpened(p, here, there, n) ==
  /\ pc[p] = here /\ pc'[p] = there
  /\ dir'[n] \in Zippers /\ out'[p] = dir'[n] /\ data'[dir'[n]][n] = Empty
  /\ \A m \in Names \ {n} : dir'[m] = dir[m] /\ \A q \in Zippers : data'[q][m] = data[q][m]

LEMMA OpenStepRow ==
  ASSUME ZipTypes, NEW p \in Zippers, OpenCommand(p)
  PROVE  /\ UNCHANGED <<buf, snapshot, unpacked>>
         /\ pc[p] \in {"tar", "gzip", "gpg"} /\ \A q \in Runs \ {p} : pc'[q] = pc[q]
         /\ \/ /\ Program[p] = "myzip"
               /\ \/ HasOpened(p, "tar", "tar read", "temp_tar_file")
                  \/ HasOpened(p, "gzip", "gzip read", "temp_compress_file")
                  \/ HasOpened(p, "gpg", "gpg read", "output_file")
            \/ /\ Program[p] = "myunzip"
               /\ \/ HasOpened(p, "gpg", "gpg read", "temp_compress_file")
                  \/ HasOpened(p, "gzip", "gzip read", "temp_tar_file")
<1>1. PICK layer \in Layers :
        LET c == Command(p)[layer] IN
        /\ c.to # "directory"
        /\ Go(p, layer, Reading[layer]) /\ OpenOutput(p, c.to)
        /\ UNCHANGED <<buf, snapshot, unpacked>>
  BY DEF OpenCommand
<1>2. PICK n : n = Command(p)[layer].to
  OBVIOUS
<1>3. n \in Names /\ n # "directory" /\ UNCHANGED <<buf, snapshot, unpacked>>
  BY <1>1, <1>2, CommandTable
<1>4. Go(p, layer, Reading[layer]) /\ OpenOutput(p, n)
  BY <1>1, <1>2
<1>5. pc[p] = layer /\ pc'[p] = Reading[layer] /\ \A q \in Runs \ {p} : pc'[q] = pc[q]
  BY <1>4, Gone
<1>6. HasOpened(p, layer, Reading[layer], n)
  BY <1>3, <1>4, <1>5, Opened DEF HasOpened
<1>7. CASE layer = "tar"
  <2>1. Program[p] = "myzip" /\ n = "temp_tar_file"
    BY <1>2, <1>3, <1>7, CommandRows
  <2>2. HasOpened(p, "tar", "tar read", "temp_tar_file")
    BY <1>6, <1>7, <2>1, LabelRows
  <2> QED  BY <1>3, <1>5, <1>7, <2>1, <2>2
<1>8. CASE layer = "gzip"
  <2>1. HasOpened(p, "gzip", "gzip read", n)
    BY <1>6, <1>8, LabelRows
  <2>2. \/ Program[p] = "myzip" /\ n = "temp_compress_file"
        \/ Program[p] = "myunzip" /\ n = "temp_tar_file"
    BY <1>2, <1>8, CommandRows
  <2> QED  BY <1>3, <1>5, <1>8, <2>1, <2>2
<1>9. CASE layer = "gpg"
  <2>1. HasOpened(p, "gpg", "gpg read", n)
    BY <1>6, <1>9, LabelRows
  <2>2. \/ Program[p] = "myzip" /\ n = "output_file"
        \/ Program[p] = "myunzip" /\ n = "temp_compress_file"
    BY <1>2, <1>9, CommandRows
  <2> QED  BY <1>3, <1>5, <1>9, <2>1, <2>2
<1> QED  BY <1>7, <1>8, <1>9 DEF Layers

\* What a name refers to, and holds, stays.
LEMMA StaysNamed ==
  ASSUME NEW m, dir'[m] = dir[m], dir[m] \in Zippers, \A q \in Zippers : data'[q][m] = data[q][m]
  PROVE  dir'[m] \in Zippers /\ Content(m)' = Content(m)
  BY DEF Content

LEMMA ZippingOpens ==
  ASSUME ZipTypes, NEW p \in Zippers, Program[p] = "myzip", Zipping(p), OpenCommand(p)
  PROVE  Zipping(p)'
<1>1. UNCHANGED snapshot
  BY OpenStepRow
<1>2. CASE HasOpened(p, "tar", "tar read", "temp_tar_file")
  <2>1. pc'[p] = "tar read" /\ OpenFor(p, "temp_tar_file")'
    BY <1>2 DEF HasOpened, OpenFor, Content
  <2> QED  BY <2>1 DEF Zipping
<1>3. CASE HasOpened(p, "gzip", "gzip read", "temp_compress_file")
  <2>1. pc[p] = "gzip" /\ pc'[p] = "gzip read" /\ OpenFor(p, "temp_compress_file")'
    BY <1>3 DEF HasOpened, OpenFor, Content
  <2>2. Named("temp_tar_file", Archive(p)) /\ DOMAIN snapshot[p] = Files
    BY <2>1 DEF Zipping
  <2>3. Named("temp_tar_file", Archive(p))'
    BY <1>1, <1>3, <2>2, StaysNamed DEF HasOpened, Named, Names, Archive
  <2> QED  BY <1>1, <2>1, <2>2, <2>3 DEF Zipping
<1>4. CASE HasOpened(p, "gpg", "gpg read", "output_file")
  <2>1. pc[p] = "gpg" /\ pc'[p] = "gpg read" /\ OpenFor(p, "output_file")'
    BY <1>4 DEF HasOpened, OpenFor, Content
  <2>2. Named("temp_compress_file", <<"gzip", Archive(p)>>) /\ DOMAIN snapshot[p] = Files
    BY <2>1 DEF Zipping
  <2>3. Named("temp_compress_file", <<"gzip", Archive(p)>>)'
    BY <1>1, <1>4, <2>2, StaysNamed DEF HasOpened, Named, Names, Archive
  <2> QED  BY <1>1, <2>1, <2>2, <2>3 DEF Zipping
<1> QED  BY <1>2, <1>3, <1>4, OpenStepRow

LEMMA ZippingTars ==
  ASSUME ZipTypes, NEW p \in Zippers, Zipping(p), TarReads(p), file \in [Files -> FileContent]
  PROVE  Zipping(p)'
<1>1. UNCHANGED <<dir, data, out>> /\ pc[p] = "tar read"
  BY DEF TarReads, Go
<1>2. OpenFor(p, "temp_tar_file")'
  BY <1>1 DEF Zipping, OpenFor, Content
<1>3. CASE UNCHANGED pc
  <2>1. pc'[p] = "tar read"
    BY <1>1, <1>3
  <2> QED  BY <1>2, <2>1 DEF Zipping
<1>4. CASE /\ Files = DOMAIN snapshot'[p] /\ Go(p, "tar read", "tar write")
           /\ buf' = [buf EXCEPT ![p] = <<"files", snapshot'[p]>>]
  <2>1. buf'[p] = <<"files", snapshot'[p]>>
    BY <1>4 DEF ZipTypes
  <2>2. pc'[p] = "tar write"
    BY <1>4, Gone
  <2> QED  BY <1>2, <1>4, <2>1, <2>2 DEF Zipping
<1> QED  BY <1>3, <1>4, TarStep

LEMMA ZippingReads ==
  ASSUME ZipTypes, NEW p \in Zippers, Program[p] = "myzip", Zipping(p), ReadCommand(p)
  PROVE  Zipping(p)'
<1>1. UNCHANGED <<dir, data, out, snapshot>>
  BY ReadStepRow
<1>2. CASE HasRead(p, "gzip read", "gzip write", "temp_tar_file", "gzip", FALSE)
  <2>1. /\ pc'[p] = "gzip write" /\ buf'[p] = Content("temp_tar_file")
        /\ Named("temp_tar_file", Archive(p)) /\ OpenFor(p, "temp_compress_file") /\ DOMAIN snapshot[p] = Files
    BY <1>2 DEF HasRead, Zipping
  <2>2. /\ buf'[p] = Archive(p)' /\ Named("temp_tar_file", Archive(p))'
        /\ OpenFor(p, "temp_compress_file")'
    BY <1>1, <2>1 DEF Named, OpenFor, Archive, Content
  <2> QED  BY <1>1, <2>1, <2>2 DEF Zipping
<1>3. CASE HasRead(p, "gpg read", "gpg write", "temp_compress_file", "gpg", FALSE)
  <2>1. /\ pc'[p] = "gpg write" /\ buf'[p] = Content("temp_compress_file")
        /\ Named("temp_compress_file", <<"gzip", Archive(p)>>) /\ OpenFor(p, "output_file") /\ DOMAIN snapshot[p] = Files
    BY <1>3 DEF HasRead, Zipping
  <2>2. /\ buf'[p] = <<"gzip", Archive(p)>>' /\ Named("temp_compress_file", <<"gzip", Archive(p)>>)'
        /\ OpenFor(p, "output_file")'
    BY <1>1, <2>1 DEF Named, OpenFor, Archive, Content
  <2> QED  BY <1>1, <2>1, <2>2 DEF Zipping
<1> QED  BY <1>2, <1>3, ReadStepRow

LEMMA ZippingWrites ==
  ASSUME ZipTypes, NEW p \in Zippers, Program[p] = "myzip", Zipping(p), WriteCommand(p)
  PROVE  Zipping(p)'
<1>1. UNCHANGED <<dir, snapshot>>
  BY WriteStepRow
<1>2. ASSUME NEW here, NEW there, NEW n, NEW new, HasWritten(p, here, there, n, new), OpenFor(p, n)
      PROVE  pc[p] = here /\ pc'[p] = there /\ Content(n)' = new /\ dir[n] \in Zippers
  BY <1>1, <1>2 DEF HasWritten, OpenFor, Content
<1>3. CASE HasWritten(p, "tar write", "gzip", "temp_tar_file", <<"tar", buf[p]>>)
  <2>1. pc[p] = "tar write"
    BY <1>3 DEF HasWritten
  <2>2. OpenFor(p, "temp_tar_file") /\ buf[p] = <<"files", snapshot[p]>> /\ DOMAIN snapshot[p] = Files
    BY <2>1 DEF Zipping
  <2>3. pc'[p] = "gzip" /\ Named("temp_tar_file", Archive(p))'
    BY <1>1, <1>2, <1>3, <2>2 DEF Named, Archive
  <2> QED  BY <1>1, <2>2, <2>3 DEF Zipping
<1>4. CASE HasWritten(p, "gzip write", "mkstemp", "temp_compress_file", <<"gzip", buf[p]>>)
  <2>1. pc[p] = "gzip write"
    BY <1>4 DEF HasWritten
  <2>2. OpenFor(p, "temp_compress_file") /\ buf[p] = Archive(p) /\ DOMAIN snapshot[p] = Files
    BY <2>1 DEF Zipping
  <2>3. pc'[p] = "mkstemp" /\ Named("temp_compress_file", <<"gzip", Archive(p)>>)'
    BY <1>1, <1>2, <1>4, <2>2 DEF Named, Archive
  <2> QED  BY <1>1, <2>2, <2>3 DEF Zipping
<1>5. CASE HasWritten(p, "gpg write", "unlink 1", "output_file", <<"gpg", buf[p]>>)
  <2>1. pc[p] = "gpg write"
    BY <1>5 DEF HasWritten
  <2>2. OpenFor(p, "output_file") /\ buf[p] = <<"gzip", Archive(p)>> /\ DOMAIN snapshot[p] = Files
    BY <2>1 DEF Zipping
  <2>3. pc'[p] = "unlink 1" /\ Named("output_file", <<"gpg", <<"gzip", Archive(p)>>>>)'
    BY <1>1, <1>2, <1>5, <2>2 DEF Named, Archive
  <2> QED  BY <1>1, <2>2, <2>3 DEF Zipping
<1> QED  BY <1>3, <1>4, <1>5, WriteStepRow

\* mkstemp, mkdir and unlink: where they lead.
LEMMA OtherStepRow ==
  ASSUME ZipTypes, NEW p \in Zippers, MkstempOrMkdir(p) \/ UnlinkTemporary(p)
  PROVE  /\ UNCHANGED <<data, out, buf, unpacked>> /\ \A q \in Runs \ {p} : pc'[q] = pc[q]
         /\ dir'["output_file"] = dir["output_file"]
         /\ \/ pc'[p] = "done" /\ pc[p] = "unlink 2" /\ snapshot'[p] = <<>>
            \/ UNCHANGED <<dir, snapshot>> /\ pc[p] = "mkstemp" /\ pc'[p] = "gpg"
            \/ UNCHANGED <<dir, snapshot>> /\ pc[p] = "mkdir" /\ pc'[p] = "gzip"
            \/ UNCHANGED snapshot /\ pc[p] = "unlink 1" /\ pc'[p] = "unlink 2"
<1>1. CASE MkstempOrMkdir(p)
  <2>1. Go(p, "mkstemp", "gpg") \/ Go(p, "mkdir", "gzip")
    BY <1>1 DEF MkstempOrMkdir
  <2>2. UNCHANGED <<dir, snapshot, data, out, buf, unpacked>>
    BY <1>1 DEF MkstempOrMkdir, zip_vars
  <2> QED  BY <2>1, <2>2, Gone
<1>2. CASE UnlinkTemporary(p)
  <2>1. \/ Go(p, "unlink 1", "unlink 2") /\ UNCHANGED snapshot
        \/ Go(p, "unlink 2", "done") /\ snapshot'[p] = <<>>
    BY <1>2 DEF UnlinkTemporary, ZipTypes
  <2>2. \E n \in TempNames : dir' = [dir EXCEPT ![n] = NoFile]
    BY <1>2 DEF UnlinkTemporary, TempNames, Names
  <2>3. dir'["output_file"] = dir["output_file"]
    BY <2>2 DEF TempNames, ZipTypes, Names
  <2>4. UNCHANGED <<data, out, buf, unpacked>>
    BY <1>2 DEF UnlinkTemporary
  <2> QED  BY <2>1, <2>3, <2>4, Gone
<1> QED  BY <1>1, <1>2

LEMMA ZippingOther ==
  ASSUME ZipTypes, NEW p \in Zippers, Zipping(p), MkstempOrMkdir(p) \/ UnlinkTemporary(p)
  PROVE  Zipping(p)'
<1>1. UNCHANGED data /\ dir'["output_file"] = dir["output_file"]
  BY OtherStepRow
<1>2. CASE pc'[p] = "done"
  BY <1>2 DEF Zipping
<1>3. CASE UNCHANGED <<dir, snapshot>> /\ pc[p] = "mkstemp" /\ pc'[p] = "gpg"
  <2>1. Named("temp_compress_file", <<"gzip", Archive(p)>>)' /\ DOMAIN snapshot[p] = Files
    BY <1>1, <1>3 DEF Zipping, Named, Archive, Content
  <2> QED  BY <1>3, <2>1 DEF Zipping
<1>4. CASE UNCHANGED snapshot /\ pc[p] = "unlink 1" /\ pc'[p] = "unlink 2"
  <2>1. Named("output_file", <<"gpg", <<"gzip", Archive(p)>>>>)' /\ DOMAIN snapshot[p] = Files
    BY <1>1, <1>4 DEF Zipping, Named, Archive, Content
  <2> QED  BY <1>4, <2>1 DEF Zipping
<1> QED  BY <1>2, <1>3, <1>4, OtherStepRow DEF Zipping

LEMMA UnzippingOpens ==
  ASSUME ZipTypes, NEW p \in Zippers, Program[p] = "myunzip", Unzipping(p), OpenCommand(p)
  PROVE  Unzipping(p)'
<1>1. CASE HasOpened(p, "gpg", "gpg read", "temp_compress_file")
  <2>1. pc'[p] = "gpg read" /\ OpenFor(p, "temp_compress_file")'
    BY <1>1 DEF HasOpened, OpenFor, Content
  <2> QED  BY <2>1 DEF Unzipping
<1>2. CASE HasOpened(p, "gzip", "gzip read", "temp_tar_file")
  <2>1. pc[p] = "gzip" /\ pc'[p] = "gzip read" /\ OpenFor(p, "temp_tar_file")'
    BY <1>2 DEF HasOpened, OpenFor, Content
  <2>2. dir["temp_compress_file"] \in Zippers /\ Named("output_file", <<"gpg", Content("temp_compress_file")>>)
    BY <2>1 DEF Unzipping
  <2>3. /\ dir'["temp_compress_file"] \in Zippers
        /\ Content("temp_compress_file")' = Content("temp_compress_file")
    BY <1>2, <2>2, StaysNamed DEF HasOpened, Names
  <2>4. dir'["output_file"] \in Zippers /\ Content("output_file")' = Content("output_file")
    BY <1>2, <2>2, StaysNamed DEF HasOpened, Named, Names
  <2>5. Named("output_file", <<"gpg", Content("temp_compress_file")>>)'
    BY <2>2, <2>3, <2>4 DEF Named
  <2> QED  BY <2>1, <2>3, <2>5 DEF Unzipping
<1> QED  BY <1>1, <1>2, OpenStepRow

LEMMA UnzippingReads ==
  ASSUME ZipTypes, NEW p \in Zippers, Program[p] = "myunzip", Unzipping(p), ReadCommand(p)
  PROVE  Unzipping(p)'
<1>1. UNCHANGED <<dir, data, out>>
  BY ReadStepRow
<1>2. CASE HasRead(p, "gpg read", "gpg write", "output_file", "gpg", TRUE)
  <2>1. /\ pc'[p] = "gpg write" /\ buf'[p] = Content("output_file") /\ dir["output_file"] \in Zippers
        /\ Expected("gpg", Content("output_file")) /\ Content("output_file") \in Encrypted
        /\ OpenFor(p, "temp_compress_file")
    BY <1>2 DEF HasRead, Holds, Unzipping
  <2>2. Content("output_file") = <<"gpg", buf'[p][2]>>
    BY <2>1, Peeled
  <2>3. Named("output_file", <<"gpg", buf[p][2]>>)' /\ OpenFor(p, "temp_compress_file")'
    BY <1>1, <2>1, <2>2 DEF Named, OpenFor, Content
  <2> QED  BY <2>1, <2>3 DEF Unzipping
<1>3. CASE HasRead(p, "gzip read", "gzip write", "temp_compress_file", "gzip", TRUE)
  <2>1. /\ pc'[p] = "gzip write" /\ buf'[p] = Content("temp_compress_file")
        /\ Expected("gzip", Content("temp_compress_file")) /\ Content("temp_compress_file") \in Compressed
    BY <1>3 DEF HasRead, Holds
  <2>2. /\ dir["temp_compress_file"] \in Zippers
        /\ Named("output_file", <<"gpg", Content("temp_compress_file")>>) /\ OpenFor(p, "temp_tar_file")
    BY <1>3 DEF HasRead, Unzipping
  <2>3. Content("temp_compress_file") = <<"gzip", buf'[p][2]>>
    BY <2>1, Peeled
  <2>4. /\ (dir["temp_compress_file"] \in Zippers)'
        /\ Named("output_file", <<"gpg", Content("temp_compress_file")>>)' /\ OpenFor(p, "temp_tar_file")'
        /\ Content("temp_compress_file")' = <<"gzip", buf'[p][2]>>
    BY <1>1, <2>2, <2>3 DEF Named, OpenFor, Content
  <2> QED  BY <2>1, <2>4 DEF Unzipping
<1> QED  BY <1>2, <1>3, ReadStepRow

LEMMA UnzippingWrites ==
  ASSUME ZipTypes, NEW p \in Zippers, Program[p] = "myunzip", Unzipping(p), WriteCommand(p)
  PROVE  Unzipping(p)'
<1>1. UNCHANGED dir
  BY WriteStepRow
<1>2. CASE HasWritten(p, "gpg write", "mkdir", "temp_compress_file", buf[p][2])
  <2>1. pc[p] = "gpg write" /\ pc'[p] = "mkdir"
    BY <1>2 DEF HasWritten
  <2>2. OpenFor(p, "temp_compress_file") /\ Named("output_file", <<"gpg", buf[p][2]>>)
    BY <2>1 DEF Unzipping
  <2>3. dir'["temp_compress_file"] \in Zippers /\ Content("temp_compress_file")' = buf[p][2]
    BY <1>1, <1>2, <2>2 DEF HasWritten, OpenFor, Content
  <2>4. dir'["output_file"] \in Zippers /\ Content("output_file")' = Content("output_file")
    BY <1>1, <1>2, <2>2, StaysNamed DEF HasWritten, Named, Names
  <2>5. Named("output_file", <<"gpg", Content("temp_compress_file")>>)'
    BY <2>2, <2>3, <2>4 DEF Named
  <2> QED  BY <2>1, <2>3, <2>5 DEF Unzipping
<1>3. CASE HasWritten(p, "gzip write", "tar", "temp_tar_file", buf[p][2])
  <2>1. pc[p] = "gzip write" /\ pc'[p] = "tar"
    BY <1>3 DEF HasWritten
  <2>2. /\ OpenFor(p, "temp_tar_file") /\ Named("output_file", <<"gpg", Content("temp_compress_file")>>)
        /\ Content("temp_compress_file") = <<"gzip", buf[p][2]>>
    BY <2>1 DEF Unzipping
  <2>3. dir'["temp_tar_file"] \in Zippers /\ Content("temp_tar_file")' = buf[p][2]
    BY <1>1, <1>3, <2>2 DEF HasWritten, OpenFor, Content
  <2>4. dir'["output_file"] \in Zippers /\ Content("output_file")' = Content("output_file")
    BY <1>1, <1>3, <2>2, StaysNamed DEF HasWritten, Named, Names
  <2>5. Named("output_file", <<"gpg", <<"gzip", Content("temp_tar_file")>>>>)'
    BY <2>2, <2>3, <2>4 DEF Named
  <2> QED  BY <2>1, <2>3, <2>5 DEF Unzipping
<1> QED  BY <1>2, <1>3, WriteStepRow

LEMMA UnzippingExtracts ==
  ASSUME ZipTypes, NEW p \in Zippers, Unzipping(p), Extract(p)
  PROVE  Unzipping(p)'
<1>1. UNCHANGED <<dir, data>> /\ pc[p] = "tar"
  BY DEF Extract, Go
<1>2. /\ dir["temp_tar_file"] \in Zippers
      /\ Named("output_file", <<"gpg", <<"gzip", Content("temp_tar_file")>>>>)
  BY <1>1 DEF Unzipping
<1>3. /\ Go(p, "tar", "unlink 1") /\ Expected("tar", Content("temp_tar_file"))
      /\ unpacked' = IF Content("temp_tar_file") = Empty THEN unpacked
                     ELSE Content("temp_tar_file")[2]
  BY DEF Extract
<1>4. pc'[p] = "unlink 1"
  BY <1>3, Gone
<1>5. Content("temp_tar_file") \in Archives
  BY <1>2 DEF ZipTypes, DataOK, Content, Holds, Names
<1>6. Content("temp_tar_file") \in {Empty, <<"tar", unpacked'>>}
  BY <1>3, <1>5, Peeled
<1>7. \A c : Named("output_file", c)' = Named("output_file", c)
  BY <1>1 DEF Named, Content
<1>8. \E c \in {Empty, <<"tar", unpacked'>>} : Named("output_file", <<"gpg", <<"gzip", c>>>>)'
  BY <1>2, <1>6, <1>7
<1>9. (\E c \in {Empty, <<"tar", unpacked>>} : Named("output_file", <<"gpg", <<"gzip", c>>>>))'
  BY <1>8 DEF Empty
<1> QED  BY <1>4, <1>9 DEF Unzipping

LEMMA UnzippingOther ==
  ASSUME ZipTypes, NEW p \in Zippers, Unzipping(p), MkstempOrMkdir(p) \/ UnlinkTemporary(p)
  PROVE  Unzipping(p)'
<1>1. UNCHANGED <<data, unpacked>> /\ dir'["output_file"] = dir["output_file"]
  BY OtherStepRow
<1>2. CASE pc'[p] = "done"
  BY <1>2 DEF Unzipping
<1>3. CASE UNCHANGED <<dir, snapshot>> /\ pc[p] = "mkdir" /\ pc'[p] = "gzip"
  <2>1. /\ (dir["temp_compress_file"] \in Zippers)'
        /\ Named("output_file", <<"gpg", Content("temp_compress_file")>>)'
    BY <1>1, <1>3 DEF Unzipping, Named, Content
  <2> QED  BY <1>3, <2>1 DEF Unzipping
<1>4. CASE pc[p] = "unlink 1" /\ pc'[p] = "unlink 2"
  <2>1. \E c \in {Empty, <<"tar", unpacked>>} : Named("output_file", <<"gpg", <<"gzip", c>>>>)
    BY <1>4 DEF Unzipping
  <2>2. (\E c \in {Empty, <<"tar", unpacked>>} : Named("output_file", <<"gpg", <<"gzip", c>>>>))'
    BY <1>1, <2>1 DEF Named, Content, Empty
  <2> QED  BY <1>4, <2>2 DEF Unzipping
<1> QED  BY <1>2, <1>3, <1>4, OtherStepRow DEF Unzipping

\* The step of a run changes what is this run's, and it is under way.
LEMMA ZipStepFrame ==
  ASSUME ZipTypes, NEW p \in Zippers, ZipNext(p), file \in [Files -> FileContent]
  PROVE  /\ p \in Active /\ \A q \in Runs \ {p} : pc'[q] = pc[q]
         /\ \A q \in Zippers \ {p} : snapshot'[q] = snapshot[q]
         /\ \A f \in DOMAIN snapshot'[p] :
              snapshot'[p][f] = file[f] \/ (f \in DOMAIN snapshot[p] /\ snapshot'[p][f] = snapshot[p][f])
         /\ pc'[p] \in Idle => snapshot'[p] = <<>>
<1>1. p \in Runs
  BY DEF Runs
<1>2. CASE OpenCommand(p)
  <2>1. pc[p] \notin Idle /\ pc'[p] \notin Idle
    BY <1>2, OpenStepRow DEF HasOpened, Idle
  <2> QED  BY <1>1, <1>2, <2>1, OpenStepRow DEF Active
<1>3. CASE TarReads(p)
  <2>1. pc[p] = "tar read" /\ pc'[p] \in {"tar read", "tar write"} /\ \A q \in Runs \ {p} : pc'[q] = pc[q]
    <3>1. Go(p, "tar read", "tar write") \/ (pc[p] = "tar read" /\ UNCHANGED pc)
      BY <1>3 DEF TarReads
    <3> QED  BY <3>1, Gone DEF Labels
  <2>2. p \in Active /\ pc'[p] \notin Idle
    BY <1>1, <2>1 DEF Active, Idle
  <2>3. \A q \in Zippers \ {p} : snapshot'[q] = snapshot[q]
    BY <1>3, TarStep
  <2>4. PICK f : /\ DOMAIN snapshot'[p] = DOMAIN snapshot[p] \cup {f}
                 /\ snapshot'[p][f] = file[f]
                 /\ \A g \in DOMAIN snapshot[p] \ {f} : snapshot'[p][g] = snapshot[p][g]
    BY <1>3, TarStep
  <2>5. \A g \in DOMAIN snapshot'[p] :
          snapshot'[p][g] = file[g] \/ (g \in DOMAIN snapshot[p] /\ snapshot'[p][g] = snapshot[p][g])
    BY <2>4
  <2> QED  BY <2>1, <2>2, <2>3, <2>5
<1>4. CASE ReadCommand(p)
  <2>1. pc[p] \notin Idle /\ pc'[p] \notin Idle
    BY <1>4, ReadStepRow DEF HasRead, Idle
  <2> QED  BY <1>1, <1>4, <2>1, ReadStepRow DEF Active
<1>5. CASE WriteCommand(p)
  <2>1. pc[p] \notin Idle /\ pc'[p] \notin Idle
    BY <1>5, WriteStepRow DEF HasWritten, Idle
  <2> QED  BY <1>1, <1>5, <2>1, WriteStepRow DEF Active
<1>6. CASE MkstempOrMkdir(p) \/ UnlinkTemporary(p)
  <2>1. UNCHANGED snapshot \/ snapshot' = [snapshot EXCEPT ![p] = <<>>]
    BY <1>6 DEF MkstempOrMkdir, UnlinkTemporary, zip_vars
  <2>2. /\ \A q \in Zippers \ {p} : snapshot'[q] = snapshot[q]
        /\ snapshot'[p] = snapshot[p] \/ snapshot'[p] = <<>>
    BY <2>1 DEF ZipTypes
  <2>3. /\ pc[p] \in {"mkstemp", "mkdir", "unlink 1", "unlink 2"} /\ \A q \in Runs \ {p} : pc'[q] = pc[q]
        /\ pc'[p] \in Idle => snapshot'[p] = <<>>
    BY <1>6, OtherStepRow DEF Idle
  <2>4. p \in Active
    BY <1>1, <2>3 DEF Active, Idle
  <2>5. \A f \in DOMAIN snapshot'[p] : f \in DOMAIN snapshot[p] /\ snapshot'[p][f] = snapshot[p][f]
    <3>1. CASE snapshot'[p] = snapshot[p]
      BY <3>1
    <3>2. CASE snapshot'[p] = <<>>
      BY <3>2
    <3> QED  BY <2>2, <3>1, <3>2
  <2> QED  BY <2>2, <2>3, <2>4, <2>5
<1>7. CASE Extract(p)
  <2>1. Go(p, "tar", "unlink 1")
    BY <1>7 DEF Extract
  <2>2. pc[p] = "tar" /\ pc'[p] = "unlink 1" /\ \A q \in Runs \ {p} : pc'[q] = pc[q]
    BY <2>1, Gone DEF Labels
  <2> QED  BY <1>1, <1>7, <2>2 DEF Active, Extract, Idle
<1>8. CASE FailOrStop(p)
  <2>1. \A f \in DOMAIN snapshot'[p] : FALSE
    BY <1>8, FailStepRow
  <2> QED  BY <1>1, <1>8, <2>1, FailStepRow DEF Active
<1> QED  BY <1>2, <1>3, <1>4, <1>5, <1>6, <1>7, <1>8 DEF ZipNext

\* Of a run that has failed nothing is claimed.
LEMMA FailsAlone ==
  ASSUME ZipTypes, NEW p \in Zippers, FailOrStop(p)
  PROVE  ByProgram(p)'
<1>1. pc'[p] = "failed"
  BY FailStepRow
<1> QED  BY <1>1 DEF ByProgram, Zipping, Unzipping

LEMMA ProgramSteps ==
  ASSUME ZipTypes, NEW p \in Zippers, ByProgram(p), ZipNext(p), file \in [Files -> FileContent]
  PROVE  ByProgram(p)'
<1> SUFFICES ASSUME ~FailOrStop(p) PROVE ByProgram(p)'
  BY FailsAlone
<1>1. CASE Program[p] = "myzip"
  <2>1. Zipping(p) /\ ~Extract(p)
    BY <1>1 DEF ByProgram, Extract
  <2>2. Zipping(p)'
    BY <1>1, <2>1, ZippingOpens, ZippingTars, ZippingReads, ZippingWrites, ZippingOther DEF ZipNext
  <2> QED  BY <1>1, <2>2 DEF ByProgram
<1>2. CASE Program[p] = "myunzip"
  <2>1. Unzipping(p) /\ ~TarReads(p)
    BY <1>2 DEF ByProgram, TarReads, ZipTypes, BufOK
  <2>2. Unzipping(p)'
    BY <1>2, <2>1, UnzippingOpens, UnzippingReads, UnzippingWrites, UnzippingExtracts, UnzippingOther
       DEF ZipNext
  <2> QED  BY <1>2, <2>2 DEF ByProgram
<1> QED  BY <1>1, <1>2, ZipAssumption

LEMMA AloneZip ==
  ASSUME ZipTypes, AloneInv, NEW p \in Zippers, ZipNext(p), file \in [Files -> FileContent]
  PROVE  AloneInv'
<1>1. p \in Active /\ p \in Runs /\ UNCHANGED disturbed /\ \A q \in Runs \ {p} : pc'[q] = pc[q]
  BY ZipStepFrame DEF ZipNext, Runs
<1>2. Active' \subseteq Active
  BY <1>1 DEF Active
<1>3. ZipOverlaps'
  BY <1>1, <1>2 DEF AloneInv, ZipOverlaps, Decoders
<1>4. ASSUME NEW q \in Zippers \ disturbed
      PROVE  ByProgram(q)'
  <2>1. CASE q = p
    BY <2>1, <1>4, ProgramSteps DEF AloneInv
  <2>2. CASE q # p
    <3>1. q \notin Active
      BY <1>1, <1>4, <2>2 DEF AloneInv, ZipOverlaps
    <3>2. pc'[q] \in {"new", "done", "failed"}
      BY <1>1, <2>2, <3>1 DEF Active, Runs, Idle
    <3> QED  BY <3>2 DEF ByProgram, Zipping, Unzipping
  <2> QED  BY <2>1, <2>2
<1> QED  BY <1>1, <1>3, <1>4 DEF AloneInv

\* Steps that leave the files of the archive programs alone.
LEMMA AloneElsewhere ==
  ASSUME AloneInv, UNCHANGED zip_vars, disturbed \subseteq disturbed',
         \A p \in Zippers : pc'[p] = pc[p] \/ (pc[p] = "new" /\ pc'[p] = IF Program[p] = "myzip" THEN "tar" ELSE "gpg"),
         ZipOverlaps'
  PROVE  AloneInv'
<1>1. UNCHANGED <<dir, data, out, buf, snapshot, unpacked>>
  BY DEF zip_vars
<1>2. ASSUME NEW p \in Zippers \ disturbed'
      PROVE  ByProgram(p)'
  <2>1. ByProgram(p)
    BY DEF AloneInv
  <2>2. CASE pc'[p] = pc[p]
    BY <1>1, <2>1, <2>2 DEF ByProgram, Zipping, Unzipping, OpenFor, Named, Archive, Content
  <2>3. CASE pc'[p] = IF Program[p] = "myzip" THEN "tar" ELSE "gpg"
    BY <2>3 DEF ByProgram, Zipping, Unzipping
  <2> QED  BY <2>2, <2>3
<1> QED  BY <1>2 DEF AloneInv

LEMMA AloneStart ==
  ASSUME ZipTypes, AloneInv, NEW p \in Runs, Start(p)
  PROVE  AloneInv'
<1>1. PICK there : there = CASE Program[p] \in {"encode", "decode"} -> "open"
                             [] Program[p] = "myzip" -> "tar" [] OTHER -> "gpg"
  OBVIOUS
<1>2. /\ pc[p] = "new" /\ pc' = [pc EXCEPT ![p] = there] /\ UNCHANGED zip_vars
      /\ disturbed \cup {q \in Active \cup {p} : \E r \in (Active \cup {p}) \ {q} : Disturbs(r, q)}
           \subseteq disturbed'
  BY <1>1 DEF Start, Go
<1>3. pc'[p] = there /\ \A q \in Runs \ {p} : pc'[q] = pc[q]
  BY <1>2 DEF ZipTypes
<1>4. p \in Zippers => there = IF Program[p] = "myzip" THEN "tar" ELSE "gpg"
  BY <1>1, ZipAssumption
<1>5. Active' \subseteq Active \cup {p}
  BY <1>3 DEF Active
<1>6. ZipOverlaps'
  <2> SUFFICES ASSUME NEW q \in Zippers \cap Active', NEW r \in Active' \ {q},
                      r \in Zippers \/ (Program[q] = "myzip" /\ r \in Decoders)
               PROVE  q \in disturbed'
    BY DEF ZipOverlaps, Decoders
  <2>1. Disturbs(r, q)
    BY DEF Disturbs, Decoders
  <2> QED  BY <2>1, <1>2, <1>5
<1> QED  BY <1>2, <1>3, <1>4, <1>6, CodersByProgram, AloneElsewhere

\* A coder makes steps while it is under way; only decode writes the source.
LEMMA CoderSteps ==
  ASSUME NEW p \in Coders, CoderNext(p), file \in [Files -> FileContent]
  PROVE  /\ pc[p] \notin Idle /\ \E there \in Labels : pc' = [pc EXCEPT ![p] = there]
         /\ file'["src"] = file["src"] \/ p \in Decoders
<1>1. pc[p] \notin Idle /\ \E there \in Labels : pc' = [pc EXCEPT ![p] = there]
  BY DEF CoderNext, OpenAndMeasure, ReadText, CreateOutput, WriteOutput, StopCoder, Go, Labels, Idle
<1>2. p \notin Decoders => Output(p) = "dst"
  BY CodecAssumption DEF Output, Decoders
<1>3. UNCHANGED file \/ \E content : file' = [file EXCEPT ![Output(p)] = content]
  BY DEF CoderNext, OpenAndMeasure, ReadText, CreateOutput, WriteOutput, StopCoder
<1>4. CASE p \notin Decoders
  <2>1. UNCHANGED file \/ \E content : file' = [file EXCEPT !["dst"] = content]
    BY <1>2, <1>3, <1>4
  <2>2. file'["src"] = file["src"]
    BY <2>1 DEF Files
  <2> QED  BY <1>1, <2>2
<1> QED  BY <1>1, <1>4

LEMMA AloneNext ==
  ASSUME ZipTypes, AloneInv, [Next]_vars, file \in [Files -> FileContent]
  PROVE  AloneInv'
<1>1. CASE \E p \in Runs : Start(p)
  BY <1>1, AloneStart
<1>2. CASE \E p \in Coders : CoderNext(p) /\ UNCHANGED zip_vars
  <2>1. PICK p \in Coders : CoderNext(p) /\ UNCHANGED zip_vars
    BY <1>2
  <2>2. PICK there \in Labels : pc[p] \notin Idle /\ pc' = [pc EXCEPT ![p] = there]
    BY <2>1, CoderSteps
  <2>3. UNCHANGED disturbed /\ \A q \in Runs \ {p} : pc'[q] = pc[q]
    BY <2>1, <2>2 DEF CoderNext, ZipTypes
  <2>4. Active' \subseteq Active
    BY <2>2, <2>3, CodersByProgram DEF Active
  <2>5. ZipOverlaps'
    BY <2>3, <2>4 DEF AloneInv, ZipOverlaps, Decoders
  <2> QED  BY <2>1, <2>3, <2>5, CodersByProgram, AloneElsewhere
<1>3. CASE \E p \in Zippers : ZipNext(p)
  BY <1>3, AloneZip
<1>4. CASE UNCHANGED vars
  <2>1. UNCHANGED <<pc, zip_vars, disturbed>>
    BY <1>4 DEF vars
  <2>2. ZipOverlaps'
    BY <2>1 DEF AloneInv, ZipOverlaps, Active, Decoders
  <2> QED  BY <2>1, <2>2, AloneElsewhere
<1> QED  BY <1>1, <1>2, <1>3, <1>4 DEF Next

LEMMA AloneInvariant == Spec => [](ZipTypes /\ CoderTypes /\ AloneInv)
<1>1. CoderTypes => file \in [Files -> FileContent]
  BY DEF CoderTypes
<1>2. AloneInv /\ ZipTypes /\ CoderTypes /\ [Next]_vars => AloneInv'
  BY <1>1, AloneNext
<1> QED  BY <1>2, AloneInit, ExerciseTypes, PTL DEF Spec

(***************************************************************************)
(* A run of myunzip that was alone has restored what the archive in        *)
(* output.gpg holds (myunzip.c:30-54), whatever earlier runs have left     *)
(* under the names it uses and whatever bytes the files held.              *)
(***************************************************************************)
THEOREM ExerciseUnzippedAlone == Spec => []UnzippedAlone
<1>1. AloneInv => UnzippedAlone
  <2> SUFFICES ASSUME AloneInv, NEW p \in OfProgram({"myunzip"}) \ disturbed, Unlinking(p)
               PROVE  /\ dir["output_file"] # NoFile
                      /\ Content("output_file") \in {<<"gpg", <<"gzip", c>>>> : c \in {Empty, <<"tar", unpacked>>}}
    BY DEF UnzippedAlone
  <2>1. Program[p] = "myunzip" /\ p \in Zippers \ disturbed
    BY CodecAssumption DEF OfProgram, Runs
  <2>2. Unzipping(p)
    BY <2>1 DEF AloneInv, ByProgram
  <2>3. \E c \in {Empty, <<"tar", unpacked>>} : Named("output_file", <<"gpg", <<"gzip", c>>>>)
    BY <2>2 DEF Unzipping, Unlinking
  <2> QED  BY <2>3, ZipAssumption DEF Named
<1> QED  BY <1>1, AloneInvariant, PTL

(***************************************************************************)
(* While a myzip is undisturbed the source file does not change, so its    *)
(* snapshot agrees with it; and when the source is the empty file that a   *)
(* stopped decode has left, the snapshot has the complete destination.     *)
(***************************************************************************)
Picture(p) ==
  /\ pc[p] \in Idle => snapshot[p] = <<>>
  /\ "src" \in DOMAIN snapshot[p] => snapshot[p]["src"] = file["src"]
  /\ "dst" \in DOMAIN snapshot[p] /\ file["src"] # original => snapshot[p]["dst"] = Encoded

Myzips == {p \in Zippers : Program[p] = "myzip"}

PictureInv == Undisturbed => \A p \in Myzips \ disturbed : Picture(p)

LEMMA PictureCoder ==
  ASSUME ZipTypes, CoderTypes, AloneInv, PictureInv, NEW c \in Coders, CoderNext(c),
         UNCHANGED zip_vars
  PROVE  PictureInv'
<1>1. UNCHANGED <<original, disturbed, snapshot>>
  BY DEF CoderNext, zip_vars
<1>2. PICK there \in Labels : pc[c] \notin Idle /\ pc' = [pc EXCEPT ![c] = there]
  BY CoderSteps DEF CoderTypes
<1> SUFFICES ASSUME Undisturbed, NEW p \in Myzips \ disturbed PROVE Picture(p)'
  BY <1>1 DEF PictureInv, Undisturbed, Myzips
<1>3. Picture(p) /\ p \in Zippers /\ Program[p] = "myzip" /\ p # c /\ p \in Runs
  BY CodersByProgram DEF PictureInv, Myzips
<1>4. pc'[p] = pc[p]
  BY <1>2, <1>3
<1>5. CASE pc[p] \in Idle
  <2>1. snapshot'[p] = <<>>
    BY <1>1, <1>3, <1>5 DEF Picture
  <2>2. "src" \notin DOMAIN snapshot'[p] /\ "dst" \notin DOMAIN snapshot'[p]
    BY <2>1
  <2> QED  BY <2>1, <2>2 DEF Picture
<1>6. CASE pc[p] \notin Idle
  <2>1. c \notin Decoders
    BY <1>2, <1>3, <1>6, CodersByProgram DEF AloneInv, ZipOverlaps, Active
  <2>2. file'["src"] = file["src"]
    BY <2>1, CoderSteps DEF CoderTypes
  <2> QED  BY <1>1, <1>3, <1>4, <2>2 DEF Picture, Encoded
<1> QED  BY <1>5, <1>6

LEMMA PictureZip ==
  ASSUME ZipTypes, CoderTypes, CodecInv, PictureInv, NEW z \in Zippers, ZipNext(z)
  PROVE  PictureInv'
<1>1. UNCHANGED <<original, disturbed, file>>
  BY DEF ZipNext
<1>2. /\ \A q \in Runs \ {z} : pc'[q] = pc[q]
      /\ \A q \in Zippers \ {z} : snapshot'[q] = snapshot[q]
      /\ pc'[z] \in Idle => snapshot'[z] = <<>>
      /\ \A f \in DOMAIN snapshot'[z] :
           snapshot'[z][f] = file[f] \/ (f \in DOMAIN snapshot[z] /\ snapshot'[z][f] = snapshot[z][f])
  BY ZipStepFrame DEF CoderTypes
<1> SUFFICES ASSUME Undisturbed, NEW p \in Myzips \ disturbed PROVE Picture(p)'
  BY <1>1 DEF PictureInv, Undisturbed, Myzips
<1>3. Picture(p) /\ p \in Zippers /\ p \in Runs
  BY CodersByProgram DEF PictureInv, Myzips
<1>4. file["src"] # original => file["dst"] = Encoded
  BY DEF CodecInv, Consistent
<1>5. CASE p # z
  BY <1>1, <1>2, <1>3, <1>5 DEF Picture, Encoded
<1>6. CASE p = z
  <2>1. "src" \in DOMAIN snapshot'[p] => snapshot'[p]["src"] = file["src"]
    BY <1>2, <1>3, <1>6 DEF Picture
  <2>2. "dst" \in DOMAIN snapshot'[p] /\ file["src"] # original => snapshot'[p]["dst"] = Encoded
    BY <1>2, <1>3, <1>4, <1>6 DEF Picture
  <2> QED  BY <1>1, <1>2, <1>6, <2>1, <2>2 DEF Picture, Encoded
<1> QED  BY <1>5, <1>6

LEMMA PictureNext ==
  ASSUME ZipTypes, CoderTypes, CodecInv, AloneInv, PictureInv, [Next]_vars
  PROVE  PictureInv'
<1>1. CASE \E p \in Runs : Start(p)
  <2>1. PICK q \in Runs : Start(q)
    BY <1>1
  <2>2. /\ UNCHANGED <<original, file, snapshot>> /\ disturbed \subseteq disturbed'
        /\ \E there : pc[q] = "new" /\ pc' = [pc EXCEPT ![q] = there]
    BY <2>1 DEF Start, Go, zip_vars
  <2> SUFFICES ASSUME Undisturbed', NEW p \in Myzips \ disturbed' PROVE Picture(p)'
    BY DEF PictureInv, Myzips
  <2>3. Picture(p) /\ p \in Runs
    BY <2>2, CodersByProgram DEF PictureInv, Undisturbed, Myzips
  <2>4. pc'[p] \in Idle => pc[p] \in Idle
    BY <2>2, <2>3 DEF ZipTypes, Idle
  <2> QED  BY <2>2, <2>3, <2>4 DEF Picture, Encoded
<1>2. CASE UNCHANGED vars
  BY <1>2 DEF vars, zip_vars, PictureInv, Undisturbed, Myzips, Picture, Encoded
<1> QED  BY <1>1, <1>2, PictureCoder, PictureZip DEF Next

(***************************************************************************)
(* A run of myzip that was alone has put into output.gpg what its tar has  *)
(* read (myzip.c:39-75), and with it the text, for any number of runs of   *)
(* the four programs before it and of encode beside it.                    *)
(***************************************************************************)
THEOREM ExerciseZippedAlone ==
  ASSUME Originals \subseteq Seq(Survivors(Key)), Missing \notin Seq(Byte)
  PROVE  Spec => []ZippedAlone
<1>1. Init => PictureInv
  <2> SUFFICES ASSUME Init PROVE PictureInv
    OBVIOUS
  <2>1. \A p \in Zippers : snapshot[p] = <<>>
    BY DEF Init, ZipInit
  <2>2. \A p \in Zippers : "src" \notin DOMAIN snapshot[p] /\ "dst" \notin DOMAIN snapshot[p]
    BY <2>1
  <2> QED  BY <2>1, <2>2 DEF PictureInv, Picture, Myzips
<1>2. CodecInv /\ AloneInv /\ PictureInv => ZippedAlone
  <2> SUFFICES ASSUME CodecInv, AloneInv, PictureInv, NEW p \in OfProgram({"myzip"}) \ disturbed, Unlinking(p)
               PROVE  /\ dir["output_file"] # NoFile
                      /\ Content("output_file") = <<"gpg", <<"gzip", <<"tar", <<"files", snapshot[p]>>>>>>>>
                      /\ disturbed \cap Coders = {} => Recoverable(snapshot[p])
    BY DEF ZippedAlone
  <2>1. Program[p] = "myzip" /\ p \in Zippers \ disturbed
    BY CodecAssumption DEF OfProgram, Runs
  <2>2. Zipping(p)
    BY <2>1 DEF AloneInv, ByProgram
  <2>3. Named("output_file", <<"gpg", <<"gzip", Archive(p)>>>>) /\ DOMAIN snapshot[p] = Files
    BY <2>2 DEF Zipping, Unlinking
  <2>4. ASSUME disturbed \cap Coders = {} PROVE Recoverable(snapshot[p])
    <3>1. Picture(p)
      BY <2>1, <2>4 DEF PictureInv, Undisturbed, Myzips
    <3>2. snapshot[p]["src"] = original \/ snapshot[p]["dst"] = Encoded
      BY <2>3, <3>1 DEF Picture, Files
    <3>3. original \in Seq(Survivors(Key))
      BY DEF CodecInv
    <3> QED  BY <3>2, <3>3, EncodedText DEF Recoverable
  <2> QED  BY <2>3, <2>4, ZipAssumption DEF Named, Archive
<1> QED  BY <1>1, <1>2, PictureNext, AloneInvariant, CodecInvariant, PTL DEF Spec

=============================================================================

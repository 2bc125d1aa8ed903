------------------------------ MODULE Exercise1 ------------------------------
(***************************************************************************)
(* Ex.1: encode and decode run over two files of a directory, myzip and    *)
(* myunzip over the directory, from shells that do not know of each other. *)
(***************************************************************************)
EXTENDS Ex1Zip, FiniteSets

CONSTANTS AtOnce,   \* bound: how many runs are under way at the same time
          Together  \* bound: sets of runs that begin in one behaviour

vars == <<original, file, pc, coder_vars, zip_vars, disturbed>>

Runs == Coders \cup Zippers

Active == {p \in Runs : pc[p] \notin Idle}

Init ==
  /\ CodecInit /\ ZipInit
  /\ pc = [p \in Runs |-> "new"]
  /\ disturbed = {}

OfProgram(names) == {p \in Runs : Program[p] \in names}

\* Run r may change what run q relies on: coders of the same files disturb a
\* decode, myzip and myunzip each other, and a decode disturbs what myzip reads.
Disturbs(r, q) ==
  \/ Program[q] = "decode" /\ r \in Coders
  \/ q \in Zippers /\ r \in Zippers
  \/ Program[q] = "myzip" /\ Program[r] = "decode"

\* main begins; createCodec accepts the key of encode and decode.  It is disturbed
\* by the runs under way, and a coder by finding the file that it reads empty.
Start(p) ==
  /\ \E s \in Together : {p} \cup {q \in Runs : pc[q] # "new"} \subseteq s
  /\ Cardinality(Active) < AtOnce
  /\ Go(p, "new", CASE Program[p] \in {"encode", "decode"} -> "open"
                    [] Program[p] = "myzip" -> "tar" [] OTHER -> "gpg")
  /\ disturbed' = disturbed \cup {q \in Active \cup {p} : \E r \in (Active \cup {p}) \ {q} : Disturbs(r, q)}
                           \cup {q \in {p} \cap Coders : file[Input(q)] = <<>>}
  /\ UNCHANGED <<original, file, coder_vars, zip_vars>>

Next ==
  \/ \E p \in Runs : Start(p)
  \/ \E p \in Coders : CoderNext(p) /\ UNCHANGED zip_vars
  \/ \E p \in Zippers : ZipNext(p)

Spec == Init /\ [][Next]_vars

-----------------------------------------------------------------------------
Directories == {"files"} \X [Files -> Seq(Byte) \cup {Missing}]
Archives == {Empty, Garbled} \cup ({"tar"} \X Directories)
Compressed == Archives \cup ({"gzip"} \X Archives)
Encrypted == Compressed \cup ({"gpg"} \X Compressed)

\* Every variable keeps to the values that its type in the C programs allows.
TypeOK ==
  /\ original \in Originals
  /\ file \in [Files -> Seq(Byte) \cup {Missing}]
  /\ \A p \in Coders : textin[p] \in Seq(Byte) /\ fileSize[p] \in Nat
  /\ dir \in [Names -> Zippers \cup {NoFile}]
  /\ \A p \in Zippers : /\ data[p]["temp_tar_file"] \in Archives
                        /\ data[p]["temp_compress_file"] \in Compressed
                        /\ data[p]["output_file"] \in Encrypted
  /\ out \in [Zippers -> Zippers \cup {NoFile}]
  /\ buf \in [Zippers -> Encrypted \cup Directories]
  /\ unpacked \in {Empty} \cup Directories

-----------------------------------------------------------------------------
(***************************************************************************)
(* The text is in the source file, or the destination file decodes to it,  *)
(* whatever decode finds behind the key.                                   *)
(***************************************************************************)
Recoverable(files) ==
  \/ files["src"] = original
  \/ /\ files["dst"] # Missing
     /\ \A g \in [DOMAIN files["dst"] -> Garbage] : Decode(Key, files["dst"], g) = original

(***************************************************************************)
(* The text is never lost, wherever runs of encode and decode are stopped  *)
(* (encriptor.c:153: fopen "w" empties a file before it is written), as    *)
(* long as no run of decode overlaps with another coder, and none begins   *)
(* with an input that a stopped run has left empty: after encode has been  *)
(* stopped it must be encode that runs again, and after decode decode.     *)
(***************************************************************************)
TextRecoverable == disturbed \cap Coders = {} => Recoverable(file)

Unlinking(p) == pc[p] \in {"unlink 1", "unlink 2"}

(***************************************************************************)
(* A run of myzip during which no other myzip or myunzip and no decode was *)
(* active has archived, compressed and encrypted what tar read, whatever   *)
(* earlier runs have left under the names it uses; and with it the text,   *)
(* also when an encode ran at the same time.                               *)
(***************************************************************************)
ZippedAlone ==
  \A p \in OfProgram({"myzip"}) \ disturbed :
    Unlinking(p) =>
      /\ dir["output_file"] # NoFile
      /\ Content("output_file") = <<"gpg", <<"gzip", <<"tar", <<"files", snapshot[p]>>>>>>>>
      /\ disturbed \cap Coders = {} => Recoverable(snapshot[p])

(***************************************************************************)
(* A run of myunzip that was alone has restored what the archive in        *)
(* output.gpg holds, unless a disturbed run of myzip left an empty one.    *)
(***************************************************************************)
UnzippedAlone ==
  \A p \in OfProgram({"myunzip"}) \ disturbed :
    Unlinking(p) =>
      /\ dir["output_file"] # NoFile
      /\ Content("output_file") \in
           {<<"gpg", <<"gzip", c>>>> : c \in {Empty, <<"tar", unpacked>>}}

(***************************************************************************)
(* Only a run that is under way or has failed leaves temporary files, also *)
(* when several runs create and unlink the same names (myzip.c:78,         *)
(* myunzip.c:62).                                                          *)
(***************************************************************************)
NoLeftovers == \A n \in TempNames : dir[n] # NoFile => pc[dir[n]] # "done"

=============================================================================

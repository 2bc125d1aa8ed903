------------------------------- MODULE Ex1Zip -------------------------------
(***************************************************************************)
(* Ex.1/TarCompressEncrypt: myzip.c archives, compresses and encrypts a    *)
(* directory by the commands tar, gzip and gpg, myunzip.c goes the way     *)
(* back.  The commands pass on files of fixed names that all runs share: a *)
(* name refers to a file, which is called by the run that created it and   *)
(* outlives the name while it is open.  A command opens its output, reads  *)
(* its whole input when it opens it, and writes its output at once.        *)
(***************************************************************************)
EXTENDS Ex1Codec

CONSTANTS Zippers,   \* runs of the two programs
          NoFile     \* a name that refers to no file

ASSUME ZipAssumption ==
  /\ \A p \in Zippers : Program[p] \in {"myzip", "myunzip"}
  /\ Zippers \cap Coders = {} /\ NoFile \notin Zippers

Names == {"temp_tar_file", "temp_compress_file", "output_file"}
TempNames == Names \ {"output_file"}
Files == {"src", "dst"}

\* Contents: of a new file, of writes that overlap, of a command's output.
Empty == <<>>
Garbled == <<"garbled">>
Layers == {"tar", "gzip", "gpg"}

\* The labels of main while a command runs.
Reading == [tar |-> "tar read", gzip |-> "gzip read", gpg |-> "gpg read"]
Writing == [tar |-> "tar write", gzip |-> "gzip write", gpg |-> "gpg write"]

VARIABLES dir,       \* name -> the run whose file it refers to
          data,      \* the contents of the file a run created under a name
          out,       \* the file that the command of a run writes to
          buf,       \* what this command has read
          snapshot,  \* history: file -> content, as tar of myzip read it, until the end
          unpacked   \* the content of unzipped_directory

zip_vars == <<dir, data, out, buf, snapshot, unpacked>>

ZipInit ==
  /\ dir = [n \in Names |-> NoFile]
  /\ data = [p \in Zippers |-> [n \in Names |-> Empty]]
  /\ out = [p \in Zippers |-> NoFile]
  /\ buf = [p \in Zippers |-> Empty]
  /\ snapshot = [p \in Zippers |-> <<>>]
  /\ unpacked = Empty

(***************************************************************************)
(* The commands of myzip and myunzip: the layer one adds or removes, its   *)
(* input and output, and the label of main after it.                       *)
(***************************************************************************)
Step(kind, layer, from, to, next) ==
  [kind |-> kind, layer |-> layer, from |-> from, to |-> to, next |-> next]

MyzipCommands ==
  [tar  |-> Step("add", "tar", "directory", "temp_tar_file", "gzip"),
   gzip |-> Step("add", "gzip", "temp_tar_file", "temp_compress_file", "mkstemp"),
   gpg  |-> Step("add", "gpg", "temp_compress_file", "output_file", "unlink 1")]

MyunzipCommands ==
  [gpg  |-> Step("remove", "gpg", "output_file", "temp_compress_file", "mkdir"),
   gzip |-> Step("remove", "gzip", "temp_compress_file", "temp_tar_file", "tar"),
   tar  |-> Step("remove", "tar", "temp_tar_file", "directory", "unlink 1")]

\* Deviation: myunzip decrypts to the name from which it unpacks.
CommandSameName(p) ==
  IF Program[p] = "myzip" THEN MyzipCommands
  ELSE [MyunzipCommands EXCEPT !["gpg"].to = "temp_tar_file", !["gzip"].from = "temp_tar_file"]

Command(p) == IF Program[p] = "myzip" THEN MyzipCommands ELSE MyunzipCommands

Content(n) == data[dir[n]][n]

\* Deviation: a file that exists keeps its content.
OpenToAppend(p, n) ==
  LET owner == IF dir[n] = NoFile THEN p ELSE dir[n] IN
  /\ dir' = [dir EXCEPT ![n] = owner]
  /\ out' = [out EXCEPT ![p] = owner]
  /\ UNCHANGED data

\* open for writing: a file that exists is emptied, otherwise there is a new one.
OpenOutput(p, n) ==
  LET owner == IF dir[n] = NoFile THEN p ELSE dir[n] IN
  /\ dir' = [dir EXCEPT ![n] = owner]
  /\ data' = [data EXCEPT ![owner][n] = Empty]
  /\ out' = [out EXCEPT ![p] = owner]

\* system() of a command: the shell, tar and gpg -o open the output.
OpenCommand(p) ==
  \E layer \in Layers :
    LET c == Command(p)[layer] IN
    /\ c.to # "directory"
    /\ Go(p, layer, Reading[layer]) /\ OpenOutput(p, c.to)
    /\ UNCHANGED <<buf, snapshot, unpacked>>

\* tar -cf reads the files of the directory one after the other.
TarReads(p) ==
  /\ pc[p] = "tar read"
  /\ \E f \in Files \ DOMAIN snapshot[p] :
       snapshot' = [snapshot EXCEPT ![p] = [g \in {f} \cup DOMAIN @ |->
                                              IF g = f THEN file[f] ELSE @[g]]]
  /\ IF Files = DOMAIN snapshot'[p]
     THEN Go(p, "tar read", "tar write") /\ buf' = [buf EXCEPT ![p] = <<"files", snapshot'[p]>>]
     ELSE UNCHANGED <<pc, buf>>
  /\ UNCHANGED <<dir, data, out, unpacked>>

\* The layer that gzip -d, gpg -d and tar -x expect; an empty archive is one.
Expected(layer, content) ==
  \/ content # Empty /\ content[1] = layer
  \/ content = Empty /\ layer = "tar"

Fits(p, layer) ==
  LET c == Command(p)[layer] IN
  dir[c.from] # NoFile /\ (c.kind = "remove" => Expected(layer, Content(c.from)))

\* Deviation: the result of system() is not looked at.
ReadUnchecked(p) ==
  \E layer \in {"gzip", "gpg"} :
    /\ \/ /\ Go(p, Reading[layer], Writing[layer]) /\ Fits(p, layer)
          /\ buf' = [buf EXCEPT ![p] = Content(Command(p)[layer].from)]
       \/ Go(p, Reading[layer], Command(p)[layer].next) /\ UNCHANGED buf
    /\ UNCHANGED <<dir, data, out, snapshot, unpacked>>

\* gzip and gpg read their input when it is what they expect.
ReadCommand(p) ==
  \E layer \in {"gzip", "gpg"} :
    /\ Go(p, Reading[layer], Writing[layer]) /\ Fits(p, layer)
    /\ buf' = [buf EXCEPT ![p] = Content(Command(p)[layer].from)]
    /\ UNCHANGED <<dir, data, out, snapshot, unpacked>>

\* The command writes: over what another run has written, the file is one of
\* the two mixed, or the longer new content.
WriteCommand(p) ==
  \E layer \in Layers :
    LET c == Command(p)[layer]
        new == IF c.kind = "add" THEN <<layer, buf[p]>> ELSE buf[p][2] IN
    /\ Go(p, Writing[layer], c.next)
    /\ \E content \in {new} \cup (IF data[out[p]][c.to] \in {Empty, new} THEN {} ELSE {Garbled}) :
         data' = [data EXCEPT ![out[p]][c.to] = content]
    /\ out' = [out EXCEPT ![p] = NoFile]
    /\ buf' = [buf EXCEPT ![p] = Empty]
    /\ UNCHANGED <<dir, snapshot, unpacked>>

\* mkstemp and mkdir change nothing of this model.
MkstempOrMkdir(p) ==
  /\ Go(p, "mkstemp", "gpg") \/ Go(p, "mkdir", "gzip")
  /\ UNCHANGED zip_vars

\* tar -xf unpacks into unzipped_directory what it finds.
Extract(p) ==
  /\ Program[p] = "myunzip"
  /\ Go(p, "tar", "unlink 1")
  /\ dir["temp_tar_file"] # NoFile /\ Expected("tar", Content("temp_tar_file"))
  /\ unpacked' = IF Content("temp_tar_file") = Empty THEN unpacked
                 ELSE Content("temp_tar_file")[2]
  /\ UNCHANGED <<dir, data, out, buf, snapshot>>

\* Deviation: one of the two stays.
UnlinkOne(p) ==
  /\ \/ Go(p, "unlink 1", "unlink 2") /\ UNCHANGED dir
     \/ Go(p, "unlink 2", "done") /\ dir' = [dir EXCEPT !["temp_tar_file"] = NoFile]
  /\ UNCHANGED <<data, out, buf, snapshot, unpacked>>

\* unlink of the two temporary files, in the order of each main.
UnlinkTemporary(p) ==
  LET first == IF Program[p] = "myzip" THEN "temp_tar_file" ELSE "temp_compress_file" IN
  /\ \/ /\ Go(p, "unlink 1", "unlink 2")
        /\ dir' = [dir EXCEPT ![first] = NoFile] /\ UNCHANGED snapshot
     \/ /\ Go(p, "unlink 2", "done")
        /\ \E n \in TempNames \ {first} : dir' = [dir EXCEPT ![n] = NoFile]
        /\ snapshot' = [snapshot EXCEPT ![p] = <<>>]
  /\ UNCHANGED <<data, out, buf, unpacked>>

\* main exits when mkstemp, mkdir or a command fails: tar when a file changes
\* while it reads it, gzip, gpg -d and tar -x when the input is missing or not
\* what they expect, gpg when it is not to overwrite a file or the passphrase
\* (in myunzip an uninitialized buffer) is wrong, each of them on its own.  A run
\* and its command are also stopped from outside, at any point.  The files and
\* their names stay as they are.
FailOrStop(p) ==
  /\ pc[p] \notin Idle
  /\ pc' = [pc EXCEPT ![p] = "failed"]
  /\ out' = [out EXCEPT ![p] = NoFile]
  /\ buf' = [buf EXCEPT ![p] = Empty]
  /\ snapshot' = [snapshot EXCEPT ![p] = <<>>]
  /\ UNCHANGED <<dir, data, unpacked>>

ZipNext(p) ==
  /\ \/ OpenCommand(p) \/ TarReads(p) \/ ReadCommand(p) \/ WriteCommand(p)
     \/ MkstempOrMkdir(p) \/ Extract(p) \/ UnlinkTemporary(p) \/ FailOrStop(p)
  /\ UNCHANGED <<original, file, coder_vars, disturbed>>

=============================================================================

--------------------------- MODULE ModelDownload ----------------------------
(***************************************************************************)
(* How the files of one model get on disk (commands/models.rs): each file   *)
(* is streamed into a .tmp that outlives a cancellation, an error or a      *)
(* crash, continued by a range request the next time, and renamed into      *)
(* place once its size and its digest are those of the manifest.            *)
(*                                                                          *)
(* A file is [len, of]: its length, and the edition of the manifest it is a *)
(* prefix of - or Mixed, when bytes of two editions or damaged bytes are in *)
(* it.  Every edition has its own length.  The operation gate of the model  *)
(* admits one download or removal at a time: Sidecar has the gate.          *)
(***************************************************************************)
EXTENDS Naturals, Functions

CONSTANTS
  Files,        \* "model" and "mmproj"; downloaded in order
  First,        \* the file that is downloaded first
  Editions,     \* editions of the manifest, 1..n
  Length,       \* length of the files of an edition
  Mixed,
  MaxCancels,   \* bound: cancellations and losses of the process
  MaxFaults     \* bound: answers and streams that go wrong

ASSUME DownloadAssumption ==
  /\ First \in Files
  /\ 1 \in Editions /\ Editions \subseteq Nat
  /\ Length \in [Editions -> Nat \ {0}]
  /\ Mixed \notin Editions
  /\ MaxCancels \in Nat /\ MaxFaults \in Nat

VARIABLES
  mdPc,         \* "idle", "check", "request", "stream", "verify"
  mdFile,       \* the file at hand
  mdWanted,     \* the edition the attempt asks for
  mdSeed,       \* what the hasher has seen of the file at hand
  mdTarget,     \* [Files -> file]: the files in place
  mdTmp,        \* [Files -> file]: the partial files
  mdLatest,     \* the edition the server has
  mdCancels, mdFaults

mdVars == <<mdPc, mdFile, mdWanted, mdSeed, mdTarget, mdTmp, mdLatest,
            mdCancels, mdFaults>>

NoFile == [len |-> 0, of |-> Mixed]
Whole(e) == [len |-> Length[e], of |-> e]

DownloadInit ==
  /\ mdPc = "idle" /\ mdFile = First /\ mdWanted = 1 /\ mdSeed = NoFile
  /\ mdTarget = [f \in Files |-> NoFile] /\ mdTmp = [f \in Files |-> NoFile]
  /\ mdLatest = 1 /\ mdCancels = 0 /\ mdFaults = 0

Installed(e) == \A f \in Files : mdTarget[f] = Whole(e)

(* The next file of the pair, or the end of the attempt.                    *)
Onwards ==
  IF mdFile = First /\ Files # {First}
    THEN mdFile' = (CHOOSE f \in Files : f # First) /\ mdPc' = "check"
    ELSE mdFile' = First /\ mdPc' = "idle"

Halts == mdPc' = "idle" /\ mdFile' = First /\ mdSeed' = NoFile

----------------------------------------------------------------------------
(* model_download up to run_download.                                       *)
DownloadBegins ==
  /\ mdPc = "idle" /\ ~Installed(mdLatest)
  /\ mdPc' = "check" /\ mdFile' = First /\ mdWanted' = mdLatest
  /\ mdSeed' = NoFile
  /\ UNCHANGED <<mdTarget, mdTmp, mdLatest, mdCancels, mdFaults>>

(* run_download: a file in place is kept if it is what the manifest says;   *)
(* one of the same size and another digest is removed.                      *)
InPlace(f) == mdTarget[f] = Whole(mdWanted)

CheckFile ==
  /\ mdPc = "check"
  /\ \/ /\ InPlace(mdFile)
        /\ Onwards /\ UNCHANGED mdTarget
     \/ /\ ~InPlace(mdFile)
        /\ mdPc' = "request" /\ UNCHANGED mdFile
        /\ mdTarget' = IF mdTarget[mdFile].len = Length[mdWanted]
                         THEN [mdTarget EXCEPT ![mdFile] = NoFile] ELSE mdTarget
  /\ UNCHANGED <<mdWanted, mdSeed, mdTmp, mdLatest, mdCancels, mdFaults>>

(* download_one: a .tmp that is not too long is hashed and continued, if    *)
(* the server honours the range (206); a 200 starts over.                   *)
AnyLength(f) == mdTmp[f].len > 0         \* slip: a complete .tmp, too
Resumable(f) == mdTmp[f].len < Length[mdWanted]
Kept == IF Resumable(mdFile) THEN mdTmp[mdFile] ELSE NoFile

Request ==
  /\ mdPc = "request" /\ Kept.len < Length[mdLatest]
  /\ \E start \in {Kept, NoFile} :
       /\ mdSeed' = start
       /\ mdTmp' = [mdTmp EXCEPT ![mdFile] = start]
  /\ mdPc' = "stream"
  /\ UNCHANGED <<mdFile, mdWanted, mdTarget, mdLatest, mdCancels, mdFaults>>

(* A range that begins at the end of the file cannot be satisfied (416).    *)
Unsatisfiable ==
  /\ mdPc = "request" /\ Kept.len >= Length[mdLatest]
  /\ Halts
  /\ UNCHANGED <<mdWanted, mdTarget, mdTmp, mdLatest, mdCancels, mdFaults>>

(* The server refuses, or cannot be reached.                                *)
RequestFails ==
  /\ mdPc = "request" /\ mdFaults < MaxFaults
  /\ mdFaults' = mdFaults + 1
  /\ mdTmp' = [mdTmp EXCEPT ![mdFile] = Kept]
  /\ Halts
  /\ UNCHANGED <<mdWanted, mdTarget, mdLatest, mdCancels>>

(* One more chunk, of the edition the server has.                           *)
Grown(file, of) ==
  [len |-> file.len + 1, of |-> IF file = NoFile \/ file.of = of THEN of
                                                               ELSE Mixed]

Chunk ==
  /\ mdPc = "stream" /\ mdSeed.len < Length[mdLatest]
  /\ \/ mdSeed' = Grown(mdSeed, mdLatest) /\ UNCHANGED mdFaults
     \/ /\ mdFaults < MaxFaults /\ mdFaults' = mdFaults + 1     \* damaged
        /\ mdSeed' = Grown(mdSeed, Mixed)
  /\ mdTmp' = [mdTmp EXCEPT ![mdFile] = mdSeed']
  /\ UNCHANGED <<mdPc, mdFile, mdWanted, mdTarget, mdLatest, mdCancels>>

StreamEnds ==
  /\ mdPc = "stream" /\ mdSeed.len >= Length[mdLatest]
  /\ mdPc' = "verify"
  /\ UNCHANGED <<mdFile, mdWanted, mdSeed, mdTarget, mdTmp, mdLatest,
                 mdCancels, mdFaults>>

(* An error of the stream, or one that just ends: the first keeps the .tmp, *)
(* the second is a short read.                                              *)
StreamBreaks ==
  /\ mdPc = "stream" /\ mdFaults < MaxFaults
  /\ mdFaults' = mdFaults + 1
  /\ \/ Halts
     \/ mdPc' = "verify" /\ UNCHANGED <<mdFile, mdSeed>>
  /\ UNCHANGED <<mdWanted, mdTarget, mdTmp, mdLatest, mdCancels>>

DigestOfChunks == mdSeed.len = Length[mdWanted]   \* slip: size only
DigestIsRight == mdSeed = Whole(mdWanted)

Verify ==
  /\ mdPc = "verify"
  /\ \/ /\ DigestIsRight
        /\ mdTarget' = [mdTarget EXCEPT ![mdFile] = mdTmp[mdFile]]
        /\ mdTmp' = [mdTmp EXCEPT ![mdFile] = NoFile]
        /\ mdSeed' = NoFile
        /\ Onwards
     \/ /\ ~DigestIsRight
        /\ mdTmp' = [mdTmp EXCEPT ![mdFile] = NoFile]
        /\ Halts /\ UNCHANGED mdTarget
  /\ UNCHANGED <<mdWanted, mdLatest, mdCancels, mdFaults>>

(* A cancellation, or the loss of the process, wherever the attempt is.     *)
Interrupted ==
  /\ mdPc # "idle" /\ mdCancels < MaxCancels
  /\ mdCancels' = mdCancels + 1
  /\ Halts
  /\ UNCHANGED <<mdWanted, mdTarget, mdTmp, mdLatest, mdFaults>>

(* model_remove, which has cancelled the download and waited for the gate.  *)
RemoveModel ==
  /\ mdPc = "idle" /\ mdCancels < MaxCancels
  /\ mdCancels' = mdCancels + 1
  /\ mdTarget' = [f \in Files |-> NoFile] /\ mdTmp' = [f \in Files |-> NoFile]
  /\ UNCHANGED <<mdPc, mdFile, mdWanted, mdSeed, mdLatest, mdFaults>>

(* The next version of the application, with a newer manifest, is started.  *)
NewEdition ==
  /\ mdPc = "idle" /\ mdLatest + 1 \in Editions
  /\ mdLatest' = mdLatest + 1
  /\ UNCHANGED <<mdPc, mdFile, mdWanted, mdSeed, mdTarget, mdTmp, mdCancels,
                 mdFaults>>

----------------------------------------------------------------------------
DownloadStep == \/ DownloadBegins \/ CheckFile \/ Request \/ Unsatisfiable
                \/ Chunk \/ StreamEnds \/ Verify

DownloadNext == \/ DownloadStep \/ RequestFails \/ StreamBreaks
                \/ Interrupted \/ RemoveModel \/ NewEdition

(* The user asks again until the model is there.                            *)
DownloadSpec ==
  DownloadInit /\ [][DownloadNext]_mdVars /\ WF_mdVars(DownloadStep)

(* A file in place is a whole file of one edition, whatever was resumed     *)
(* over what, damaged, or interrupted: what the digest was computed of is   *)
(* what the file that takes its place holds.                                *)
InstalledIsVerified ==
  /\ \A f \in Files : mdTarget[f] = NoFile \/ \E e \in Editions :
                                              mdTarget[f] = Whole(e)
  /\ mdPc = "verify" => mdSeed = mdTmp[mdFile]

(* However often a download was damaged or interrupted, asking again gets   *)
(* the model installed: no .tmp is continued for ever that cannot be right. *)
ModelComes == mdPc # "idle" ~> Installed(mdLatest)
=============================================================================

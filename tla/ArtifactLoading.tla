--------------------------- MODULE ArtifactLoading ---------------------------
(***************************************************************************)
(* The artifact a request names is resolved to a canonical path, hashed,   *)
(* and read again for the upload, while somebody may be writing it, or     *)
(* switching the link the request goes through.  What is compared is a     *)
(* byte count: of the metadata with the bytes hashed, and of these with    *)
(* the bytes transferred.                                                  *)
(*                                                                         *)
(* A canonical path leads to an inode; an open file keeps its inode when   *)
(* the path is given another.  Contents are sequences of blocks, one read  *)
(* each.                                                                   *)
(***************************************************************************)
EXTENDS Naturals, Sequences, FiniteSets

CONSTANTS
    CanonicalPath,  \* paths of regular files
    Allowed,        \* those below a canonical allowed root
    Block,          \* the blocks a file is made of
    MaxLength,      \* bound: blocks of a file
    MaxWrites       \* bound: how often the writers act

ASSUME FileAssumption ==
    /\ IsFiniteSet(CanonicalPath) /\ Allowed \subseteq CanonicalPath
    /\ MaxLength \in Nat \ {0} /\ MaxWrites \in Nat

VARIABLES
    inodes,     \* inodes[n]: the content of the n-th file written
    at,         \* at[p]: the inode path p leads to
    link,       \* the canonical path the requested path leads to
    pc,         \* where the request stands
    path,       \* the canonical path deploy goes on with
    open,       \* the inode that is being read
    expected,   \* the byte count the bytes read have to match
    bytes,      \* the bytes read so far
    recorded,   \* the bytes whose size and SHA-256 the deployment records
    held,       \* history: <<p, c>> when path p led to content c
    rewritten,  \* history: a file was rewritten in place
    writes      \* how often the writers acted

hostFiles == <<inodes, at, link, held, rewritten, writes>>
request == <<pc, path, open, expected, bytes, recorded>>
fileVars == <<hostFiles, request>>

FileInit ==
    /\ inodes \in [1 .. Cardinality(CanonicalPath) -> {<<b>> : b \in Block}]
    /\ at \in [CanonicalPath -> DOMAIN inodes]
    /\ \A p, q \in CanonicalPath : at[p] = at[q] => p = q
    /\ held = {<<p, inodes[at[p]]>> : p \in CanonicalPath}
    /\ link \in CanonicalPath
    /\ pc = "requested"
    /\ path = link
    /\ open = 0 /\ expected = 0
    /\ bytes = <<>> /\ recorded = <<>>
    /\ rewritten = FALSE
    /\ writes = 0
-----------------------------------------------------------------------------
(* The writers. *)

Write(p, content) ==
    /\ writes < MaxWrites
    /\ writes' = writes + 1
    /\ held' = held \cup {<<p, content>>}
    /\ UNCHANGED <<link, request>>

Content(p) == inodes[at[p]]

RewriteAs(p, content) ==
    /\ inodes' = [inodes EXCEPT ![at[p]] = content]
    /\ rewritten' = TRUE
    /\ Write(p, content)
    /\ UNCHANGED at

(* A build that is not finished yet appends. *)
AppendBlock(p, b) ==
    /\ Len(Content(p)) < MaxLength
    /\ inodes' = [inodes EXCEPT ![at[p]] = Append(@, b)]
    /\ Write(p, Append(Content(p), b))
    /\ UNCHANGED <<at, rewritten>>

(* A finished file is moved to the path. *)
Publish(p, content) ==
    /\ inodes' = Append(inodes, content)
    /\ at' = [at EXCEPT ![p] = Len(inodes')]
    /\ Write(p, content)
    /\ UNCHANGED rewritten

(* The file is overwritten where it is, or cut to nothing. *)
Overwrite(p, n, b) ==
    /\ n \in DOMAIN Content(p)
    /\ b # Content(p)[n]
    /\ RewriteAs(p, [Content(p) EXCEPT ![n] = b])

Truncate(p) ==
    /\ Content(p) # <<>>
    /\ RewriteAs(p, <<>>)

(* The link the request goes through is switched to another file. *)
SwitchLink(p) ==
    /\ p # link
    /\ writes < MaxWrites
    /\ writes' = writes + 1
    /\ link' = p
    /\ UNCHANGED <<inodes, at, held, rewritten, request>>
-----------------------------------------------------------------------------
(* The request. *)

(* resolve_allowed_artifact_path: from here on the link does not matter.   *)
Resolve ==
    /\ pc = "requested"
    /\ path' = link
    /\ pc' = IF link \in Allowed THEN "resolved" ELSE "refused"
    /\ UNCHANGED <<hostFiles, open, expected, bytes, recorded>>

OpenFile ==
    /\ pc = "resolved"
    /\ open' = at[path]
    /\ pc' = "opened"
    /\ UNCHANGED <<hostFiles, path, expected, bytes, recorded>>

(* metadata of the open file: an empty one is refused. *)
Stat ==
    /\ pc = "opened"
    /\ expected' = Len(inodes[open])
    /\ pc' = IF inodes[open] = <<>> THEN "refused" ELSE "hashing"
    /\ UNCHANGED <<hostFiles, path, open, bytes, recorded>>

Read ==
    /\ pc \in {"hashing", "uploading"}
    /\ Len(bytes) < Len(inodes[open])
    /\ bytes' = Append(bytes, inodes[open][Len(bytes) + 1])
    /\ UNCHANGED <<hostFiles, pc, path, open, expected, recorded>>

AtEnd == Len(bytes) >= Len(inodes[open])

(* The end of the hashing.  An empty artifact is no artifact. *)
Record(accepted) ==
    /\ pc = "hashing" /\ AtEnd
    /\ IF accepted /\ bytes # <<>>
       THEN pc' = "reserved" /\ recorded' = bytes
       ELSE pc' = "refused" /\ UNCHANGED recorded
    /\ UNCHANGED <<hostFiles, path, open, expected, bytes>>

(* Variant: the bytes read are not compared with the metadata. *)
HashedUnchecked == Record(TRUE)

(* The bytes read have to be as many as the metadata said. *)
Hashed == Record(Len(bytes) = expected)

(* The remote-exec process opens path p by itself. *)
PrepareFrom(p) ==
    /\ pc = "reserved"
    /\ open' = at[p]
    /\ expected' = Len(recorded)
    /\ bytes' = <<>>
    /\ pc' = "uploading"
    /\ UNCHANGED <<hostFiles, path, recorded>>

(* Variant: the path of the request is handed on, not the canonical one.   *)
PrepareRequested == PrepareFrom(link)

Prepare == PrepareFrom(path)

(* execute_upload: bytes_transferred has to be the recorded size.          *)
Transferred ==
    /\ pc = "uploading" /\ AtEnd
    /\ pc' = IF Len(bytes) = expected THEN "staged" ELSE "refused"
    /\ UNCHANGED <<hostFiles, path, open, expected, bytes, recorded>>

FileNext ==
    \/ \E p \in CanonicalPath :
           \/ \E b \in Block : AppendBlock(p, b)
           \/ \E n \in 1 .. MaxLength : \E content \in [1 .. n -> Block] :
                  Publish(p, content)
           \/ \E n \in 1 .. MaxLength, b \in Block : Overwrite(p, n, b)
           \/ Truncate(p)
           \/ SwitchLink(p)
    \/ Resolve \/ OpenFile \/ Stat \/ Read \/ Hashed \/ Prepare \/ Transferred

FileSpec == FileInit /\ [][FileNext]_fileVars
-----------------------------------------------------------------------------
Held == {c \in {h[2] : h \in held} : <<path, c>> \in held}

(* The resolved path never led to two contents of the same size. *)
SizesTellApart == \A f, g \in Held : Len(f) = Len(g) => f = g

(* What a deployment records is the digest of a file that was at the path, *)
(* not of the part that was left of one cut short under the reader: as     *)
(* long as sizes tell the contents apart.                                  *)
RecordedWasThere ==
    pc \in {"reserved", "uploading", "staged"} /\ SizesTellApart =>
        recorded \in Held

(* What is staged is what was recorded, whatever the link leads to by now, *)
(* as long as sizes tell the contents of the resolved path apart and files *)
(* are not rewritten in place: a file that grew or was replaced by another *)
(* build before or while it was read again is noticed.  One that is cut to *)
(* the recorded size while it is transferred is not.                       *)
StagedAsRecorded ==
    pc = "staged" /\ SizesTellApart /\ ~rewritten => bytes = recorded
=============================================================================

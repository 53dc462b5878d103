----------------------------- MODULE FileProofs -----------------------------
(***************************************************************************)
(* Proofs about ArtifactLoading: for any number of files, of any length,   *)
(* and any number of writers, counting bytes is enough to tell what was    *)
(* read, as long as sizes tell the contents of a path apart.               *)
(***************************************************************************)
EXTENDS ArtifactLoading, SequenceTheorems, FiniteSetTheorems, TLAPS

FileTypeOK ==
    /\ inodes \in Seq(Seq(Block))
    /\ at \in [CanonicalPath -> DOMAIN inodes]
    /\ link \in CanonicalPath
    /\ path \in CanonicalPath
    /\ bytes \in Seq(Block)
    /\ held \subseteq CanonicalPath \X Seq(Block)

(* No two paths lead to one inode, and what a path leads to was held.      *)
PathsApart ==
    /\ \A p, q \in CanonicalPath : at[p] = at[q] => p = q
    /\ \A p \in CanonicalPath : <<p, Content(p)>> \in held

Opened == pc \in {"opened", "hashing", "reserved", "uploading", "staged"}

(* The open inode is a file of the resolved path: it is still there, or it *)
(* has been replaced and nobody can write it any more.                     *)
OpenIsOfPath ==
    Opened =>
        /\ open \in DOMAIN inodes
        /\ inodes[open] \in Held
        /\ \A p \in CanonicalPath : at[p] = open => p = path

Files == FileTypeOK /\ PathsApart /\ OpenIsOfPath

(* Held is what the history says of the path.                              *)
LEMMA HeldIs == \A c : c \in Held <=> <<path, c>> \in held
<1> SUFFICES ASSUME NEW c, <<path, c>> \in held PROVE c \in {h[2] : h \in held}
  BY DEF Held
<1>1. <<path, c>>[2] = c
  OBVIOUS
<1>2. QED
  BY <1>1

(* The contents the opened file has held, after a step.                    *)
LEMMA HeldIsAfter == \A c : c \in Held' <=> <<path', c>> \in held'
<1> SUFFICES ASSUME NEW c, <<path', c>> \in held' PROVE c \in {h[2] : h \in held'}
  BY DEF Held
<1>1. <<path', c>>[2] = c
  OBVIOUS
<1>2. QED
  BY <1>1

(* The inodes are a sequence of contents, and every path names one of      *)
(* them.                                                                   *)
LEMMA FilesThere ==
    ASSUME FileTypeOK
    PROVE  /\ DOMAIN inodes = 1 .. Len(inodes) /\ Len(inodes) \in Nat
           /\ \A n \in DOMAIN inodes : inodes[n] \in Seq(Block)
           /\ \A p \in CanonicalPath :
                  at[p] \in DOMAIN inodes /\ Content(p) \in Seq(Block)
<1>1. DOMAIN inodes = 1 .. Len(inodes) /\ Len(inodes) \in Nat
  BY LenProperties DEF FileTypeOK
<1>2. \A n \in DOMAIN inodes : inodes[n] \in Seq(Block)
  BY <1>1, ElementOfSeq DEF FileTypeOK
<1>3. QED
  BY <1>1, <1>2 DEF FileTypeOK, Content

(* A system with no file opened yet satisfies Files.                       *)
LEMMA FilesInit == FileInit => Files
<1> SUFFICES ASSUME FileInit PROVE Files
  OBVIOUS
<1>1. PICK n \in Nat : n = Cardinality(CanonicalPath)
  BY FileAssumption, FS_CardinalityType
<1>2. \A b \in Block : <<b>> \in Seq(Block)
  OBVIOUS
<1>3. inodes \in [1 .. n -> Seq(Block)]
  <2>1. inodes \in [1 .. n -> {<<b>> : b \in Block}]
    BY <1>1 DEF FileInit
  <2>2. \A c \in {<<b>> : b \in Block} : c \in Seq(Block)
    BY <1>2
  <2>3. QED
    BY <2>1, <2>2
<1>4. inodes \in Seq(Seq(Block))
  BY <1>3, SeqDef
<1>5. \A p \in CanonicalPath : inodes[at[p]] \in Seq(Block)
  BY <1>3 DEF FileInit
<1>6. FileTypeOK
  BY <1>4, <1>5, EmptySeq DEF FileInit, FileTypeOK
<1>7. PathsApart /\ OpenIsOfPath
  BY DEF FileInit, PathsApart, Content, OpenIsOfPath, Opened
<1>8. QED
  BY <1>6, <1>7 DEF Files
-----------------------------------------------------------------------------
(* What a writer does to the files.                                        *)

(* The file at path p is written where it is.                              *)
LEMMA InPlace ==
    ASSUME Files, NEW p \in CanonicalPath, NEW content \in Seq(Block),
           inodes' = [inodes EXCEPT ![at[p]] = content],
           UNCHANGED at, Write(p, content)
    PROVE  /\ Files'
           /\ Held \subseteq Held'
           /\ Opened => inodes'[open] = IF at[p] = open THEN content
                                        ELSE inodes[open]
<1>1. /\ DOMAIN inodes = 1 .. Len(inodes)
      /\ at[p] \in DOMAIN inodes
  BY FilesThere DEF Files
<1>2. /\ inodes' \in Seq(Seq(Block))
      /\ DOMAIN inodes' = DOMAIN inodes
      /\ \A n \in DOMAIN inodes :
             inodes'[n] = IF n = at[p] THEN content ELSE inodes[n]
  BY <1>1, ExceptSeq DEF Files, FileTypeOK
<1>3. /\ held' = held \cup {<<p, content>>}
      /\ UNCHANGED <<link, path, bytes, pc, open>>
  BY DEF Write, request
<1>4. FileTypeOK'
  BY <1>2, <1>3 DEF Files, FileTypeOK
<1>5. PathsApart'
  <2>1. \A q \in CanonicalPath : at[q] \in DOMAIN inodes
    BY FilesThere DEF Files
  <2>2. \A q \in CanonicalPath :
            inodes'[at[q]] = IF q = p THEN content ELSE inodes[at[q]]
    BY <1>2, <2>1 DEF Files, PathsApart
  <2>3. QED
    BY <1>3, <2>2 DEF Files, PathsApart, Content
<1>6. Held \subseteq Held'
  BY <1>3, HeldIs, HeldIsAfter
<1>7. ASSUME Opened
      PROVE  inodes'[open] = IF at[p] = open THEN content ELSE inodes[open]
  BY <1>2, <1>7 DEF Files, OpenIsOfPath
<1>8. OpenIsOfPath'
  <2> SUFFICES ASSUME Opened'
               PROVE  /\ open \in DOMAIN inodes'
                      /\ inodes'[open] \in Held'
                      /\ \A q \in CanonicalPath : at[q] = open => q = path
    BY <1>3 DEF OpenIsOfPath
  <2>1. Opened
    BY <1>3 DEF Opened
  <2>2. at[p] = open => content \in Held'
    BY <1>3, <2>1, HeldIsAfter DEF Files, OpenIsOfPath
  <2>3. QED
    BY <1>2, <1>6, <1>7, <2>1, <2>2 DEF Files, OpenIsOfPath
<1>9. QED
  BY <1>4, <1>5, <1>6, <1>7, <1>8 DEF Files

(* Another file is moved to path p.                                        *)
LEMMA Published ==
    ASSUME Files, NEW p \in CanonicalPath, NEW content \in Seq(Block),
           Publish(p, content)
    PROVE  /\ Files'
           /\ Held \subseteq Held'
           /\ Opened => inodes'[open] = inodes[open]
<1>1. /\ DOMAIN inodes = 1 .. Len(inodes) /\ Len(inodes) \in Nat
      /\ \A q \in CanonicalPath : at[q] \in DOMAIN inodes
  BY FilesThere DEF Files
<1>2. PICK new : new = Len(inodes) + 1
  OBVIOUS
<1>3. /\ inodes' \in Seq(Seq(Block))
      /\ Len(inodes') = new
      /\ DOMAIN inodes' = 1 .. new
      /\ \A n \in DOMAIN inodes : inodes'[n] = inodes[n]
      /\ inodes'[new] = content
      /\ new \notin DOMAIN inodes
      /\ DOMAIN inodes \subseteq 1 .. new
  <2>1. inodes' = Append(inodes, content)
    BY DEF Publish
  <2>2. /\ inodes' \in Seq(Seq(Block))
        /\ Len(inodes') = new
        /\ \A n \in DOMAIN inodes : inodes'[n] = inodes[n]
        /\ inodes'[new] = content
    BY <1>1, <1>2, <2>1, AppendProperties DEF Files, FileTypeOK
  <2>3. DOMAIN inodes' = 1 .. new
    BY <2>2, LenProperties
  <2>4. QED
    BY <1>1, <1>2, <2>2, <2>3
<1>4. /\ held' = held \cup {<<p, content>>}
      /\ UNCHANGED <<link, path, bytes, pc, open>>
      /\ at' = [at EXCEPT ![p] = new]
  BY <1>3 DEF Publish, Write, request
<1>5. /\ at' \in [CanonicalPath -> DOMAIN inodes']
      /\ \A q \in CanonicalPath : at'[q] = IF q = p THEN new ELSE at[q]
  BY <1>1, <1>2, <1>3, <1>4 DEF Files, FileTypeOK
<1>6. FileTypeOK'
  BY <1>3, <1>4, <1>5 DEF Files, FileTypeOK
<1>7. PathsApart'
  <2>1. \A q \in CanonicalPath :
            inodes'[at'[q]] = IF q = p THEN content ELSE inodes[at[q]]
    BY <1>1, <1>3, <1>5
  <2>2. \A q, r \in CanonicalPath : at'[q] = at'[r] => q = r
    BY <1>1, <1>3, <1>5 DEF Files, PathsApart
  <2>3. QED
    BY <1>4, <2>1, <2>2 DEF Files, PathsApart, Content
<1>8. Held \subseteq Held'
  BY <1>4, HeldIs, HeldIsAfter
<1>9. ASSUME Opened PROVE inodes'[open] = inodes[open]
  BY <1>3, <1>9 DEF Files, OpenIsOfPath
<1>10. OpenIsOfPath'
  <2> SUFFICES ASSUME Opened'
               PROVE  /\ open \in DOMAIN inodes'
                      /\ inodes'[open] \in Held'
                      /\ \A q \in CanonicalPath : at'[q] = open => q = path
    BY <1>4 DEF OpenIsOfPath
  <2>1. Opened
    BY <1>4 DEF Opened
  <2>2. QED
    BY <1>3, <1>5, <1>8, <1>9, <2>1 DEF Files, OpenIsOfPath
<1>11. QED
  BY <1>6, <1>7, <1>8, <1>9, <1>10 DEF Files

(* What happens to the open inode while writers act.                       *)
OpenFileMoves ==
    \/ inodes'[open] = inodes[open]
    \/ \E b \in Block : inodes'[open] = Append(inodes[open], b)
    \/ rewritten' /\ inodes'[open] = <<>>
    \/ rewritten' /\ Len(inodes'[open]) = Len(inodes[open])
                  /\ inodes'[open] # inodes[open]

WriterActs(p) ==
    \/ \E b \in Block : AppendBlock(p, b)
    \/ \E n \in 1 .. MaxLength : \E content \in [1 .. n -> Block] :
           Publish(p, content)
    \/ \E n \in 1 .. MaxLength, b \in Block : Overwrite(p, n, b)
    \/ Truncate(p)
    \/ SwitchLink(p)

(* Another process writing or replacing a file: Files is kept, the request *)
(* does not move, and the contents held by the opened file only grow.      *)
LEMMA WriterEffect ==
    ASSUME Files, NEW p \in CanonicalPath, WriterActs(p)
    PROVE  /\ Files'
           /\ UNCHANGED request
           /\ Held \subseteq Held'
           /\ rewritten => rewritten'
           /\ Opened => OpenFileMoves
<1> DEFINE Effect == /\ Files'
                     /\ UNCHANGED request
                     /\ Held \subseteq Held'
                     /\ rewritten => rewritten'
                     /\ Opened => OpenFileMoves
<1>1. Content(p) \in Seq(Block) /\ at[p] \in DOMAIN inodes
  BY FilesThere DEF Files
<1>2. ASSUME NEW b \in Block, AppendBlock(p, b) PROVE Effect
  <2>1. PICK content : content = Append(Content(p), b)
    OBVIOUS
  <2>2. content \in Seq(Block)
    BY <1>1, <2>1, AppendProperties
  <2>3. /\ inodes' = [inodes EXCEPT ![at[p]] = content]
        /\ UNCHANGED <<at, rewritten, request>> /\ Write(p, content)
    BY <1>1, <1>2, <2>1 DEF AppendBlock, Write, Content
  <2>4. /\ Files' /\ Held \subseteq Held'
        /\ Opened => inodes'[open] = IF at[p] = open THEN content
                                     ELSE inodes[open]
    BY <2>2, <2>3, InPlace
  <2>5. Opened => OpenFileMoves
    BY <2>1, <2>4 DEF OpenFileMoves, Content
  <2>6. QED
    BY <2>3, <2>4, <2>5
<1>3. ASSUME NEW n \in 1 .. MaxLength, NEW content \in [1 .. n -> Block],
             Publish(p, content)
      PROVE  Effect
  <2>1. content \in Seq(Block)
    BY SeqDef, FileAssumption
  <2>2. UNCHANGED <<rewritten, request>>
    BY <1>3 DEF Publish, Write
  <2>3. QED
    BY <1>3, <2>1, <2>2, Published DEF OpenFileMoves
<1>4. ASSUME NEW n \in 1 .. MaxLength, NEW b \in Block, Overwrite(p, n, b)
      PROVE  Effect
  <2>1. PICK content : content = [Content(p) EXCEPT ![n] = b]
    OBVIOUS
  <2>2. n \in 1 .. Len(Content(p)) /\ b # Content(p)[n]
    BY <1>1, <1>4, LenProperties DEF Overwrite
  <2>3. /\ content \in Seq(Block)
        /\ Len(content) = Len(Content(p))
        /\ content # Content(p)
    BY <1>1, <2>1, <2>2, ExceptSeq
  <2>4. /\ inodes' = [inodes EXCEPT ![at[p]] = content]
        /\ UNCHANGED <<at, request>> /\ Write(p, content) /\ rewritten'
    BY <1>4, <2>1 DEF Overwrite, RewriteAs, Write
  <2>5. /\ Files' /\ Held \subseteq Held'
        /\ Opened => inodes'[open] = IF at[p] = open THEN content
                                     ELSE inodes[open]
    BY <2>3, <2>4, InPlace
  <2>6. Opened => OpenFileMoves
    BY <2>3, <2>4, <2>5 DEF OpenFileMoves, Content
  <2>7. QED
    BY <2>4, <2>5, <2>6
<1>5. ASSUME Truncate(p) PROVE Effect
  <2>1. /\ inodes' = [inodes EXCEPT ![at[p]] = <<>>]
        /\ UNCHANGED <<at, request>> /\ Write(p, <<>>) /\ rewritten'
    BY <1>5 DEF Truncate, RewriteAs, Write
  <2>2. <<>> \in Seq(Block)
    BY EmptySeq
  <2>3. /\ Files' /\ Held \subseteq Held'
        /\ Opened => inodes'[open] = IF at[p] = open THEN <<>>
                                     ELSE inodes[open]
    BY <2>1, <2>2, InPlace
  <2>4. QED
    BY <2>1, <2>3 DEF OpenFileMoves
<1>6. ASSUME SwitchLink(p) PROVE Effect
  <2>1. /\ link' = p
        /\ UNCHANGED <<inodes, at, held, rewritten, request>>
    BY <1>6 DEF SwitchLink
  <2>2. FileTypeOK' /\ PathsApart'
    BY <2>1 DEF Files, FileTypeOK, PathsApart, Content, request
  <2>3. Held' = Held
    BY <2>1 DEF Held, request
  <2>4. OpenIsOfPath'
    BY <2>1, <2>3 DEF Files, OpenIsOfPath, Opened, request
  <2>5. QED
    BY <2>1, <2>2, <2>3, <2>4 DEF Files, OpenFileMoves
<1>7. QED
  BY <1>2, <1>3, <1>4, <1>5, <1>6 DEF WriterActs
-----------------------------------------------------------------------------
(* What the request does leaves the files alone.                           *)
LEMMA RequestEffect ==
    ASSUME Files, Resolve \/ OpenFile \/ Stat \/ Read \/ Hashed \/ Prepare
                  \/ Transferred
    PROVE  /\ Files'
           /\ UNCHANGED hostFiles
           /\ pc # "requested" => UNCHANGED path /\ Held' = Held
<1>1. UNCHANGED hostFiles
  BY DEF Resolve, OpenFile, Stat, Read, Hashed, Record, Prepare, PrepareFrom,
         Transferred
<1>2. pc # "requested" => UNCHANGED path
  BY DEF Resolve, OpenFile, Stat, Read, Hashed, Record, Prepare, PrepareFrom,
         Transferred
<1>3. UNCHANGED path => Held' = Held
  BY <1>1 DEF Held, hostFiles
<1>4. path' \in CanonicalPath /\ (Opened' => UNCHANGED path)
  BY DEF Files, FileTypeOK, Opened, Resolve, OpenFile, Stat, Read, Hashed,
         Record, Prepare, PrepareFrom, Transferred
<1>5. bytes' \in Seq(Block)
  <2>1. CASE Read
    <3>1. open \in DOMAIN inodes
      BY <2>1 DEF Read, Files, OpenIsOfPath, Opened
    <3>2. inodes[open] \in Seq(Block) /\ bytes \in Seq(Block)
      BY <3>1, FilesThere DEF Files, FileTypeOK
    <3>3. Len(bytes) + 1 \in 1 .. Len(inodes[open])
      BY <2>1, <3>2, LenProperties DEF Read
    <3>4. inodes[open][Len(bytes) + 1] \in Block
      BY <3>2, <3>3, ElementOfSeq
    <3>5. QED
      BY <2>1, <3>2, <3>4, AppendProperties DEF Read
  <2>2. CASE ~Read
    BY <2>2, EmptySeq DEF Resolve, OpenFile, Stat, Hashed, Record, Prepare,
        PrepareFrom, Transferred, Files, FileTypeOK
  <2>3. QED
    BY <2>1, <2>2
<1>6. FileTypeOK' /\ PathsApart'
  BY <1>1, <1>4, <1>5 DEF Files, FileTypeOK, PathsApart, Content, hostFiles
<1>7. OpenIsOfPath'
  <2>1. CASE OpenFile \/ Prepare
    <3>1. open' = at[path] /\ UNCHANGED path
      BY <2>1 DEF OpenFile, Prepare, PrepareFrom
    <3>2. at[path] \in DOMAIN inodes /\ Content(path) \in Held
      BY FilesThere, HeldIs DEF Files, FileTypeOK, PathsApart
    <3>3. QED
      BY <1>1, <1>3, <3>1, <3>2 DEF OpenIsOfPath, Files, FileTypeOK,
         PathsApart, Content, hostFiles
  <2>2. CASE ~(OpenFile \/ Prepare)
    <3>1. UNCHANGED open /\ (Opened' => Opened)
      BY <2>2 DEF Resolve, Stat, Read, Hashed, Record, Transferred, Opened
    <3>2. QED
      BY <1>1, <1>3, <1>4, <3>1 DEF Files, OpenIsOfPath, hostFiles
  <2>3. QED
    BY <2>1, <2>2
<1>8. QED
  BY <1>1, <1>2, <1>3, <1>6, <1>7 DEF Files

(* Every step of the reader or of a writer keeps Files.                    *)
LEMMA FilesStep == Files /\ [FileNext]_fileVars => Files'
<1> SUFFICES ASSUME Files, [FileNext]_fileVars PROVE Files'
  OBVIOUS
<1>1. CASE UNCHANGED fileVars
  BY <1>1 DEF fileVars, hostFiles, request, Files, FileTypeOK, PathsApart,
     Content, OpenIsOfPath, Opened, Held
<1>2. CASE FileNext
  BY <1>2, WriterEffect, RequestEffect DEF FileNext, WriterActs
<1>3. QED
  BY <1>1, <1>2
-----------------------------------------------------------------------------
(* Reading while the file is written.                                      *)

Starts(f, c) == Len(f) <= Len(c) /\ \A k \in 1 .. Len(f) : f[k] = c[k]

(* A file that was cut to nothing has had every length since.              *)
GrewFromNothing(c) ==
    \A n \in 1 .. Len(c) : \E f \in Held : Len(f) = n /\ Starts(f, c)

Agrees(c) == \A k \in 1 .. Len(bytes) : k <= Len(c) => bytes[k] = c[k]

(* The hashing set out to read content c.  Since then the file was at most *)
(* appended to; or it was cut, and the blocks read are of c or of a later  *)
(* content of their own length; or as many blocks as c has had been read   *)
(* before it was cut.                                                      *)
Untouched(c) == Starts(c, inodes[open]) /\ Agrees(c)

Cut(c) ==
    /\ GrewFromNothing(inodes[open])
    /\ Len(bytes) < Len(c)
    /\ \A k \in 1 .. Len(bytes) :
           \/ bytes[k] = c[k]
           \/ \E f \in Held : Len(f) = k /\ bytes[k] = f[k]

Complete(c) == Len(bytes) >= Len(c) /\ Agrees(c)

ReadingOf(c) ==
    /\ c \in Held
    /\ Len(c) = expected
    /\ Untouched(c) \/ Cut(c) \/ Complete(c)

HashedSoFar ==
    /\ pc \in {"requested", "resolved", "opened"} => bytes = <<>>
    /\ pc = "hashing" /\ SizesTellApart => \E c : ReadingOf(c)

(* Whatever a file has held, and what has been read of it, are sequences   *)
(* of blocks.                                                              *)
LEMMA ContentsHeld ==
    ASSUME Files
    PROVE  /\ \A c \in Held : c \in Seq(Block) /\ Len(c) \in Nat
           /\ bytes \in Seq(Block) /\ Len(bytes) \in Nat
           /\ Opened => inodes[open] \in Held
<1>1. ASSUME NEW c \in Held PROVE c \in Seq(Block)
  <2>1. <<path, c>> \in CanonicalPath \X Seq(Block)
    BY HeldIs DEF Files, FileTypeOK
  <2>2. QED
    BY <2>1
<1>2. QED
  BY <1>1, LenProperties DEF Files, FileTypeOK, OpenIsOfPath

(* Under SizesTellApart a held content is known by its size.               *)
LEMMA SizeTells ==
    ASSUME SizesTellApart, NEW f \in Held, NEW g \in Held, Len(f) = Len(g)
    PROVE  f = g
BY DEF SizesTellApart

(* A writer's step.                                                        *)
LEMMA ReadingKept ==
    ASSUME Files, NEW p \in CanonicalPath, WriterActs(p), pc = "hashing",
           SizesTellApart', NEW c, ReadingOf(c)
    PROVE  ReadingOf(c)'
<1>1. /\ Files'
      /\ UNCHANGED <<pc, open, expected, bytes>>
      /\ Held \subseteq Held'
      /\ OpenFileMoves
  BY WriterEffect DEF Opened, request
<1>2. PICK cur, new : cur = inodes[open] /\ new = inodes'[open]
  OBVIOUS
<1>3. /\ cur \in Held /\ new \in Held'
      /\ cur \in Seq(Block) /\ new \in Seq(Block)
      /\ Len(cur) \in Nat /\ Len(new) \in Nat
  <2>1. cur \in Held /\ cur \in Seq(Block) /\ Len(cur) \in Nat
    BY <1>2, ContentsHeld DEF Opened
  <2>2. Opened' /\ inodes'[open'] \in Held'
    BY <1>1 DEF Files, OpenIsOfPath, Opened
  <2>3. ASSUME NEW f \in Held' PROVE f \in Seq(Block)
    <3>1. <<path', f>> \in CanonicalPath \X Seq(Block)
      BY <1>1, HeldIsAfter DEF Files, FileTypeOK
    <3>2. QED
      BY <3>1
  <2>4. QED
    BY <1>1, <1>2, <2>1, <2>2, <2>3, LenProperties
<1>4. c \in Held' /\ Len(c) = expected' /\ Len(c) \in Nat /\ Len(bytes) \in Nat
  BY <1>1, ContentsHeld DEF ReadingOf
<1>5. CASE Complete(c)
  BY <1>1, <1>4, <1>5 DEF ReadingOf, Complete, Agrees
<1>6. CASE new = cur
  <2>1. CASE Untouched(c)
    BY <1>1, <1>2, <1>4, <1>6, <2>1 DEF ReadingOf, Untouched, Agrees
  <2>2. CASE Cut(c)
    <3>1. GrewFromNothing(inodes[open])'
      BY <1>1, <1>2, <1>6, <2>2 DEF Cut, GrewFromNothing
    <3>2. QED
      BY <1>1, <1>4, <2>2, <3>1 DEF ReadingOf, Cut
  <2>3. QED
    BY <1>5, <2>1, <2>2 DEF ReadingOf
<1>7. ASSUME NEW b \in Block, new = Append(cur, b) PROVE ReadingOf(c)'
  <2>1. /\ Len(new) = Len(cur) + 1
        /\ \A k \in 1 .. Len(cur) : new[k] = cur[k]
    BY <1>3, <1>7, AppendProperties
  <2>2. CASE Untouched(c)
    <3>1. Starts(c, new)
      BY <1>2, <1>3, <1>4, <2>1, <2>2 DEF Untouched, Starts
    <3>2. QED
      BY <1>1, <1>2, <1>4, <2>2, <3>1 DEF ReadingOf, Untouched, Agrees
  <2>3. CASE Cut(c)
    <3>1. ASSUME NEW n \in 1 .. Len(new)
          PROVE  \E f \in Held' : Len(f) = n /\ Starts(f, new)
      <4>1. CASE n = Len(new)
        BY <1>3, <4>1 DEF Starts
      <4>2. CASE n # Len(new)
        <5>1. n \in 1 .. Len(cur)
          BY <1>3, <2>1, <4>2
        <5>2. PICK f \in Held : Len(f) = n /\ Starts(f, cur)
          BY <1>2, <2>3, <5>1 DEF Cut, GrewFromNothing
        <5>3. Starts(f, new)
          BY <1>3, <2>1, <5>1, <5>2 DEF Starts
        <5>4. QED
          BY <1>1, <5>2, <5>3
      <4>3. QED
        BY <4>1, <4>2
    <3>2. GrewFromNothing(inodes[open])'
      BY <1>1, <1>2, <3>1 DEF GrewFromNothing
    <3>3. QED
      BY <1>1, <1>4, <2>3, <3>2 DEF ReadingOf, Cut
  <2>4. QED
    BY <1>5, <2>2, <2>3 DEF ReadingOf
<1>8. CASE new = <<>>
  <2>1. GrewFromNothing(inodes[open])'
    BY <1>1, <1>2, <1>8, EmptySeq DEF GrewFromNothing
  <2>2. CASE Untouched(c) /\ Len(bytes) >= Len(c)
    BY <1>5, <2>2 DEF Untouched, Complete
  <2>3. CASE Untouched(c) /\ Len(bytes) < Len(c)
    <3>1. \A k \in 1 .. Len(bytes) : bytes[k] = c[k]
      BY <1>4, <2>3 DEF Untouched, Agrees
    <3>2. QED
      BY <1>1, <1>4, <2>1, <2>3, <3>1 DEF ReadingOf, Cut
  <2>4. CASE Cut(c)
    BY <1>1, <1>4, <2>1, <2>4 DEF ReadingOf, Cut
  <2>5. QED
    BY <1>4, <1>5, <2>2, <2>3, <2>4 DEF ReadingOf
<1>9. ~(Len(new) = Len(cur) /\ new # cur)
  BY <1>1, <1>3 DEF SizesTellApart
<1>10. QED
  BY <1>1, <1>2, <1>6, <1>7, <1>8, <1>9 DEF OpenFileMoves

(* The request reads a block.                                              *)
LEMMA ReadingGoesOn ==
    ASSUME Files, Files', Read, pc = "hashing", SizesTellApart,
           NEW c, ReadingOf(c)
    PROVE  ReadingOf(c)'
<1>1. PICK cur, k : cur = inodes[open] /\ k = Len(bytes) + 1
  OBVIOUS
<1>2. /\ cur \in Held /\ cur \in Seq(Block) /\ Len(cur) \in Nat
      /\ c \in Held /\ Len(c) \in Nat /\ Len(bytes) \in Nat
  BY <1>1, ContentsHeld DEF Opened, ReadingOf
<1>3. /\ UNCHANGED <<hostFiles, pc, path, open, expected>>
      /\ bytes' = Append(bytes, cur[k])
      /\ k \in 1 .. Len(cur)
  BY <1>1, <1>2 DEF Read
<1>4. /\ Len(bytes') = k
      /\ \A n \in 1 .. Len(bytes) : bytes'[n] = bytes[n]
      /\ bytes'[k] = cur[k]
  <2>1. cur[k] \in Block
    BY <1>2, <1>3, ElementOfSeq
  <2>2. QED
    BY <1>1, <1>3, <2>1, ContentsHeld, AppendProperties
<1>5. Held' = Held /\ inodes'[open'] = cur
  BY <1>1, <1>3 DEF Held, hostFiles
<1>6. CASE Untouched(c)
  <2>1. Agrees(c)'
    BY <1>1, <1>2, <1>3, <1>4, <1>6 DEF Untouched, Agrees, Starts
  <2>2. QED
    BY <1>1, <1>3, <1>5, <1>6, <2>1 DEF ReadingOf, Untouched
<1>7. CASE Complete(c)
  <2>1. Agrees(c)'
    BY <1>1, <1>2, <1>4, <1>7 DEF Complete, Agrees
  <2>2. QED
    BY <1>1, <1>2, <1>3, <1>4, <1>5, <1>7, <2>1 DEF ReadingOf, Complete
<1>8. CASE Cut(c) /\ k < Len(c)
  <2>1. PICK f \in Held : Len(f) = k /\ Starts(f, cur)
    BY <1>1, <1>3, <1>8 DEF Cut, GrewFromNothing
  <2>2. bytes'[k] = f[k]
    BY <1>1, <1>2, <1>4, <2>1 DEF Starts
  <2>3. \A n \in 1 .. Len(bytes') :
            \/ bytes'[n] = c[n]
            \/ \E g \in Held' : Len(g) = n /\ bytes'[n] = g[n]
    BY <1>1, <1>2, <1>4, <1>5, <1>8, <2>1, <2>2 DEF Cut
  <2>4. GrewFromNothing(inodes[open])'
    BY <1>1, <1>5, <1>8 DEF Cut, GrewFromNothing
  <2>5. QED
    BY <1>3, <1>4, <1>5, <1>8, <2>3, <2>4 DEF ReadingOf, Cut
<1>9. CASE Cut(c) /\ ~(k < Len(c))
  <2>1. k = Len(c)
    BY <1>1, <1>2, <1>9 DEF Cut
  <2>2. ASSUME NEW n \in 1 .. k
        PROVE  \E f \in Held : Len(f) = n /\ Starts(f, cur) /\ f[n] = cur[n]
    <3>1. n \in 1 .. Len(cur)
      BY <1>1, <1>2, <1>3
    <3>2. PICK f \in Held : Len(f) = n /\ Starts(f, cur)
      BY <1>1, <1>9, <3>1 DEF Cut, GrewFromNothing
    <3>3. QED
      BY <1>2, <3>1, <3>2 DEF Starts
  <2>3. Starts(c, cur)
    BY <1>1, <1>2, <2>1, <2>2, SizeTells
  <2>4. ASSUME NEW n \in 1 .. Len(bytes) PROVE bytes[n] = c[n]
    <3>1. n \in 1 .. k /\ c[n] = cur[n]
      BY <1>1, <1>2, <2>1, <2>3 DEF Starts
    <3>2. PICK f \in Held : Len(f) = n /\ f[n] = cur[n]
      BY <2>2, <3>1
    <3>3. \A g \in Held : Len(g) = n => g[n] = c[n]
      BY <3>1, <3>2, SizeTells
    <3>4. QED
      BY <1>9, <3>3 DEF Cut
  <2>5. Agrees(c)'
    BY <1>1, <1>2, <1>4, <2>1, <2>3, <2>4 DEF Agrees, Starts
  <2>6. QED
    BY <1>2, <1>3, <1>4, <1>5, <2>1, <2>5 DEF ReadingOf, Complete
<1>10. QED
  BY <1>6, <1>7, <1>8, <1>9 DEF ReadingOf

(* If the contents held after a step have different lengths, those held    *)
(* before it had.                                                          *)
LEMMA SizesToldApart ==
    ASSUME Held \subseteq Held', SizesTellApart' PROVE SizesTellApart
BY DEF SizesTellApart

(* What was read stays a content the file held, a part of one, or what a   *)
(* writer left of one.                                                     *)
LEMMA HashedStep ==
    Files /\ Files' /\ HashedSoFar /\ [FileNext]_fileVars => HashedSoFar'
<1> SUFFICES ASSUME Files, Files', HashedSoFar, [FileNext]_fileVars
             PROVE  HashedSoFar'
  OBVIOUS
<1>1. ASSUME NEW p \in CanonicalPath, WriterActs(p) PROVE HashedSoFar'
  <2>1. UNCHANGED <<pc, bytes>> /\ Held \subseteq Held'
    BY <1>1, WriterEffect DEF request
  <2>2. ASSUME pc = "hashing", SizesTellApart' PROVE \E c : ReadingOf(c)'
    BY <1>1, <2>1, <2>2, ReadingKept, SizesToldApart DEF HashedSoFar
  <2>3. QED
    BY <2>1, <2>2 DEF HashedSoFar
<1>2. CASE Stat
  <2>1. ASSUME pc' = "hashing"
        PROVE  /\ open \in DOMAIN inodes /\ inodes[open] \in Held
               /\ bytes = <<>> /\ bytes' = <<>>
               /\ UNCHANGED <<inodes, open>> /\ expected' = Len(inodes[open])
               /\ Held' = Held
    BY <1>2, RequestEffect DEF Stat, Files, OpenIsOfPath, Opened, HashedSoFar,
       hostFiles
  <2>2. ASSUME pc' = "hashing" PROVE ReadingOf(inodes[open])'
    <3>1. PICK cur : cur = inodes[open]
      OBVIOUS
    <3>2. Len(cur) \in Nat
      BY <2>1, <2>2, <3>1, ContentsHeld
    <3>3. Starts(cur, cur)
      BY <3>2 DEF Starts
    <3>4. Agrees(cur)'
      BY <2>1, <2>2, EmptySeq DEF Agrees
    <3>5. QED
      BY <2>1, <2>2, <3>1, <3>3, <3>4 DEF ReadingOf, Untouched
  <2>3. QED
    BY <1>2, <2>2 DEF HashedSoFar, Stat
<1>3. CASE Read
  <2>1. UNCHANGED <<pc, hostFiles, path>>
    BY <1>3 DEF Read
  <2>2. Held' = Held
    BY <2>1 DEF Held, hostFiles
  <2>3. CASE pc = "hashing"
    BY <1>3, <2>1, <2>2, <2>3, ReadingGoesOn, SizesToldApart DEF HashedSoFar
  <2>4. CASE pc = "uploading"
    BY <2>1, <2>4 DEF HashedSoFar
  <2>5. QED
    BY <1>3, <2>3, <2>4 DEF Read
<1>4. CASE Resolve \/ OpenFile \/ Hashed \/ Prepare \/ Transferred
  BY <1>4 DEF HashedSoFar, Resolve, OpenFile, Hashed, Record, Prepare,
     PrepareFrom, Transferred
<1>5. CASE UNCHANGED fileVars
  <2>1. UNCHANGED <<Held, SizesTellApart, pc, bytes>>
    BY <1>5 DEF fileVars, hostFiles, request, Held, SizesTellApart
  <2>2. \A c : ReadingOf(c) => ReadingOf(c)'
    BY <1>5, <2>1 DEF fileVars, hostFiles, request, ReadingOf, Untouched, Cut,
       Complete, Agrees, GrewFromNothing
  <2>3. QED
    BY <2>1, <2>2 DEF HashedSoFar
<1>6. QED
  BY <1>1, <1>2, <1>3, <1>4, <1>5 DEF FileNext, WriterActs
-----------------------------------------------------------------------------
(* RecordedWasThere.                                                       *)

(* A content that was read whole is the content.                           *)
LEMMA ReadWhole ==
    ASSUME Files, NEW c, ReadingOf(c), Len(bytes) = Len(c) PROVE bytes = c
<1>1. /\ c \in Seq(Block) /\ Len(c) \in Nat
      /\ bytes \in Seq(Block) /\ Len(bytes) \in Nat
  BY ContentsHeld DEF ReadingOf
<1>2. Agrees(c)
  BY <1>1 DEF ReadingOf, Untouched, Cut, Complete
<1>3. QED
  BY <1>1, <1>2, SeqEqual DEF Agrees

(* The size and the hash recorded for an artifact stay those of a content  *)
(* the file held.                                                          *)
LEMMA RecordedStep ==
    /\ Files /\ HashedSoFar /\ RecordedWasThere
    /\ [FileNext]_fileVars
    => RecordedWasThere'
<1> SUFFICES ASSUME Files, HashedSoFar, RecordedWasThere,
                    [FileNext]_fileVars,
                    pc' \in {"reserved", "uploading", "staged"},
                    SizesTellApart'
             PROVE  recorded' \in Held'
  BY DEF RecordedWasThere
<1>1. ASSUME NEW p \in CanonicalPath, WriterActs(p)
      PROVE  recorded' \in Held'
  <2>1. UNCHANGED <<pc, recorded>> /\ Held \subseteq Held'
    BY <1>1, WriterEffect DEF request
  <2>2. QED
    BY <2>1, SizesToldApart DEF RecordedWasThere
<1>2. CASE Hashed
  <2>1. /\ pc = "hashing" /\ Len(bytes) = expected /\ recorded' = bytes
        /\ Held' = Held
    BY <1>2, RequestEffect DEF Hashed, Record
  <2>2. SizesTellApart
    BY <2>1, SizesToldApart
  <2>3. PICK c : ReadingOf(c)
    BY <2>1, <2>2 DEF HashedSoFar
  <2>4. QED
    BY <2>1, <2>3, ReadWhole DEF ReadingOf
<1>3. CASE Prepare \/ Transferred \/ Read
  <2>1. /\ pc \in {"reserved", "uploading", "staged"}
        /\ UNCHANGED recorded /\ Held' = Held
    BY <1>3, RequestEffect DEF Prepare, PrepareFrom, Transferred, Read
  <2>2. QED
    BY <2>1, SizesToldApart DEF RecordedWasThere
<1>4. CASE Resolve \/ OpenFile \/ Stat
  BY <1>4 DEF Resolve, OpenFile, Stat
<1>5. CASE UNCHANGED fileVars
  BY <1>5 DEF fileVars, hostFiles, request, Held, SizesTellApart,
     RecordedWasThere
<1>6. QED
  BY <1>1, <1>2, <1>3, <1>4, <1>5 DEF FileNext, WriterActs

(* The invariants of the reader hold in every state.                       *)
LEMMA FilesCorrect == FileSpec => [](Files /\ HashedSoFar /\ RecordedWasThere)
<1>1. FileInit => Files /\ HashedSoFar /\ RecordedWasThere
  BY FilesInit DEF FileInit, HashedSoFar, RecordedWasThere
<1>2. Files /\ HashedSoFar /\ RecordedWasThere /\ [FileNext]_fileVars
        => (Files /\ HashedSoFar /\ RecordedWasThere)'
  BY FilesStep, HashedStep, RecordedStep
<1>3. QED
  BY <1>1, <1>2, PTL DEF FileSpec

(* RecordedWasThere: load_local_artifact compares nothing but two byte     *)
(* counts, and yet, whatever the writers do meanwhile, what it hashed is a *)
(* content that was at the path, as long as sizes tell these apart.        *)
THEOREM RecordedCorrect == FileSpec => []RecordedWasThere
BY FilesCorrect, PTL
-----------------------------------------------------------------------------
(* StagedAsRecorded.                                                       *)

(* As long as no file is rewritten, what was transferred is the beginning  *)
(* of what the open file holds.                                            *)
Transferring ==
    pc \in {"uploading", "staged"} =>
        /\ expected = Len(recorded)
        /\ ~rewritten => Starts(bytes, inodes[open])

(* What is transferred stays what was opened again for the transfer.       *)
LEMMA TransferringStep ==
    Files /\ Files' /\ Transferring /\ [FileNext]_fileVars => Transferring'
<1> SUFFICES ASSUME Files, Files', Transferring, [FileNext]_fileVars,
                    pc' \in {"uploading", "staged"}
             PROVE  /\ expected' = Len(recorded')
                    /\ ~rewritten' => Starts(bytes', inodes'[open'])
  BY DEF Transferring
<1>1. ASSUME NEW p \in CanonicalPath, WriterActs(p)
      PROVE  /\ expected' = Len(recorded')
             /\ ~rewritten' => Starts(bytes', inodes'[open'])
  <2>1. /\ UNCHANGED <<pc, open, expected, bytes, recorded>>
        /\ rewritten => rewritten'
    BY <1>1, WriterEffect DEF request
  <2>2. Opened /\ OpenFileMoves
    BY <1>1, <2>1, WriterEffect DEF Opened
  <2>3. PICK cur : cur = inodes[open]
    OBVIOUS
  <2>4. cur \in Seq(Block) /\ Len(cur) \in Nat /\ Len(bytes) \in Nat
    BY <2>2, <2>3, ContentsHeld
  <2>5. ASSUME NEW b \in Block, inodes'[open] = Append(cur, b),
               Starts(bytes, cur)
        PROVE  Starts(bytes, inodes'[open])
    BY <2>4, <2>5, AppendProperties DEF Starts
  <2>6. QED
    BY <2>1, <2>2, <2>3, <2>5 DEF OpenFileMoves, Transferring
<1>2. CASE Prepare
  <2>1. /\ expected' = Len(recorded') /\ bytes' = <<>> /\ Opened'
    BY <1>2 DEF Prepare, PrepareFrom, Opened
  <2>2. inodes'[open'] \in Seq(Block)
    BY <2>1, ElementOfSeq, LenProperties DEF Files, FileTypeOK, OpenIsOfPath
  <2>3. Len(bytes') = 0 /\ Len(inodes'[open']) \in Nat
    BY <2>1, <2>2, EmptySeq, LenProperties
  <2>4. QED
    BY <2>1, <2>3 DEF Starts
<1>3. CASE Read
  <2>1. PICK cur, k : cur = inodes[open] /\ k = Len(bytes) + 1
    OBVIOUS
  <2>2. /\ UNCHANGED <<inodes, rewritten, pc, open, expected, recorded>>
        /\ bytes' = Append(bytes, cur[k])
        /\ Len(bytes) < Len(cur)
    BY <1>3, <2>1 DEF Read, hostFiles
  <2>3. /\ cur \in Seq(Block) /\ Len(cur) \in Nat
        /\ bytes \in Seq(Block) /\ Len(bytes) \in Nat
    BY <2>1, <2>2, ContentsHeld DEF Opened
  <2>4. k \in 1 .. Len(cur)
    BY <2>1, <2>2, <2>3
  <2>5. cur[k] \in Block
    BY <2>3, <2>4, ElementOfSeq
  <2>6. /\ Len(bytes') = k
        /\ \A n \in 1 .. Len(bytes) : bytes'[n] = bytes[n]
        /\ bytes'[k] = cur[k]
    BY <2>1, <2>2, <2>3, <2>5, AppendProperties
  <2>7. QED
    BY <2>1, <2>2, <2>3, <2>4, <2>6 DEF Transferring, Starts
<1>4. CASE Transferred
  BY <1>4 DEF Transferred, Transferring, hostFiles
<1>5. CASE Resolve \/ OpenFile \/ Stat \/ Hashed
  BY <1>5 DEF Resolve, OpenFile, Stat, Hashed, Record
<1>6. CASE UNCHANGED fileVars
  BY <1>6 DEF fileVars, hostFiles, request, Transferring
<1>7. QED
  BY <1>1, <1>2, <1>3, <1>4, <1>5, <1>6 DEF FileNext, WriterActs

(* What the target receives is checked against what was recorded.          *)
LEMMA StagedStep ==
    /\ Files /\ RecordedWasThere /\ Transferring /\ StagedAsRecorded
    /\ [FileNext]_fileVars
    => StagedAsRecorded'
<1> SUFFICES ASSUME Files, RecordedWasThere, Transferring, StagedAsRecorded,
                    [FileNext]_fileVars, pc' = "staged", SizesTellApart',
                    ~rewritten'
             PROVE  bytes' = recorded'
  BY DEF StagedAsRecorded
<1>1. ASSUME NEW p \in CanonicalPath, WriterActs(p)
      PROVE  bytes' = recorded'
  <2>1. /\ UNCHANGED <<pc, bytes, recorded>> /\ Held \subseteq Held'
        /\ rewritten => rewritten'
    BY <1>1, WriterEffect DEF request
  <2>2. QED
    BY <2>1, SizesToldApart DEF StagedAsRecorded
<1>2. CASE Transferred
  <2>1. /\ pc = "uploading" /\ AtEnd /\ Len(bytes) = expected
        /\ UNCHANGED <<bytes, recorded, rewritten>> /\ Held' = Held
    BY <1>2, RequestEffect DEF Transferred, hostFiles
  <2>2. SizesTellApart /\ recorded \in Held /\ Len(bytes) = Len(recorded)
    BY <2>1, SizesToldApart DEF RecordedWasThere, Transferring
  <2>3. PICK cur : cur = inodes[open]
    OBVIOUS
  <2>4. /\ cur \in Held /\ cur \in Seq(Block) /\ Len(cur) \in Nat
        /\ bytes \in Seq(Block) /\ Len(bytes) \in Nat
    BY <2>1, <2>3, ContentsHeld DEF Opened
  <2>5. Starts(bytes, cur) /\ Len(bytes) >= Len(cur)
    BY <2>1, <2>3 DEF Transferring, AtEnd
  <2>6. Len(bytes) = Len(cur) /\ \A k \in 1 .. Len(bytes) : bytes[k] = cur[k]
    BY <2>4, <2>5 DEF Starts
  <2>7. bytes = cur
    BY <2>4, <2>6, SeqEqual
  <2>8. QED
    BY <2>1, <2>2, <2>4, <2>7, SizeTells
<1>3. CASE Resolve \/ OpenFile \/ Stat \/ Hashed \/ Prepare \/ Read
  BY <1>3 DEF Resolve, OpenFile, Stat, Hashed, Record, Prepare, PrepareFrom,
     Read
<1>4. CASE UNCHANGED fileVars
  BY <1>4 DEF fileVars, hostFiles, request, Held, SizesTellApart,
     StagedAsRecorded
<1>5. QED
  BY <1>1, <1>2, <1>3, <1>4 DEF FileNext, WriterActs

(* StagedAsRecorded: execute_upload compares the byte count it is told     *)
(* with the recorded one, and that is enough for as long as no file is     *)
(* rewritten in place and sizes tell the contents of the path apart.       *)
THEOREM StagedCorrect == FileSpec => []StagedAsRecorded
<1>1. FileInit => Transferring /\ StagedAsRecorded
  BY DEF FileInit, Transferring, StagedAsRecorded
<1>2. /\ Files /\ Files' /\ RecordedWasThere
      /\ Transferring /\ StagedAsRecorded /\ [FileNext]_fileVars
      => (Transferring /\ StagedAsRecorded)'
  BY TransferringStep, StagedStep
<1>3. QED
  BY <1>1, <1>2, FilesCorrect, PTL DEF FileSpec
=============================================================================

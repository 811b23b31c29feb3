---------------------------- MODULE SdFileServer ----------------------------
(***************************************************************************)
(* The SD card's file server: from a URL to a path on the card and back to *)
(* the links of an index page, and what a request does to the card.  A     *)
(* path is a sequence of names and separators; the card maps a sequence of *)
(* names to a folder or a file with its content, a sequence of chunks.     *)
(***************************************************************************)
EXTENDS Integers, Sequences, SequencesExt

Slash == "/"
StartsWith(s, prefix) == Len(s) >= Len(prefix) /\ SubSeq(s, 1, Len(prefix)) = prefix

IsAbsolute(path) == path # <<>> /\ Head(path) = Slash
TrailingSlash(path) == path # <<>> /\ Last(path) = Slash
JoinPath(first, second) ==
  (IF ~TrailingSlash(first) /\ ~IsAbsolute(second) THEN Append(first, Slash)
   ELSE IF TrailingSlash(first) /\ IsAbsolute(second) THEN Front(first)
   ELSE first) \o second

\* The code asks for fewer than two characters; a name is taken to have two or more.
RemoveRootPath(path, root) ==
  IF ~StartsWith(path, root) THEN path
  ELSE IF Len(path) = Len(root) \/ path \in {<<>>, <<Slash>>} THEN <<Slash>>
  ELSE SubSeq(path, Len(root) + 1, Len(path))

SplitPath(path) == SelectSeq(path, LAMBDA t : t # Slash)
FileName(path) == Last(path)

---------------------------------------------------------------------------
(* The card: names are found whatever separators repeat.                   *)

Folder == [directory |-> TRUE, content |-> <<>>]
File(content) == [directory |-> FALSE, content |-> content]
NoName == <<"nowhere">>
Named(path) == IF path = <<>> \/ IsAbsolute(path) THEN SplitPath(path) ELSE NoName
IsDirectory(card, path) == Named(path) \in DOMAIN card /\ card[Named(path)].directory
IsFile(card, path) == Named(path) \in DOMAIN card /\ ~card[Named(path)].directory

ListDirectory(card, path) ==
  {[path |-> Append(Append(path, Slash), Last(place)), directory |-> card[place].directory] :
     place \in {p \in DOMAIN card : p # <<>> /\ Front(p) = Named(path)}}

ReadFile(card, path) == IF IsFile(card, path) THEN card[Named(path)].content ELSE <<>>
DeleteFile(card, path) == [place \in DOMAIN card \ {Named(path)} |-> card[place]]
\* fopen creates a file only in a folder that is there.
Writable(card, path) ==
  LET place == Named(path)
  IN  place # <<>> /\ Front(place) \in DOMAIN card /\ card[Front(place)].directory
      /\ ~IsDirectory(card, path)
WriteFile(card, path, content) ==
  IF ~Writable(card, path) THEN card
  ELSE [place \in DOMAIN card \cup {Named(path)} |->
          IF place = Named(path) THEN File(content) ELSE card[place]]
AppendFile(card, path, chunk) == WriteFile(card, path, Append(ReadFile(card, path), chunk))

---------------------------------------------------------------------------
(* The server, set up with a URL prefix and a root path.                   *)

BuildPrefix(s) == IF IsAbsolute(s.prefix) THEN s.prefix ELSE <<Slash>> \o s.prefix
CanHandle(s, url) == StartsWith(url, BuildPrefix(s))

\* Mutant: the configured prefix is cut off, without the separator that was put before it.
ExtractConfigured(s, url) == SubSeq(url, Len(s.prefix) + 1, Len(url))
ExtractPathFromUrl(s, url) == SubSeq(url, Len(BuildPrefix(s)) + 1, Len(url))

BuildAbsolutePath(s, relative) == IF relative = <<>> THEN s.root ELSE JoinPath(s.root, relative)
PathOf(s, url) == BuildAbsolutePath(s, ExtractPathFromUrl(s, url))

\* A row links to its entry, a folder by name and a file by its buttons.
RowOf(s, info) ==
  [uri |-> <<Slash>> \o JoinPath(s.prefix, RemoveRootPath(info.path, s.root)),
   name |-> FileName(info.path), directory |-> info.directory]

\* The way back, one link for each part of the URL.
Crumbs(s, path) ==
  LET parts == SplitPath(JoinPath(s.prefix, RemoveRootPath(path, s.root)))
      link[k \in 0..Len(parts)] == IF k = 0 THEN <<Slash>> ELSE JoinPath(link[k - 1], <<parts[k]>>)
  IN  [k \in DOMAIN parts |-> link[k]]

Response(code, card) == [code |-> code, card |-> card]
NotHandled(card) == Response(404, card)

HandleIndex(s, card, path) ==
  [code |-> 200, card |-> card, crumbs |-> Crumbs(s, path),
   rows |-> {RowOf(s, info) : info \in ListDirectory(card, path)}]

HandleDownload(s, card, path) ==
  IF ~s.download \/ ReadFile(card, path) = <<>> THEN Response(401, card)
  ELSE [code |-> 200, card |-> card, content |-> ReadFile(card, path)]

HandleGet(s, card, url) ==
  IF IsDirectory(card, PathOf(s, url)) THEN HandleIndex(s, card, PathOf(s, url))
  ELSE HandleDownload(s, card, PathOf(s, url))

\* That removing fails, because there is no such file, is not told.
HandleDelete(s, card, url) ==
  IF ~s.deletion \/ IsDirectory(card, PathOf(s, url)) THEN Response(401, card)
  ELSE Response(204, DeleteFile(card, PathOf(s, url)))

\* One call per chunk; only a chunk after the first is answered with success.
HandleUpload(s, card, url, name, chunks) ==
  LET path == PathOf(s, url)
      file == JoinPath(path, <<name>>)
      after[k \in 0..Len(chunks)] ==
        IF k = 0 THEN card
        ELSE IF k > 1 THEN AppendFile(after[k - 1], file, chunks[k])
        ELSE IF IsDirectory(card, path) THEN WriteFile(card, file, <<chunks[1]>>)
        ELSE card
  IN  IF ~s.upload THEN Response(401, card)
      ELSE Response(IF Len(chunks) > 1 THEN 201 ELSE 0, after[Len(chunks)])

Handle(s, card, request) ==
  IF ~CanHandle(s, request.url) THEN NotHandled(card)
  ELSE CASE request.method = "get" -> HandleGet(s, card, request.url)
         [] request.method = "delete" -> HandleDelete(s, card, request.url)
         [] request.method = "upload" ->
              HandleUpload(s, card, request.url, request.name, request.chunks)
=============================================================================

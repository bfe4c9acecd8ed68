----------------------------- MODULE MessageUri -----------------------------
(***************************************************************************)
(* The URIs of folders and messages (CarbonioService, CreateBaseMessageURI)*)
(* and the way back from a URI to a message.                               *)
(*                                                                         *)
(* A URI is a record; its path is the sequence of its segments, slash says *)
(* that it ends with one.  A message key is a number, and so is a segment  *)
(* written in digits; the names of folders are any other segments.         *)
(***************************************************************************)
EXTENDS Integers, Sequences

CONSTANTS NoRef, NoQuery      \* the empty ref and the empty query

Uri(scheme, path, query, ref) ==
  [scheme |-> scheme, path |-> path, slash |-> FALSE, query |-> query, ref |-> ref]

FolderUri(path) == Uri("carbonio", path, NoQuery, NoRef)

\* CreateBaseMessageURI, and the key behind it.
MessageUriOf(path, key) == Uri("carbonio-message", path, NoQuery, key)

\* Thunderbird asks for a part of a message with a query.
WithQuery(uri, query) == Uri(uri.scheme, uri.path, query, uri.ref)

\* Broken variant: the key stays where it is, in the ref.
GetUrlForUriKeepRef(uri) == [uri EXCEPT !.scheme = "x-moz-carbonio"]

\* GetUrlForUri: a channel URI is forwarded as it is; in a message URI the key
\* moves from the ref to the end of the path.
GetUrlForUri(uri) ==
  IF uri.scheme = "x-moz-carbonio" THEN uri
  ELSE [scheme |-> "x-moz-carbonio",
        path |-> IF uri.ref = NoRef THEN uri.path ELSE Append(uri.path, uri.ref),
        slash |-> uri.ref = NoRef,
        query |-> uri.query, ref |-> NoRef]

\* MsgKeyStringFromMessageURI and MsgKeyStringFromChannelURI: the folder's
\* path and the key.  A slash at the end of a channel URI is dropped.
KeyAndFolder(uri) ==
  IF uri.scheme = "carbonio-message"
    THEN [key |-> uri.ref, path |-> uri.path]
    ELSE [key |-> uri.path[Len(uri.path)],
          path |-> SubSeq(uri.path, 1, Len(uri.path) - 1)]

\* What is not a number is read as 0.
ParseUint64Str(segment) == IF segment \in Nat THEN segment ELSE 0

\* MsgHdrFromUri, as the URI of the folder and the key it looks up there.
MsgHdrFromUri(uri) ==
  LET k == KeyAndFolder(uri)
  IN [folder |-> FolderUri(k.path), key |-> ParseUint64Str(k.key)]

\* A message URI without a key is refused, an unknown scheme as well.
Refused(uri) ==
  \/ uri.scheme \notin {"carbonio-message", "x-moz-carbonio"}
  \/ uri.scheme = "carbonio-message" /\ uri.ref = NoRef

=============================================================================

----------------------------- MODULE JsonReader -----------------------------
(***************************************************************************)
(* Json::Reader (jsoncpp.cpp) as main uses it: parse with comments allowed *)
(* and not collected.  A document is a sequence of words; the functions    *)
(* that call each other are steps on a stack of open containers, one step  *)
(* for each value, member name and separator.                              *)
(***************************************************************************)
EXTENDS JsonValue

CONSTANT StackLimit   \* stackLimit_g

ASSUME ReaderAssumption == StackLimit \in Nat \ {0}

VARIABLES doc,     \* the words of the document, space left out
          pos,     \* current_: how many are read
          tree,    \* the value root and what it holds
          path,    \* nodes_: where the current value is
          open,    \* containers that are being read: what each is, last name
          pc,      \* what is read next
          ok,      \* what the last function returned
          errors,  \* how many are in errors_
          depth,   \* stackDepth_g
          replaced \* history: a member was given twice

readerVars == <<doc, pos, tree, path, open, pc, ok, errors, depth, replaced>>

Word(w) == <<w>>
EndOfStream == Word("end")
Comment == Word("comment")

(* The words that begin no value and end none *)
Marks == {"{", "}", "[", "]", ",", ":"}

-----------------------------------------------------------------------------
(* readToken at a place: nothing is behind the end *)
At(p) == IF p < Len(doc) THEN doc[p + 1] ELSE EndOfStream
Behind(p) == IF p < Len(doc) THEN p + 1 ELSE p

(* skipCommentTokens: where the next word is that is no comment *)
SkipComments(p) == Min({q \in p..Len(doc) : At(q) /= Comment})

InitReader ==
  /\ pos = 0 /\ tree = NullTree /\ path = <<>> /\ open = <<>>
  /\ pc = "value" /\ ok = TRUE /\ errors = 0 /\ depth = 0 /\ replaced = FALSE

(* A function returns to the one that reads the container around the value. *)
Return(result) == pc' = "returned" /\ ok' = result

(* readValue of a scalar: the word as a value *)
Decoded(word) ==
  CASE word = Word("true") -> <<"bool", TRUE>>
    [] word = Word("false") -> <<"bool", FALSE>>
    [] word = Word("null") -> Null
    [] TypeOf(word) = "number" -> DecodeNumber(word[2], word[3], word[4])
    [] TypeOf(word) = "text" -> DecodeString(word[2])

IsScalar(word) == TypeOf(word) \in {"true", "false", "null", "number", "text"}

(* readValue: too many values inside each other; nothing catches the exception. *)
StackOverflows ==
  /\ pc = "value" /\ depth >= StackLimit
  /\ pc' = "thrown"
  /\ UNCHANGED <<doc, pos, tree, path, open, ok, errors, depth, replaced>>

(* A number, a string, true, false or null *)
ReadScalar ==
  /\ pc = "value" /\ depth < StackLimit
  /\ LET p == SkipComments(pos)
         v == Decoded(At(p))
     IN  /\ IsScalar(At(p))
         /\ pos' = Behind(p)
         /\ tree' = IF v = Failed THEN tree ELSE Put(tree, path, v)
         /\ errors' = IF v = Failed THEN errors + 1 ELSE errors
         /\ Return(v /= Failed)
  /\ UNCHANGED <<doc, path, open, depth, replaced>>

(* readObject: the object is there before its first member is read. *)
BeginObject ==
  /\ pc = "value" /\ depth < StackLimit
  /\ At(SkipComments(pos)) = Word("{")
  /\ pos' = Behind(SkipComments(pos))
  /\ tree' = Put(tree, path, Object)
  /\ open' = Append(open, [kind |-> Object, name |-> <<>>, index |-> 0])
  /\ depth' = depth + 1
  /\ pc' = "member"
  /\ UNCHANGED <<doc, path, ok, errors, replaced>>

(* Mutant of BeginArray: an array has at least one element. *)
BeginFullArray ==
  /\ pc = "value" /\ depth < StackLimit
  /\ At(SkipComments(pos)) = Word("[")
  /\ pos' = Behind(SkipComments(pos))
  /\ open' = Append(open, [kind |-> Array, name |-> <<>>, index |-> 0])
  /\ path' = Append(path, Element(0))
  /\ tree' = Resolved(Put(tree, path, Array), path')
  /\ depth' = depth + 1
  /\ UNCHANGED <<doc, pc, ok, errors, replaced>>

(* readArray: only a bracket that follows at once makes it empty. *)
BeginArray ==
  /\ pc = "value" /\ depth < StackLimit
  /\ At(SkipComments(pos)) = Word("[")
  /\ LET next == Behind(SkipComments(pos))
     IN  IF At(next) = Word("]")
           THEN /\ pos' = Behind(next)
                /\ tree' = Put(tree, path, Array)
                /\ Return(TRUE)
                /\ UNCHANGED <<path, open, depth>>
           ELSE /\ pos' = next
                /\ open' = Append(open, [kind |-> Array, name |-> <<>>, index |-> 0])
                /\ path' = Append(path, Element(0))
                /\ tree' = Resolved(Put(tree, path, Array), path')
                /\ depth' = depth + 1
                /\ UNCHANGED <<pc, ok>>
  /\ UNCHANGED <<doc, errors, replaced>>

(* readValue: no value begins here.  This return forgets the depth. *)
NoValue ==
  /\ pc = "value" /\ depth < StackLimit
  /\ LET word == At(SkipComments(pos))
     IN  ~IsScalar(word) /\ word \notin {Word("{"), Word("[")}
  /\ pos' = Behind(SkipComments(pos))
  /\ depth' = depth + 1
  /\ errors' = errors + 1
  /\ Return(FALSE)
  /\ UNCHANGED <<doc, tree, path, open, replaced>>

-----------------------------------------------------------------------------
(* Inside a container *)

EndOf(container) == IF container.kind = Object THEN Word("}") ELSE Word("]")

(* The container is read: readValue counts down and returns. *)
Close(result) ==
  /\ open' = Front(open)
  /\ depth' = depth - 1
  /\ Return(result)

(* addErrorAndRecover *)
Wrong == pc' = "recover" /\ errors' = errors + 1 /\ UNCHANGED <<open, depth, ok>>

(* readObject: the name of a member with its colon, or the end of an object in *)
(* which no name was read, which a member named "" looks like                  *)
ReadMember ==
  /\ pc = "member"
  /\ LET p == SkipComments(pos)
         word == At(p)
         name == IF TypeOf(word) = "text" THEN DecodeString(word[2]) ELSE Failed
         colon == Behind(p)
     IN  CASE word = Word("}") /\ Last(open).name = <<>> ->
                /\ pos' = Behind(p) /\ Close(TRUE)
                /\ UNCHANGED <<tree, path, errors, replaced>>
           [] name = Failed ->
                /\ pos' = Behind(p) /\ Wrong
                /\ UNCHANGED <<tree, path, replaced>>
           [] name /= Failed /\ At(colon) /= Word(":") ->
                /\ pos' = Behind(colon) /\ Wrong
                /\ UNCHANGED <<tree, path, replaced>>
           [] OTHER ->
                /\ pos' = Behind(colon)
                /\ open' = [open EXCEPT ![Len(open)].name = name[2]]
                /\ path' = Append(path, Member(name[2]))
                /\ tree' = Resolved(tree, path')
                /\ replaced' = (replaced \/ path' \in DOMAIN tree)
                /\ pc' = "value"
                /\ UNCHANGED <<ok, errors, depth>>
  /\ UNCHANGED doc

(* The value of a member or an element was read, nodes_.pop. *)
ReturnToContainer ==
  /\ pc = "returned" /\ open /= <<>>
  /\ path' = Front(path)
  /\ pc' = IF ok THEN "separator" ELSE "recover"
  /\ UNCHANGED <<doc, pos, tree, open, ok, errors, depth, replaced>>

(* A comma or the end of the container *)
ReadSeparator ==
  /\ pc = "separator"
  /\ LET word == At(SkipComments(pos))
     IN  /\ pos' = Behind(SkipComments(pos))
         /\ CASE word = EndOf(Last(open)) ->
                   Close(TRUE) /\ UNCHANGED <<path, tree, errors>>
              [] word = Word(",") /\ Last(open).kind = Object ->
                   pc' = "member" /\ UNCHANGED <<path, tree, open, ok, errors, depth>>
              [] word = Word(",") /\ Last(open).kind = Array ->
                   /\ open' = [open EXCEPT ![Len(open)].index = @ + 1]
                   /\ path' = Append(path, Element(Last(open).index + 1))
                   /\ tree' = Resolved(tree, path')
                   /\ pc' = "value"
                   /\ UNCHANGED <<ok, errors, depth>>
              [] OTHER -> Wrong /\ UNCHANGED <<path, tree>>
  /\ UNCHANGED <<doc, replaced>>

(* recoverFromError: words are skipped up to one that could end the container, *)
(* which then returns an error itself                                          *)
Recover ==
  /\ pc = "recover"
  /\ pos' = Behind(pos)
  /\ IF At(pos) \in {EndOf(Last(open)), EndOfStream}
       THEN Close(FALSE)
       ELSE UNCHANGED <<open, depth, pc, ok>>
  /\ UNCHANGED <<doc, tree, path, errors, replaced>>

(* parse: comments behind the value are skipped, the rest is not looked at. *)
EndParse ==
  /\ pc = "returned" /\ open = <<>>
  /\ pos' = Behind(SkipComments(pos))
  /\ pc' = IF ok THEN "parsed" ELSE "failed"
  /\ UNCHANGED <<doc, tree, path, open, ok, errors, depth, replaced>>

Parse ==
  \/ StackOverflows \/ ReadScalar \/ BeginObject \/ BeginArray \/ NoValue
  \/ ReadMember \/ ReturnToContainer \/ ReadSeparator \/ Recover \/ EndParse
=============================================================================

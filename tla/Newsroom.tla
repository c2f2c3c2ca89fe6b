------------------------------ MODULE Newsroom ------------------------------
(***************************************************************************)
(* Reporters and readers of Assignment-1 over TCP: the process that        *)
(* all_server.c forks for each connection, and the client all_client.c.    *)
(* Sending a prompt and showing it to the user is one step; typing the     *)
(* answer is another, and so is what the session does with it.             *)
(***************************************************************************)
EXTENDS Dump

CONSTANTS Reporters, Readers

VARIABLES
  client,    \* reporter: what the user is asked for
  typed,     \* reporter: the group and the heading given
  pending,   \* to the session: what was sent and not yet read
  session,   \* session: what it waits for, or does next
  desk,      \* session: the name for the article, the file that is open
  swallowed, \* history: reporters whose group was read with their identity
  reader,    \* what a reader and its session are at
  choice,    \* reader: the group chosen, or Other
  file_list, \* session: the files of the listing, which the reader sees too
  meant,     \* history: the name that the user saw beside the number typed
  number,    \* reader: the number typed
  shown      \* history: what the user got for it

reporting == <<client, typed, pending, session, desk, swallowed>>
reading == <<reader, choice, file_list, meant, number, shown>>
newsroom == <<reporting, reading>>

Other == "neither group"
Untyped == [group |-> Other, heading |-> 0]
NoName == [group |-> Other, time |-> 0, heading |-> 0]
NoDesk == [name |-> NoName, article |-> 0, inode |-> 0]
Nothing == [kind |-> "nothing", text |-> {}]

NewsroomInit ==
  /\ client = [r \in Reporters |-> "away"]
  /\ typed = [r \in Reporters |-> Untyped]
  /\ pending = [r \in Reporters |-> <<>>]
  /\ session = [r \in Reporters |-> "none"]
  /\ desk = [r \in Reporters |-> NoDesk]
  /\ swallowed = {}
  /\ reader = [r \in Readers |-> "away"]
  /\ choice = [r \in Readers |-> Other]
  /\ file_list = [r \in Readers |-> {}]
  /\ meant = [r \in Readers |-> NoName]
  /\ number = [r \in Readers |-> 0]
  /\ shown = [r \in Readers |-> Nothing]

-----------------------------------------------------------------------------
(* A reporter: the client. *)

Connect(r) ==
  /\ Len(filed) < MaxArticles
  /\ client[r] = "away" /\ session[r] = "none"
  /\ typed' = [typed EXCEPT ![r] = Untyped]
  /\ client' = [client EXCEPT ![r] = "group"]
  /\ session' = [session EXCEPT ![r] = "identity"]
  /\ pending' = [pending EXCEPT ![r] = <<"identity">>]
  /\ swallowed' = swallowed \ {r}
  /\ UNCHANGED desk

\* The user answers what it is asked for, and the client waits.
Types(r, field, says, next) ==
  /\ client[r] = field
  /\ client' = [client EXCEPT ![r] = next]
  /\ pending' = [pending EXCEPT ![r] = Append(@, says)]
  /\ UNCHANGED <<session, desk, swallowed>>

TypeGroup(r, g) ==
  /\ Types(r, "group", "group", "waits")
  /\ typed' = [typed EXCEPT ![r].group = g]

TypeDate(r) == Types(r, "date", "date", "waits") /\ UNCHANGED typed

TypeHeading(r, h) ==
  /\ Types(r, "heading", "heading", "waits")
  /\ typed' = [typed EXCEPT ![r].heading = h]

\* Articles that are on their way to a file.
Coming == {r \in Reporters : pending[r] = <<"content">> \/ session[r] = "open"}

TypeContent(r) ==
  /\ Len(filed) + Cardinality(Coming) < MaxArticles
  /\ Types(r, "content", "content", "waits")
  /\ UNCHANGED typed

\* After y the client asks for the next group at once; after n it closes.
TypeMore(r) ==
  /\ \/ Types(r, "more", "y", "group") /\ Len(filed) < MaxArticles
     \/ Types(r, "more", "n", "away")
  /\ UNCHANGED typed

\* The client ends in the middle: the session's recv returns 0 and it exits. A
\* client that ends earlier leaves the same behind, since the session first does
\* what it was sent and its prompts go nowhere.
HangUp(r) ==
  /\ client[r] # "away" /\ pending[r] = <<>>
  /\ session[r] \notin {"open", "write"}
  /\ client' = [client EXCEPT ![r] = "away"]
  /\ session' = [session EXCEPT ![r] = "none"]
  /\ UNCHANGED <<typed, pending, desk, swallowed>>

-----------------------------------------------------------------------------
(* A reporter: its session. *)

\* The session reads what it waits for and goes on to what is next.
Reads(r, field, says, next) ==
  /\ session[r] = field
  /\ pending[r] # <<>> /\ Head(pending[r]) = says
  /\ session' = [session EXCEPT ![r] = next]
  /\ pending' = [pending EXCEPT ![r] = Tail(@)]

Prompts(r, field) == client' = [client EXCEPT ![r] = field]

\* The identity is read into 2000 bytes, with anything that came after it.
ReadIdentity(r) ==
  /\ session[r] = "identity" /\ pending[r] # <<>>
  /\ \E k \in 1 .. Len(pending[r]) :
       /\ pending' = [pending EXCEPT ![r] = SubSeq(@, k + 1, Len(@))]
       /\ swallowed' = IF k > 1 THEN swallowed \cup {r} ELSE swallowed
  /\ session' = [session EXCEPT ![r] = "group"]
  /\ UNCHANGED <<client, typed, desk>>

ReadGroup(r) ==
  /\ Reads(r, "group", "group", "date") /\ Prompts(r, "date")
  /\ UNCHANGED <<typed, desk, swallowed>>

ReadDate(r) ==
  /\ Reads(r, "date", "date", "heading") /\ Prompts(r, "heading")
  /\ UNCHANGED <<typed, desk, swallowed>>

ReadHeading(r) ==
  /\ Reads(r, "heading", "heading", "content") /\ Prompts(r, "content")
  /\ UNCHANGED <<typed, desk, swallowed>>

\* Mutant of ReadContent: the buffer of the group has been used for another message.
GroupReused(r) ==
  /\ Reads(r, "content", "content", "open")
  /\ desk' = [desk EXCEPT ![r].name = [group |-> Other, time |-> now,
                                       heading |-> typed[r].heading]]
  /\ typed' = [typed EXCEPT ![r] = Untyped]
  /\ UNCHANGED <<client, swallowed>>

\* The name is made of the time at which the content came.
ReadContent(r) ==
  /\ Reads(r, "content", "content", "open")
  /\ desk' = [desk EXCEPT ![r].name = [group |-> typed[r].group,
                                       time |-> now,
                                       heading |-> typed[r].heading]]
  /\ typed' = [typed EXCEPT ![r] = Untyped]
  /\ UNCHANGED <<client, swallowed>>

\* fopen may fail, as with a heading that has a slash: then the session exits,
\* and the client with it.
OpenFile(r) ==
  LET nm == desk[r].name
  IN  /\ session[r] = "open"
      /\ \/ /\ Truncate(nm)
            /\ session' = [session EXCEPT ![r] = "write"]
            /\ desk' = [desk EXCEPT
                 ![r].article = NewArticle,
                 ![r].inode = IF Named(nm) = {} THEN NewArticle
                              ELSE (CHOOSE f \in Named(nm) : TRUE).inode]
            /\ UNCHANGED <<client, swallowed>>
         \/ /\ session' = [session EXCEPT ![r] = "none"]
            /\ client' = [client EXCEPT ![r] = "away"]
            /\ desk' = [desk EXCEPT ![r] = NoDesk]
            /\ UNCHANGED library
      /\ UNCHANGED <<typed, pending, swallowed>>

\* Mutant of WriteFile: without fclose, what was printed stays in the buffer.
NotClosed(r) ==
  /\ session[r] = "write"
  /\ session' = [session EXCEPT ![r] = "more"]
  /\ Prompts(r, "more")
  /\ desk' = [desk EXCEPT ![r] = NoDesk]
  /\ UNCHANGED <<typed, pending, dump, filed, swallowed>>

WriteFile(r) ==
  /\ session[r] = "write"
  /\ Write(desk[r].article, desk[r].inode)
  /\ session' = [session EXCEPT ![r] = "more"]
  /\ Prompts(r, "more")
  /\ desk' = [desk EXCEPT ![r] = NoDesk]
  /\ UNCHANGED <<typed, pending, filed, swallowed>>

\* Mutant of ReadMore: the answer is read into BUF_SIZE bytes instead of two.
ReadWide(r) ==
  /\ session[r] = "more" /\ pending[r] # <<>>
  /\ session' = [session EXCEPT ![r] = IF Head(pending[r]) = "y" THEN "group" ELSE "none"]
  /\ pending' = [pending EXCEPT ![r] = <<>>]
  /\ UNCHANGED <<client, typed, desk, swallowed>>

ReadMore(r) ==
  /\ Reads(r, "more", "y", "group") \/ Reads(r, "more", "n", "none")
  /\ UNCHANGED <<client, typed, desk, swallowed>>

-----------------------------------------------------------------------------
(* A reader: client and session take turns, the session never waiting for   *)
(* anything but the client's next message.                                  *)

Moves(r, from, to) ==
  /\ reader[r] = from
  /\ reader' = [reader EXCEPT ![r] = to]
  /\ UNCHANGED library

Enter(r) ==
  /\ Moves(r, "away", "choose")
  /\ UNCHANGED <<choice, file_list, meant, number, shown>>

\* Only the first character is sent; of one that is no digit sscanf makes
\* nothing, and the session goes on with whatever choice holds.
TypeChoice(r, c) ==
  /\ Moves(r, "choose", "choice")
  /\ choice' = [choice EXCEPT ![r] = c]
  /\ shown' = [shown EXCEPT ![r] = Nothing]
  /\ meant' = [meant EXCEPT ![r] = NoName]
  /\ UNCHANGED <<file_list, number>>

\* The session lists the group, or says that there is no such choice.
write_article_list(r) ==
  /\ Moves(r, "choice", "number")
  /\ file_list' = [file_list EXCEPT
       ![r] = IF choice[r] = Other THEN {} ELSE Listing(choice[r])]
  /\ UNCHANGED <<choice, meant, number, shown>>

\* The user gives the number beside a name, or one that is beside none.
TypeNumber(r) ==
  /\ Moves(r, "number", "article")
  /\ \/ \E nm \in file_list[r] :
          /\ meant' = [meant EXCEPT ![r] = nm]
          /\ number' = [number EXCEPT ![r] = Number(file_list[r], nm)]
     \/ /\ meant' = [meant EXCEPT ![r] = NoName]
        /\ number' = [number EXCEPT ![r] = Cardinality(file_list[r]) + 1]
  /\ UNCHANGED <<choice, file_list, shown>>

\* The text of a file; gone, if there is none; and nothing at all for a file
\* that is still empty, for which nothing is sent.
Contents(files) ==
  IF files = {} THEN [kind |-> "gone", text |-> {}]
  ELSE [kind |-> "text", text |-> UNION {f.text : f \in files}]

\* Mutant of transfer_news: the number is looked up in a new listing.
ListAgain(r) ==
  LET list == IF choice[r] = Other THEN {} ELSE Listing(choice[r])
      listed == {nm \in list : Number(list, nm) = number[r]}
      answer == IF listed = {} THEN [kind |-> "no such", text |-> {}]
                ELSE Contents({f \in dump : f.name \in listed})
  IN  /\ Moves(r, "article",
               IF answer.kind = "text" /\ answer.text = {} THEN "blank" ELSE "choose")
      /\ shown' = [shown EXCEPT ![r] = answer]
      /\ file_list' = [file_list EXCEPT ![r] = {}]
      /\ choice' = [choice EXCEPT ![r] = Other]
      /\ number' = [number EXCEPT ![r] = 0]
      /\ UNCHANGED meant

transfer_news(r) ==
  LET listed == {nm \in file_list[r] : Number(file_list[r], nm) = number[r]}
      answer == IF listed = {} THEN [kind |-> "no such", text |-> {}]
                ELSE Contents({f \in dump : f.name \in listed})
  IN  /\ Moves(r, "article",
               IF answer.kind = "text" /\ answer.text = {} THEN "blank" ELSE "choose")
      /\ shown' = [shown EXCEPT ![r] = answer]
      /\ file_list' = [file_list EXCEPT ![r] = {}]
      /\ choice' = [choice EXCEPT ![r] = Other]
      /\ number' = [number EXCEPT ![r] = 0]
      /\ UNCHANGED meant

\* The user quits with # or 0, or ends a client that waits for ever.
Leave(r) ==
  /\ reader[r] \in {"choose", "number", "blank"}
  /\ Moves(r, reader[r], "away")
  /\ choice' = [choice EXCEPT ![r] = Other]
  /\ file_list' = [file_list EXCEPT ![r] = {}]
  /\ shown' = [shown EXCEPT ![r] = Nothing]
  /\ meant' = [meant EXCEPT ![r] = NoName]
  /\ number' = [number EXCEPT ![r] = 0]

-----------------------------------------------------------------------------
ClientStep(r) ==
  \/ Connect(r) \/ TypeDate(r) \/ TypeContent(r) \/ TypeMore(r) \/ HangUp(r)
  \/ \E g \in Groups : TypeGroup(r, g)
  \/ \E h \in Headings : TypeHeading(r, h)

SessionStep(r) ==
  \/ /\ ReadIdentity(r) \/ ReadGroup(r) \/ ReadDate(r) \/ ReadHeading(r)
        \/ ReadContent(r) \/ ReadMore(r)
     /\ UNCHANGED library
  \/ OpenFile(r)
  \/ WriteFile(r)

UserStep(r) ==
  \/ Enter(r) \/ TypeNumber(r) \/ Leave(r)
  \/ \E c \in Groups \cup {Other} : TypeChoice(r, c)

ServeStep(r) == write_article_list(r) \/ transfer_news(r)

NewsroomNext ==
  \/ \E r \in Reporters :
       \/ ClientStep(r) /\ UNCHANGED <<library, reading>>
       \/ SessionStep(r) /\ UNCHANGED reading
  \/ \E r \in Readers : (UserStep(r) \/ ServeStep(r)) /\ UNCHANGED reporting
=============================================================================

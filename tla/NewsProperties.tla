--------------------------- MODULE NewsProperties ---------------------------
(* What should hold of News. *)
EXTENDS News

Fields == {"group", "date", "heading", "content", "more"}
Message == [from : Admins, says : {"password", "wrong", "date", "y", "n"}, date : Dates]

TypeOK ==
  /\ now \in Seconds
  /\ dump \subseteq File
  /\ filed \in Seq(Name)
  /\ client \in [Reporters -> {"away", "waits"} \cup Fields]
  /\ typed \in [Reporters -> [group : Groups \cup {Other}, heading : Headings \cup {0}]]
  /\ pending \in [Reporters -> Seq({"identity", "y", "n"} \cup Fields)]
  /\ session \in [Reporters -> {"none", "identity", "open", "write"} \cup Fields]
  /\ desk \in [Reporters -> [name : Name \cup {NoName}, article : Nat, inode : Nat]]
  /\ swallowed \subseteq Reporters
  /\ reader \in [Readers -> {"away", "choose", "choice", "number", "article", "blank"}]
  /\ choice \in [Readers -> Groups \cup {Other}]
  /\ file_list \in [Readers -> SUBSET Name]
  /\ meant \in [Readers -> Name \cup {NoName}]
  /\ number \in [Readers -> Nat]
  /\ shown \in [Readers -> [kind : {"nothing", "text", "gone", "no such"}, text : SUBSET Articles]]
  /\ admin \in [Admins -> {"off", "password", "denied", "date", "prompt", "more", "done"}]
  /\ replies \in [Admins -> Seq({"y", "n", "more?"})]
  /\ inbox \in Seq(Message)
  /\ server \in {"password", "date", "more"} \cup Groups
  /\ cl_addr \in Admins \cup {Nobody}
  /\ date \in Dates
  /\ left \subseteq Articles
  /\ due \subseteq Articles
  /\ asked \in Dates

-----------------------------------------------------------------------------
(* Safety. *)

Filed == 1 .. Len(filed)
\* Articles whose file is open and not written yet.
InHand == {desk[r].article : r \in {r \in Reporters : session[r] = "write"}}
AskedFor(nm) == nm.time < asked
Rivals(n) == \E m \in Filed \ {n} : filed[m] = filed[n]

\* A name stands for one file, which holds articles that were filed under that
\* name, and is empty only as long as a session has it open.
FilesAreWhole ==
  /\ \A f, g \in dump : f.name = g.name => f = g
  /\ \A f \in dump : \A n \in f.text : n \in Filed /\ filed[n] = f.name
  /\ \A f \in dump : f.text = {} =>
       \E r \in Reporters : session[r] = "write" /\ desk[r].inode = f.inode

\* An article that has been filed is in the library, alone in its file, unless
\* an administrator typed a later date, or another article came with the same
\* heading in the same second.
EveryArticleKept ==
  \A n \in Filed \ InHand :
    \/ \E f \in dump : f.name = filed[n] /\ f.text = {n}
    \/ AskedFor(filed[n])
    \/ Rivals(n)

\* A reader gets an article of the name it saw beside the number it typed, and
\* is told that it is gone only if an administrator typed a later date.
ReaderGetsWhatItMeant ==
  \A r \in Readers :
    /\ shown[r].kind = "text" => \A n \in shown[r].text : filed[n] = meant[r]
    /\ shown[r].kind = "gone" => AskedFor(meant[r])
    /\ shown[r].kind = "no such" => meant[r] = NoName

\* When the server asks whether to go on, no file is left that was too old when
\* the date came, in either directory.
SweptClean == server = "more" => \A f \in dump : f.inode \notin due

\* A reporter and its session do not wait for each other, unless the identity
\* and the group arrived together.
TalkGoesOn ==
  \A r \in Reporters : client[r] = "waits" =>
    pending[r] # <<>> \/ session[r] \in {"open", "write"} \/ r \in swallowed
=============================================================================

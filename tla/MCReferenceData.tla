-------------------------- MODULE MCReferenceData --------------------------
(* Small instances of ReferenceData. *)
EXTENDS ReferenceData, TLC

CONSTANTS r1, r2, r3, gita, gitaSpaced, spaces, temple

MCTables == {"books", "categories", "languages", "locations", "events", "sources"}
MCRaw    == {gita, gitaSpaced, spaces, temple}
MCStrip  == (gita :> gita) @@ (gitaSpaced :> gita) @@ (spaces :> Blank) @@ (temple :> temple)
MCNames  == {gita, temple}
MCIds    == 1 .. 4
Temple(i) == [id |-> i, name |-> temple]
\* Two locations, and two languages, have been given one name.
MCOnFile ==
    [t \in MCTables |->
        CASE t = "books" -> {[id |-> 1, name |-> temple, threshold |-> 0]}
          [] t \in {"locations", "languages"} -> {Temple(1), Temple(2)}
          [] OTHER -> {Temple(1)}]

\* One request of every kind, one that writes and one that reads or renames.
AnyCall ==
    {AddBook(gita, TRUE), AddBook(gitaSpaced, FALSE), AddCategory(gitaSpaced),
     AddLanguage(temple), AddLocation(temple), AddLocation(spaces), AddEvent(gita), AddSource(gita),
     UpdateBookThreshold(temple, 5), UpdateBookThreshold(gita, 5), GetMasterData,
     Entry("books", 1), Entry("categories", 2),
     [op |-> "find", table |-> "languages", name |-> gita],
     [op |-> "ensure", table |-> "books", name |-> gita]}
    \cup GetLocations \cup GetSources \cup InternalEvents \cup GetBooks
Writer ==
    {AddCategory(gita), AddLocation(gita), AddBook(gita, TRUE),
     [op |-> "delete", table |-> "books", id |-> 1],
     [op |-> "delete", table |-> "languages", id |-> 2]}
Third ==
    {Entry("books", 1), [op |-> "rename", table |-> "categories", id |-> 1, name |-> gita]}
    \cup GetBooks
MCTraffic == (r1 :> AnyCall) @@ (r2 :> Writer) @@ (r3 :> Third)
=============================================================================

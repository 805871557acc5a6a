------------------------------ MODULE MCMerge -------------------------------
(* Two archives with two versions each and three manifests of the database: books
   that share a name and differ in what was deleted and joined. *)
EXTENDS Merge

MCTitles == {100, 101}
MCNames == <<"fb2", "usr">>

\* Entries of an archive; every entry is a candidate under its own name.
Book(i, id, fb2) ==
  [index |-> i, id |-> id, stem |-> id, ext |-> "fb2", fb2 |-> fb2, sidecar |-> FALSE,
   aliases |-> <<<<id, "fb2">>>>]
Text(i, title) ==
  [index |-> i, id |-> NoBook, stem |-> title, ext |-> "pdf", fb2 |-> "absent",
   sidecar |-> TRUE, aliases |-> <<<<title, "pdf">>>>]

MCArchives ==
  [fb2 |-> <<[entries |-> 3, records |-> <<Book(0, 1, "present"), Book(2, 2, "error")>>],
             [entries |-> 1, records |-> <<Book(0, 1, "not_collected")>>]>>,
   usr |-> <<[entries |-> 2, records |-> <<Text(1, 100)>>],
             [entries |-> 4, records |-> <<Text(1, 100), Text(3, 101)>>]>>]

Row(id, deleted, joined, names) ==
  [id |-> id, stem |-> id, ext |-> "fb2", deleted |-> deleted, joined |-> joined, aliases |-> names]

MCDatabase ==
  <<<<Row(1, FALSE, FALSE, <<<<100, "pdf">>>>), Row(2, FALSE, FALSE, <<<<100, "pdf">>>>)>>,
    <<Row(1, TRUE, FALSE, <<<<100, "pdf">>>>), Row(2, FALSE, FALSE, <<<<1, "fb2">>, <<101, "pdf">>>>),
      Row(3, FALSE, TRUE, <<<<100, "pdf">>, <<101, "pdf">>>>)>>,
    <<Row(1, TRUE, FALSE, <<<<100, "pdf">>>>), Row(2, FALSE, FALSE, <<<<100, "pdf">>>>),
      Row(4, FALSE, FALSE, <<<<100, "pdf">>>>), Row(5, TRUE, FALSE, <<<<100, "pdf">>>>)>>>>
=============================================================================

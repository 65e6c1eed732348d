------------------------------ MODULE Campaign ------------------------------
(***************************************************************************)
(* The list of campaigns as campaign/campaign.cc reads it: an answer is a  *)
(* sequence of campaigns, or NotAList; the metadata of a campaign is a     *)
(* sequence of entries with a type and a value, "" and "0" being the       *)
(* values that fromJson takes for absent.                                  *)
(***************************************************************************)
EXTENDS Integers, Sequences, Functions

NotAList == <<[id |-> "not a list"]>>
Absent == [DESCRIPTION |-> "", ESTIMATED_INSTALLATION_DURATION |-> "0", ESTIMATED_PREPARATION_DURATION |-> "0"]
Numbers == {"0", "1", "2"}

\* One entry: a second one of a type is an error unless the first counts as
\* absent; std::stoi throws for what is no number.  Other types are ignored.
ReadEntry(c, e) ==
  IF e.type \notin DOMAIN Absent THEN c
  ELSE IF c.metadata[e.type] # Absent[e.type] \/ (e.type # "DESCRIPTION" /\ e.value \notin Numbers) THEN [c EXCEPT !.ok = FALSE]
  ELSE [c EXCEPT !.metadata[e.type] = e.value]

\* The loop over the entries of the metadata, from the first to the last.
fromJson(json) ==
  LET read[i \in 0..Len(json.metadata)] ==
        IF i = 0 THEN [id |-> json.id, name |-> json.name, metadata |-> Absent, ok |-> json.id # "" /\ json.name # ""]
        ELSE ReadEntry(read[i - 1], json.metadata[i])
  IN  read[Len(json.metadata)]

\* A campaign that cannot be read is left out of the list.
campaignsFromJson(json) == IF json = NotAList THEN <<>> ELSE SelectSeq([i \in DOMAIN json |-> fromJson(json[i])], LAMBDA c : c.ok)
=============================================================================

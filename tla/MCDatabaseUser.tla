---------------------------- MODULE MCDatabaseUser ----------------------------
(***************************************************************************)
(* Instances of DatabaseUser for TLC.                                      *)
(***************************************************************************)
EXTENDS DatabaseUser, TLC

Plain(r, n, ds) ==
  [role |-> r, dbs |-> ds, rights |-> {"select"}, secret |-> n,
   template |-> CHOOSE t \in Templates : TRUE, onConflict |-> "Fail",
   generation |-> "primary", policy |-> "Delete", rotate |-> FALSE]

FirstName == CHOOSE n \in SecretNames : TRUE
SecondName == CHOOSE n \in SecretNames \ {FirstName} : TRUE
FirstDb == {CHOOSE d \in Dbs : TRUE}

\* One role.  Databases are added and removed, the Secret is renamed, one there is merged.
MCSpecs ==
  LET r == CHOOSE r \in Roles : TRUE IN
  {Plain(r, FirstName, FirstDb),
   Plain(r, FirstName, Dbs),
   [Plain(r, SecondName, FirstDb) EXCEPT !.onConflict = "Merge"]}

\* Users that may meet in a role or in a Secret, which one of them takes; one asks for a
\* Secret per database, one for rotation.
MCSharedSpecs ==
  LET r1 == CHOOSE r \in Roles : TRUE
      r2 == CHOOSE r \in Roles \ {r1} : TRUE IN
  {Plain(r1, FirstName, FirstDb),
   [Plain(r2, FirstName, FirstDb) EXCEPT !.onConflict = "Adopt", !.policy = "Retain",
                                         !.rotate = TRUE],
   [Plain(r2, FirstName, Dbs) EXCEPT !.generation = "perDatabase"]}

\* Users are interchangeable.
MCSymmetry == Permutations(Users)

=============================================================================

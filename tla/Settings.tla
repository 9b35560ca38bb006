------------------------------ MODULE Settings ------------------------------
(****************************************************************************)
(* How settings.database.url comes about when a worker process imports      *)
(* app.config: pydantic takes the environment before the .env file before   *)
(* the field's default, which is what _y() finds in config.yaml, and the    *)
(* validator looks at the environment once more.                            *)
(****************************************************************************)
EXTENDS Integers

CONSTANTS
  Urls,        (* the database URLs somebody may configure                  *)
  DefaultUrl,  (* the one written in config.py                              *)
  Absent,      (* a variable that is not set, a file that does not exist    *)
  Null         (* a key of config.yaml without a value                      *)

ASSUME SettingsAssumption ==
  /\ DefaultUrl \in Urls
  /\ Absent # Null /\ Absent \notin Urls /\ Null \notin Urls

(* config.yaml: mappings by key, down to values; _load_yaml() makes an empty*)
(* mapping of a file that is missing or empty.                              *)
Leaves   == Urls \cup {Null}
Sections == [{"url"} -> Leaves] \cup [{} -> Leaves]
Document == [{"database"} -> Sections \cup {Null}] \cup [{} -> Leaves]

(* A string or a null is no mapping.                                        *)
ASSUME LeavesAssumption == Leaves \cap (Sections \cup Document) = {}

Sources == [env : Urls \cup {Absent}, dotenv : Urls \cup {Absent}, yaml : Document]

(* One turn of the loop of _y(); what is no mapping has no children.        *)
Child(node, key, default) ==
  IF node \notin Leaves /\ key \in DOMAIN node THEN node[key] ELSE default

(* _y("database", "url", default=...).                                      *)
Y(yaml) == Child(Child(yaml, "database", DefaultUrl), "url", DefaultUrl)

(* Variant: pydantic is not told where the .env file is.                    *)
FieldWithoutDotenv(s) == IF s.env # Absent THEN s.env ELSE Y(s.yaml)

Field(s) ==
  IF s.env # Absent THEN s.env ELSE IF s.dotenv # Absent THEN s.dotenv ELSE Y(s.yaml)

(* Variant: no type is checked.                                             *)
NullTolerated(s) == TRUE

(* An explicit null is no str: the validation of the default fails.         *)
Valid(s) == Field(s) # Null

(* _env_override() of the validated value.                                  *)
DatabaseUrl(s) == IF s.env # Absent THEN s.env ELSE Field(s)

(* config.py: "Priority (highest -> lowest)": environment, .env file,       *)
(* config.yaml, defaults.                                                   *)
Given(s) ==
  LET written == {u \in Leaves : s.yaml = [database |-> [url |-> u]]}
  IN  <<s.env, s.dotenv, IF written = {} THEN Absent ELSE CHOOSE u \in written : TRUE, DefaultUrl>>

(* What the first source gives that gives anything.                         *)
FirstOf(given) ==
  given[CHOOSE n \in DOMAIN given :
          given[n] # Absent /\ \A m \in 1 .. n - 1 : given[m] = Absent]
=============================================================================

---------------------------- MODULE Credentials ----------------------------
(***************************************************************************)
(* What a ProviderConfig's credentials become: from the bytes a credential *)
(* source holds, to the decoded JSON document, to the configuration the    *)
(* Terraform provider runs with (internal/clients/rediscloud.go).          *)
(*                                                                         *)
(* The bytes are abstracted to what the properties tell apart: whether     *)
(* there are any, whether they decode, which fields the document has, and  *)
(* which write of which store entry each value comes from.                 *)
(***************************************************************************)
EXTENDS Naturals

CONSTANTS
    Keys,        \* the entries of the credential stores (a Secret key, a file, a variable)
    MaxVersion,  \* bound: an entry is written at most this many times after the start
    Shapes,      \* the field sets of the documents the runs write
    Unset        \* the Go zero value "" of a missing map entry

CredentialKeys == {"api_key", "secret_key", "url"}
Sources == {"None", "Secret", "InjectedIdentity", "Environment", "Filesystem"}

ASSUME ShapesAssumption == Shapes \subseteq SUBSET CredentialKeys
ASSUME MaxVersionAssumption == MaxVersion \in Nat

\* A value is known by the entry and the write it was read from.
Values == Keys \X (0 .. MaxVersion)
ASSUME UnsetAssumption == Unset \notin Values

(* What an entry holds: nothing, bytes that are no JSON object of strings, *)
(* or a JSON object with the fields in shape.                              *)
Kinds == {"absent", "malformed", "json"}
Blob == [kind : Kinds,
         shape : Shapes \cup {{}},
         version : 0 .. MaxVersion]

\* The field of a configuration holds a value of the document or the zero value.
Configurations == UNION {[S -> Values \cup {Unset}] : S \in SUBSET CredentialKeys}
NoConfiguration == [f \in {} |-> Unset]

(* CommonCredentialExtractor: a missing Secret or file is an error, a      *)
(* missing variable reads as no bytes, None yields no bytes, and there is  *)
(* no handler for InjectedIdentity.                                        *)
ExtractFails(source, blob) ==
    \/ source = "InjectedIdentity"
    \/ source \in {"Secret", "Filesystem"} /\ blob.kind = "absent"

\* Only a JSON object of strings decodes; no bytes at all do not.
Unmarshals(source, blob) == source # "None" /\ blob.kind = "json"

\* The decoded map creds: every field holds the value of this write of this entry.
Creds(key, blob) == [f \in blob.shape |-> <<key, blob.version>>]

(* api_key and secret_key are always set, to the zero value when the map   *)
(* has no such entry; url only when the map has one.                       *)
Configuration(creds) ==
    [f \in {"api_key", "secret_key"} \cup (DOMAIN creds \cap {"url"}) |->
        IF f \in DOMAIN creds THEN creds[f] ELSE Unset]

=============================================================================

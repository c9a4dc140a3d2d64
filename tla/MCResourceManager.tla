------------------------- MODULE MCResourceManager -------------------------
(* Model files that clash with one another and with a primitive, that hold *)
(* nothing, that cannot be read, and of a type that has no icon.           *)
EXTENDS ResourceManager

File(name, type, body) == [name |-> name, type |-> type, body |-> body, builtin |-> FALSE]
Builtin(name) == [name |-> name, type |-> "DEFAULT", body |-> "mesh", builtin |-> TRUE]

Files ==
  {File("BMV080", "SENSOR", "mesh"), File("BMV080", "CONTROLLER", "mesh"),
   File("ESP32", "CONTROLLER", "mesh"), File("wire", "CABLE", "mesh"),
   File("blank", "DEFAULT", "empty"), File("broken", "SENSOR", "unreadable"),
   File("Default_Cube", "DEFAULT", "mesh")}

MCDirectories == {<<>>} \cup {<<f>> : f \in Files}
                 \cup {d \in Files \X Files : d[1] # d[2]}
MCPrimitives == <<Builtin("Default_Cube"), Builtin("Default_Plane")>>
MCIconTypes == {"SENSOR", "CONTROLLER", "DEFAULT"}
=============================================================================

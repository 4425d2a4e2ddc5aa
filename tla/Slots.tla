-------------------------------- MODULE Slots --------------------------------
(***************************************************************************)
(* A value meets a declared type (doc/types): it is converted, a bare      *)
(* record of a union to the variant of its shape, and then judged          *)
(* (slot.rs, inhabit.rs).  The same variants are reached by name, from a   *)
(* table row and from a decorator's arguments (variant_dispatch.rs), and   *)
(* the check of a union at open is to make all of that unambiguous         *)
(* (unions.rs).                                                            *)
(*                                                                         *)
(* A type is a sequence of words: <<"list", "u8">> is list<u8>, and a word *)
(* that is not built in names a union or an alias.  A number is counted in *)
(* halves.  Namespaces, symbol sets, constraint decorators, tensors and    *)
(* functions are left out.                                                 *)
(***************************************************************************)
EXTENDS Integers, SequencesExt

CONSTANTS Given,        \* the variants that each union begins with
          Extends,      \* the parents of each union, which form no cycle
          Candidates,   \* the variants that may be declared: <<union, variant>>
          MaxDeclared,  \* how many of them are
          Aliases,      \* what each alias stands for
          Factors,      \* the factor of each unit of an alias
          Written       \* what may be written in a slot: <<type, value>>

VARIABLES own,          \* the variants each union declares itself
          slot          \* the type of the slot and what is written in it
slotVars == <<own, slot>>

Unions == DOMAIN Given
Numeric == {"u8", "i64", "f64"}
BuiltIn == Numeric \cup {"utf8", "identifier"}
IsNamed(ty) == Head(ty) \notin BuiltIn \cup {"list"}
IsUnion(ty) == Head(ty) \in Unions

\* The uniform shape of values.  The kinds "error" and "refused" stand for
\* the outcomes that are none.
NoFields == [f \in {} |-> 0]
Value(kind, num, name) ==
    [kind |-> kind, num |-> num, name |-> name, union |-> "", fields |-> NoFields, items |-> <<>>]
None == Value("none", 0, "")
Error == Value("error", 0, "")
Refused == Value("refused", 0, "")
Record(fields) == [Value("record", 0, "") EXCEPT !.fields = fields]
Variant(union, name, fields) ==
    [Value("variant", 0, name) EXCEPT !.union = union, !.fields = fields]

Empty == <<<<>>, None>>
Init == own = Given /\ slot = Empty

Declare(union, variant) ==
    /\ slot = Empty
    /\ FoldLeft(LAMBDA n, u : n + Len(own[u]) - Len(Given[u]), 0, SetToSeq(Unions)) < MaxDeclared
    /\ own' = [own EXCEPT ![union] = Append(@, variant)]
    /\ UNCHANGED slot

Write(typed) == slot = Empty /\ slot' = typed /\ UNCHANGED own

Next ==
    \/ \E c \in Candidates : Declare(c[1], c[2])
    \/ \E typed \in Written : Write(typed)

Spec == Init /\ [][Next]_slotVars
-----------------------------------------------------------------------------
(* Unions.  Parents' variants come first, and the first of a name counts.  *)
RECURSIVE Lineage(_)
Lineage(union) ==
    FlattenSeq([k \in DOMAIN Extends[union] |-> Lineage(Extends[union][k])]) \o <<union>>

FirstOnly(s, Key(_)) ==
    LET first == SelectSeq([k \in DOMAIN s |-> k],
                           LAMBDA k : \A j \in 1..k - 1 : Key(s[j]) # Key(s[k]))
    IN  [k \in DOMAIN first |-> s[first[k]]]

\* Each union of the lineage once, as the check walks it.
RawVariants(union) ==
    LET once == FirstOnly(Lineage(union), LAMBDA u : u)
    IN  FlattenSeq([k \in DOMAIN once |-> own[once[k]]])
EffectiveVariants(union) == FirstOnly(RawVariants(union), LAMBDA v : v.name)

FieldNames(v) == {v.fields[k].name : k \in DOMAIN v.fields}
FieldOf(v, name) == v.fields[CHOOSE k \in DOMAIN v.fields : v.fields[k].name = name]

\* The same names with the same types, whatever is optional.
VariantBodiesCollide(a, b) ==
    \/ a.body = "unit" /\ b.body = "unit"
    \/ /\ a.body = "record" /\ b.body = "record"
       /\ FieldNames(a) = FieldNames(b)
       /\ \A name \in FieldNames(a) : FieldOf(a, name).type = FieldOf(b, name).type

ValidateUnion(union) ==
    /\ \A j, k \in DOMAIN RawVariants(union) :
          RawVariants(union)[j].name = RawVariants(union)[k].name => j = k
    /\ \A j, k \in DOMAIN EffectiveVariants(union) :
          VariantBodiesCollide(EffectiveVariants(union)[j], EffectiveVariants(union)[k]) => j = k

Opens == \A union \in Unions : ValidateUnion(union)
-----------------------------------------------------------------------------
(* Types and values.                                                       *)
RECURSIVE ResolveAlias(_)
ResolveAlias(ty) ==
    CASE Head(ty) = "list" -> <<"list">> \o ResolveAlias(Tail(ty))
      [] Head(ty) \in DOMAIN Aliases -> ResolveAlias(Aliases[Head(ty)])
      [] OTHER -> ty

\* A number as one of a numeric type, where it fits.
FitToBuiltin(v, type) ==
    IF type # "f64" /\ (v.num % 2 # 0 \/ (type = "u8" /\ v.num \div 2 \notin 0..255))
    THEN Error ELSE [v EXCEPT !.kind = type]

RECURSIVE ValueMatchesTypeRef(_, _)
ValueMatchesTypeRef(v, ty) ==
    \/ v.kind \in Numeric /\ Head(ty) \in Numeric /\ FitToBuiltin(v, Head(ty)) # Error
    \/ v.kind = "utf8" /\ Head(ty) \in {"utf8", "identifier"}
    \/ v.kind = "identifier" /\ Head(ty) = "identifier"
    \/ v.kind = "variant" /\ IsNamed(ty) /\ v.union = Head(ty)
    \/ v.kind = "record" /\ IsNamed(ty)
    \/ /\ v.kind = "list" /\ Head(ty) = "list"
       /\ \A k \in DOMAIN v.items :
             v.items[k] = None \/ ValueMatchesTypeRef(v.items[k], Tail(ty))

ValueMatchesDeclared(v, field) ==
    (field.optional /\ v = None) \/ ValueMatchesTypeRef(v, field.type)

AllFieldTypesMatch(variant, fields) ==
    \A name \in DOMAIN fields : ValueMatchesDeclared(fields[name], FieldOf(variant, name))

\* The variants whose fields are named, and that the types match.
ShapeMatches(union, fields) ==
    SelectSeq(EffectiveVariants(union), LAMBDA v :
        v.body = "record" /\ FieldNames(v) = DOMAIN fields /\ AllFieldTypesMatch(v, fields))

\* A literal with a unit, by the factor that an alias has for it.
RECURSIVE UnitFactor(_, _)
UnitFactor(ty, unit) ==
    IF Head(ty) \notin DOMAIN Aliases THEN 0
    ELSE IF unit \in DOMAIN Factors[Head(ty)] THEN Factors[Head(ty)][unit]
    ELSE UnitFactor(Aliases[Head(ty)], unit)

ResolveUnitLiteral(v, ty) ==
    IF UnitFactor(ty, v.name) = 0 THEN Error
    ELSE FitToBuiltin(Value("i64", v.num * UnitFactor(ty, v.name), ""), Head(ResolveAlias(ty)))

\* What an alias stands for, unless that is a name again.
NonUnionAliasTarget(ty) ==
    IF IsNamed(ty) /\ ~IsUnion(ty) /\ ~IsNamed(ResolveAlias(ty)) THEN ResolveAlias(ty) ELSE ty

\* May a value of the type have to change?  Only such a list is entered,
\* and one that holds units of a named type.
RECURSIVE TypeMayCoerce(_)
TypeMayCoerce(ty) ==
    CASE Head(ty) = "list" -> TypeMayCoerce(Tail(ty))
      [] IsUnion(ty) -> TRUE
      [] IsNamed(ty) /\ ~IsUnion(ty) ->
            NonUnionAliasTarget(ty) # ty /\ TypeMayCoerce(NonUnionAliasTarget(ty))
      [] OTHER -> Head(ty) = "identifier" \/ Head(ty) \in Numeric

RECURSIVE Coerce(_, _)
CoerceRecord_KeepsFields(v, ty) ==
    LET matches == ShapeMatches(Head(ty), v.fields)
    IN  IF Len(matches) # 1 THEN Error ELSE Variant(Head(ty), Head(matches).name, v.fields)
CoerceRecord(v, ty) ==
    LET matches == ShapeMatches(Head(ty), v.fields)
        variant == Head(matches)
        coerced == [name \in DOMAIN v.fields |->
                        Coerce(v.fields[name], FieldOf(variant, name).type)]
    IN  IF Len(matches) # 1 \/ \E name \in DOMAIN v.fields : coerced[name] = Error
        THEN Error
        ELSE Variant(Head(ty), variant.name, coerced)

CoerceList(v, ty) ==
    LET items == [k \in DOMAIN v.items |-> Coerce(v.items[k], Tail(ty))]
    IN  IF Error \in Range(items) THEN Error ELSE [v EXCEPT !.items = items]

Coerce(v, ty) ==
    CASE v.kind = "unit" -> ResolveUnitLiteral(v, ty)
      [] v.kind # "unit" /\ ~TypeMayCoerce(ty) ->
            IF /\ v.kind = "list" /\ Head(ty) = "list" /\ IsNamed(Tail(ty))
               /\ \E k \in DOMAIN v.items : v.items[k].kind = "unit"
            THEN CoerceList(v, ty) ELSE v
      [] v.kind # "unit" /\ TypeMayCoerce(ty) /\ NonUnionAliasTarget(ty) # ty ->
            Coerce(v, NonUnionAliasTarget(ty))
      [] v.kind \in Numeric /\ Head(ty) \in Numeric ->
            IF FitToBuiltin(v, Head(ty)) # Error THEN FitToBuiltin(v, Head(ty)) ELSE v
      [] v.kind = "utf8" /\ Head(ty) = "identifier" -> [v EXCEPT !.kind = "identifier"]
      [] v.kind = "list" /\ Head(ty) = "list" /\ TypeMayCoerce(ty) -> CoerceList(v, ty)
      [] v.kind = "record" /\ IsUnion(ty) -> CoerceRecord(v, ty)
      [] OTHER -> v

\* A union refuses another's variants and a record that became none, and
\* accepts what is neither.
SlotRefuses(v, ty) ==
    IF IsUnion(ty)
    THEN v.kind = "record" \/ (v.kind = "variant" /\ v.union # Head(ty))
    ELSE ~ValueMatchesTypeRef(v, ty)

AdmitToSlot(v, ty) ==
    LET converted == Coerce(v, ty)
    IN  IF converted # Error /\ SlotRefuses(converted, ResolveAlias(ty)) THEN Refused ELSE converted
-----------------------------------------------------------------------------
(* The other ways to a variant.                                            *)
VariantNamed(union, name) ==
    SelectSeq(EffectiveVariants(union), LAMBDA v : v.name = name)

\* By name: `U::V { ... }`.  An optional field may be left out, and the
\* values are converted and not judged.
Construct(union, name, fields) ==
    LET found == VariantNamed(union, name)
        decl == Head(found)
        values == [f \in FieldNames(decl) |->
                      IF f \in DOMAIN fields THEN Coerce(fields[f], FieldOf(decl, f).type)
                      ELSE IF FieldOf(decl, f).optional THEN None ELSE Error]
    IN  IF \/ found = <<>>
           \/ decl.body # "record"
           \/ ~(DOMAIN fields \subseteq FieldNames(decl))
           \/ \E f \in FieldNames(decl) : values[f] = Error
        THEN Error
        ELSE Variant(union, name, values)

\* By a table's row: the name of the variant and a value for each field.
TableRowToVariant(union, name, row) ==
    LET found == VariantNamed(union, name)
        decl == Head(found)
        fields == [f \in FieldNames(decl) |->
                      row[CHOOSE k \in DOMAIN decl.fields : decl.fields[k].name = f]]
    IN  IF \/ found = <<>>
           \/ decl.body # "record"
           \/ Len(row) # Len(decl.fields)
           \/ ~AllFieldTypesMatch(decl, fields)
        THEN Error
        ELSE Variant(union, name, fields)

\* By a decorator's arguments, which need not name the fields.
DecoratorToVariant(union, args) ==
    LET overlay(v) == [f \in FieldNames(v) |->
                          args[CHOOSE k \in DOMAIN v.fields : v.fields[k].name = f]]
        matches == SelectSeq(EffectiveVariants(union), LAMBDA v :
                       /\ v.body = "record" /\ Len(args) = Len(v.fields)
                       /\ AllFieldTypesMatch(v, overlay(v)))
    IN  IF Len(matches) # 1 THEN Error
        ELSE Variant(union, Head(matches).name, overlay(Head(matches)))
-----------------------------------------------------------------------------
Type == slot[1]
Admitted == AdmitToSlot(slot[2], Type)
IsValue(v) == v.kind \notin {"error", "refused"}

\* The values of a record in the order the fields of a variant have.
InOrder(variant, fields) ==
    [k \in DOMAIN variant.fields |-> fields[variant.fields[k].name]]

\* A table's row and a decorator's arguments keep their values as written: they
\* are what the record is taken for once their fields are converted too.
AsRow(variant, fields) ==
    TableRowToVariant(variant.union, variant.name,
                      InOrder(Head(VariantNamed(variant.union, variant.name)), fields))
TypeIn(variant, field) == FieldOf(Head(VariantNamed(variant.union, variant.name)), field).type
Converted(variant) ==
    [variant EXCEPT !.fields = [f \in DOMAIN @ |-> Coerce(@[f], TypeIn(variant, f))]]
SpelledOtherwise(admitted, fields) ==
    LET row == AsRow(admitted, fields)
        args == InOrder(Head(VariantNamed(admitted.union, admitted.name)), fields)
    IN  /\ Construct(admitted.union, admitted.name, fields) = admitted
        /\ row # Error /\ Converted(row) = admitted
        /\ DecoratorToVariant(admitted.union, args) \in {Error, row}

IsTakenForVariant == slot[2].kind = "record" /\ IsUnion(Type) /\ IsValue(Admitted)

(* In a document that opens, what a slot admits it admits again unchanged, *)
(* as when a value that was read is passed on.  A bare record that it      *)
(* takes for a variant is what naming that variant constructs.  A table's  *)
(* row with the same values is the same variant, and so are a decorator's  *)
(* arguments if they are any, of fields that nobody has converted: what    *)
(* that means for a reader is RowsReadAsDeclared.                          *)
SpellingsAgree ==
    Opens /\ slot # Empty =>
        /\ IsValue(Admitted) => AdmitToSlot(Admitted, Type) = Admitted
        /\ IsTakenForVariant => SpelledOtherwise(Admitted, slot[2].fields)

(* lang_schemas.wcl: "A number that fits is converted to the declared type *)
(* on the way in", so that who declared a u8 reads one, and a table        *)
(* "writes the same data" (lang_documents.wcl): so in a table's row, too.  *)
RowsReadAsDeclared ==
    Opens /\ IsTakenForVariant =>
        LET row == AsRow(Admitted, slot[2].fields)
        IN  \A f \in DOMAIN row.fields :
                LET type == Head(ResolveAlias(TypeIn(row, f)))
                IN  row.fields[f].kind \in Numeric /\ type \in Numeric => row.fields[f].kind = type

(* lang_types.wcl: "Because no two bodies collide, a body identifies a     *)
(* variant."                                                               *)
BodyIdentifiesVariant ==
    Opens /\ slot[2].kind = "record" /\ IsUnion(Type) =>
        Len(ShapeMatches(Head(Type), slot[2].fields)) <= 1

(* lang_types.wcl: "The alias is transparent.  It resolves to its target   *)
(* wherever you use it": the slot admits what it would if it were declared *)
(* with what the alias stands for, except for the alias's own units.       *)
AliasesAreTransparent ==
    Opens /\ slot # Empty /\ slot[2].kind \notin {"unit", "list"} =>
        AdmitToSlot(slot[2], Type) = AdmitToSlot(slot[2], ResolveAlias(Type))
==============================================================================

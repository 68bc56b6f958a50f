---------------------------- MODULE ColumnLayout ----------------------------
(***************************************************************************)
(* The readers of the three binary layouts of a VertiPaq column            *)
(* (vertipaq/column_data_dictionary.cpp, column_data_idf.cpp,              *)
(* column_data_idfmeta.cpp).  Every struct is read by its constructor: it  *)
(* sets some pointers to null, runs _read, and on an exception runs        *)
(* _clean_up and throws again.  Its destructor runs the same _clean_up.    *)
(*                                                                         *)
(* A layout says what a struct does: the pointers its constructor nulls,   *)
(* those its _clean_up deletes, and the steps of _read.  What the file     *)
(* holds decides the layout (counts, the kind of a union).  Consecutive    *)
(* reads of plain values are one step; every read may meet the end of the  *)
(* stream, and every mark may differ from the one expected.                *)
(***************************************************************************)
EXTENDS Integers, Sequences

VARIABLES
    stack,                 \* the constructors that are running, innermost first
    heap,                  \* the objects allocated, each named by its path
    parse                  \* idle, reading, unwinding, built, failed or wild

layoutVars == <<stack, heap, parse>>

-----------------------------------------------------------------------------
(* Layouts and their steps.                                                *)

Layout(nulled, frees, steps) ==
    [nulled |-> nulled, frees |-> frees, steps |-> steps]

Plain(steps) == Layout({}, {}, steps)

Read == [op |-> "read"]
Mark == [op |-> "mark"]
Vector(m) == [op |-> "vector", member |-> m]
Element(m, i, layout) ==
    [op |-> "new", member |-> m, index |-> i, layout |-> layout]
New(m, layout) == Element(m, 0, layout)
Elements(m, layouts) == [i \in DOMAIN layouts |-> Element(m, i, layouts[i])]

\* n_m = true; then, for a kind the switch knows, n_m = false; m = new ...
Union(m, options) ==
    <<[op |-> "none", member |-> m]>> \o [i \in DOMAIN options |-> New(m, options[i])]

-----------------------------------------------------------------------------
(* column_data_dictionary.cpp                                              *)

string_record_handle == Plain(<<Read>>)

dictionary_record_handles_vector(handles) ==
    Layout({"handles"}, {"handles"},
           <<Read, Mark, Vector("handles")>>
           \o Elements("handles", [i \in DOMAIN handles |-> string_record_handle]))

uncompressed_strings == Plain(<<Read>>)

compressed_strings ==
    Layout({"encode_array"}, {"encode_array"}, <<Read, Vector("encode_array"), Read>>)

dictionary_page(page) ==
    Layout({}, {"string_store"},
           <<Read, Mark>>
           \o Union("string_store",
                    CASE page.page_compressed = 0 -> <<uncompressed_strings>>
                      [] page.page_compressed = 1 -> <<compressed_strings>>
                      [] OTHER -> <<>>)
           \o <<Mark>>)

page_layout == Plain(<<Read>>)

\* Mutant: the constructor does not null the vector of pages.
PagesNotNulled(data) ==
    Layout({"page_layout_information", "record_handles"},
           {"page_layout_information", "dictionary_pages", "record_handles"},
           <<New("page_layout_information", page_layout), Vector("dictionary_pages")>>
           \o Elements("dictionary_pages",
                       [i \in DOMAIN data.pages |-> dictionary_page(data.pages[i])])
           \o <<New("record_handles", dictionary_record_handles_vector(data.handles))>>)

string_data(data) ==
    Layout({"page_layout_information", "dictionary_pages", "record_handles"},
           {"page_layout_information", "dictionary_pages", "record_handles"},
           <<New("page_layout_information", page_layout), Vector("dictionary_pages")>>
           \o Elements("dictionary_pages",
                       [i \in DOMAIN data.pages |-> dictionary_page(data.pages[i])])
           \o <<New("record_handles", dictionary_record_handles_vector(data.handles))>>)

vector_of_vectors == Layout({"values"}, {"values"}, <<Read, Vector("values"), Read>>)

number_data ==
    Layout({"vector_of_vectors_info"}, {"vector_of_vectors_info"},
           <<New("vector_of_vectors_info", vector_of_vectors)>>)

hash_info == Layout({"hash_elements"}, {"hash_elements"}, <<Vector("hash_elements"), Read>>)

column_data_dictionary(dict) ==
    Layout({"hash_information"}, {"hash_information", "data"},
           <<Read, New("hash_information", hash_info)>>
           \o Union("data",
                    CASE dict.dictionary_type = "STRING" -> <<string_data(dict)>>
                      [] dict.dictionary_type \in {"LONG", "REAL"} -> <<number_data>>
                      [] OTHER -> <<>>))

-----------------------------------------------------------------------------
(* column_data_idf.cpp                                                     *)

segment_entry == Plain(<<Read>>)

\* Mutant: _clean_up forgets the second vector.
KeepsSubSegment(s) ==
    Layout({"primary_segment", "sub_segment"}, {"primary_segment"},
           <<Read, Vector("primary_segment")>>
           \o Elements("primary_segment",
                       [i \in DOMAIN s.primary_segment |-> segment_entry])
           \o <<Read, Vector("sub_segment"), Read>>)

segment(s) ==
    Layout({"primary_segment", "sub_segment"}, {"primary_segment", "sub_segment"},
           <<Read, Vector("primary_segment")>>
           \o Elements("primary_segment",
                       [i \in DOMAIN s.primary_segment |-> segment_entry])
           \o <<Read, Vector("sub_segment"), Read>>)

column_data_idf(segments) ==
    Layout({"segments"}, {"segments"},
           <<Vector("segments")>>
           \o Elements("segments", [i \in DOMAIN segments |-> segment(segments[i])]))

-----------------------------------------------------------------------------
(* column_data_idfmeta.cpp                                                 *)

s_s_element == Plain(<<Mark, Read, Mark>>)

c_s1_element == Plain(<<Mark, Read, Mark>>)

c_s0_element ==
    Layout({"ss", "cs"}, {"ss", "cs"},
           <<Mark, Read, New("ss", s_s_element), Read, New("cs", c_s1_element), Mark>>)

c_p_element ==
    Layout({"cs"}, {"cs"}, <<Mark, Read, New("cs", c_s0_element), Mark>>)

c_s_d_os1_element == Plain(<<Mark, Read, Mark>>)

c_s_d_os_element ==
    Layout({"csdos"}, {"csdos"}, <<Mark, Read, New("csdos", c_s_d_os1_element), Mark>>)

s_d_os_element ==
    Layout({"csdos"}, {"csdos"}, <<Mark, New("csdos", c_s_d_os_element), Mark>>)

block ==
    Layout({"cp", "sdos"}, {"cp", "sdos"},
           <<New("cp", c_p_element), New("sdos", s_d_os_element)>>)

column_data_idfmeta == Layout({"blocks"}, {"blocks"}, <<New("blocks", block)>>)

-----------------------------------------------------------------------------
(* Reading.  A frame is a constructor that has not returned: the object's  *)
(* path, the steps left, the members assigned, and the unions whose flag   *)
(* says that they hold nothing.                                            *)

Frame(path, layout) ==
    [path |-> path, nulled |-> layout.nulled, frees |-> layout.frees,
     rest |-> layout.steps, held |-> {}, none |-> {}]

Top == Head(stack)
Step == Head(Top.rest)
Reading(op) ==
    parse = "reading" /\ Top.rest # <<>> /\ Step.op = op
WithTop(frame) == <<frame>> \o Tail(stack)

\* Where a member lies, and whether its object's _clean_up deletes it.
Slot(member, index) ==
    [member |-> member, index |-> index, owned |-> member \in Top.frees]

\* What _clean_up deletes: the members assigned, with all they own in turn.
Released(frame) ==
    LET depth == Len(frame.path)
    IN  {o \in heap :
            /\ Len(o) > depth
            /\ SubSeq(o, 1, depth) = frame.path
            /\ o[depth + 1].member \in frame.frees \cap frame.held
            /\ \A k \in depth + 2 .. Len(o) : o[k].owned}

\* Pointers _clean_up reads that nothing has set: neither the constructor
\* nor _read, and no flag says that there is nothing to delete.
Garbage(frame) == frame.frees \ (frame.nulled \cup frame.held \cup frame.none)

Construct(layout) ==
    /\ parse = "idle"
    /\ parse' = "reading"
    /\ stack' = <<Frame(<<>>, layout)>>
    /\ UNCHANGED heap

ReadValues ==
    /\ Reading("read") \/ Reading("mark")
    /\ stack' = WithTop([Top EXCEPT !.rest = Tail(@)])
    /\ UNCHANGED <<heap, parse>>

\* The end of the stream, or validation_not_equal_error.
Throw ==
    /\ Reading("read") \/ Reading("mark")
    /\ parse' = "unwinding"
    /\ UNCHANGED <<stack, heap>>

SetNone ==
    /\ Reading("none")
    /\ stack' = WithTop([Top EXCEPT !.rest = Tail(@), !.none = @ \cup {Step.member}])
    /\ UNCHANGED <<heap, parse>>

NewVector ==
    /\ Reading("vector")
    /\ heap' = heap \cup {Append(Top.path, Slot(Step.member, 0))}
    /\ stack' = WithTop([Top EXCEPT !.rest = Tail(@), !.held = @ \cup {Step.member}])
    /\ UNCHANGED parse

NewObject ==
    /\ Reading("new")
    /\ LET path == Append(Top.path, Slot(Step.member, Step.index))
       IN  /\ heap' = heap \cup {path}
           /\ stack' = <<Frame(path, Step.layout)>>
                       \o WithTop([Top EXCEPT !.none = @ \ {Step.member}])
    /\ UNCHANGED parse

\* The constructor returns and new assigns the member; the outermost object
\* is a local variable of the decoder.
Constructed ==
    /\ parse = "reading" /\ Top.rest = <<>>
    /\ UNCHANGED heap
    /\ IF Len(stack) = 1
       THEN parse' = "built" /\ UNCHANGED stack
       ELSE /\ stack' = LET up == stack[2]
                        IN  <<[up EXCEPT !.rest = Tail(@),
                                         !.held = @ \cup {Head(up.rest).member}]>>
                            \o SubSeq(stack, 3, Len(stack))
            /\ UNCHANGED parse

\* catch (...) { _clean_up(); throw; } and new gives back the memory.
Unwind ==
    /\ parse = "unwinding"
    /\ heap' = heap \ (Released(Top) \cup {Top.path})
    /\ stack' = Tail(stack)
    /\ parse' = IF Len(stack) = 1 THEN "failed" ELSE "unwinding"

\* _clean_up deletes what an uninitialised pointer points to.
WildDelete ==
    /\ parse = "unwinding" /\ Garbage(Top) # {}
    /\ parse' = "wild"
    /\ UNCHANGED <<stack, heap>>

\* The decoder has used the object, and its destructor runs.
Release ==
    /\ parse = "built"
    /\ heap' = heap \ Released(Top)
    /\ stack' = <<>>
    /\ parse' = "idle"

ReadStep ==
    \/ ReadValues
    \/ Throw
    \/ SetNone
    \/ NewVector
    \/ NewObject
    \/ Constructed
    \/ Unwind
    \/ WildDelete

\* A reader whose _clean_up misses a member leaves objects behind: nothing is
\* allocated between two documents and after a failure.
\* (generated _clean_up of every struct)
NothingLeftBehind == parse \in {"idle", "failed"} => heap = {}

-----------------------------------------------------------------------------
(* The inductive invariant behind it (Vertipaq_proofs), for the layouts    *)
(* that the structs of a column's documents have.                          *)

MetaReaders ==
    {column_data_idfmeta, block, c_p_element, c_s0_element, s_s_element, c_s1_element,
     s_d_os_element, c_s_d_os_element, c_s_d_os1_element}

IdfReaders(segments) ==
    {column_data_idf(segments), segment_entry}
    \cup {segment(segments[i]) : i \in DOMAIN segments}

DictionaryReaders(dict) ==
    {column_data_dictionary(dict), hash_info, number_data, vector_of_vectors,
     string_data(dict), page_layout, uncompressed_strings, compressed_strings,
     dictionary_record_handles_vector(dict.handles), string_record_handle}
    \cup {dictionary_page(dict.pages[i]) : i \in DOMAIN dict.pages}

\* The pointers of the structs.
Members ==
    {"handles", "encode_array", "string_store", "page_layout_information",
     "dictionary_pages", "record_handles", "values", "vector_of_vectors_info",
     "hash_elements", "hash_information", "data", "primary_segment", "sub_segment",
     "segments", "ss", "cs", "csdos", "cp", "sdos", "blocks"}

\* What the steps of a reader may be: it assigns only what it deletes, and
\* reads the structs inside with other readers.
StepsOf(frees, readers) ==
    [op : {"read", "mark"}]
    \cup [op : {"vector", "none"}, member : frees]
    \cup [op : {"new"}, member : frees, index : Nat, layout : readers]

\* Only a union's pointer is not null before _read assigns it.
Unions == {"data", "string_store"}

SoundReader(l, readers) ==
    /\ l.nulled \subseteq Members /\ l.frees \subseteq Members
    /\ l.frees \ l.nulled \subseteq Unions
    /\ l.steps \in Seq(StepsOf(l.frees, readers))

Slots == [member : Members, index : Nat, owned : BOOLEAN]

Frames(readers) ==
    [path : Seq(Slots), nulled : SUBSET Members, frees : SUBSET Members,
     rest : Seq(StepsOf(Members, readers)), held : SUBSET Members, none : SUBSET Members]

SoundFrame(f, readers) ==
    /\ f.frees \ f.nulled \subseteq Unions
    /\ f.rest \in Seq(StepsOf(f.frees, readers))

\* A frame waits for the frame in front of it.
WaitsFor(f, inner) ==
    /\ f.rest # <<>> /\ Head(f.rest).op = "new"
    /\ inner.path = Append(f.path, [member |-> Head(f.rest).member,
                                    index |-> Head(f.rest).index, owned |-> TRUE])

StackInv(readers) ==
    /\ stack \in Seq(Frames(readers))
    /\ \A k \in DOMAIN stack : SoundFrame(stack[k], readers)
    /\ \A k \in DOMAIN stack :
          IF k = Len(stack) THEN stack[k].path = <<>> ELSE WaitsFor(stack[k + 1], stack[k])
    /\ (stack = <<>>) <=> (parse \in {"idle", "failed"})
    /\ parse = "built" => Len(stack) = 1
    /\ parse \in {"idle", "reading", "unwinding", "built", "failed", "wild"}

\* An object lies in a member that the frame's _clean_up deletes, and every
\* struct between them deletes its own.
BelongsTo(o, f) ==
    LET depth == Len(f.path)
    IN  /\ Len(o) > depth
        /\ SubSeq(o, 1, depth) = f.path
        /\ o[depth + 1].member \in f.frees \cap f.held
        /\ \A k \in depth + 1 .. Len(o) : o[k].owned

\* Whatever is allocated is the struct of a running constructor, or belongs to
\* one: unwinding reaches it.
HeapInv ==
    /\ heap \subseteq Seq(Slots)
    /\ \A o \in heap :
          o # <<>> /\ \E k \in DOMAIN stack : o = stack[k].path \/ BelongsTo(o, stack[k])

LayoutInv(readers) == StackInv(readers) /\ HeapInv

=============================================================================

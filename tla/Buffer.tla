------------------------------- MODULE Buffer -------------------------------
(***************************************************************************)
(* yonaa::buffer (buffer.hpp): a vector of bytes, here a sequence of       *)
(* numbers.  size(), data(), str(), as<T>() and operator bool are Len, the *)
(* sequence itself and Len # 0.                                            *)
(***************************************************************************)
EXTENDS Integers, Sequences

\* buffer(const char *data, size_t size), and buffer(const std::string &).
buffer_from(data, size) == SubSeq(data, 1, size)

\* buffer(size_t size): vector::resize zero-fills.
buffer_of_size(size) == [i \in 1..size |-> 0]

\* buffer(T (&data)[N]): all but the last element, the terminator of a literal.
buffer_from_whole_array(data) == buffer_from(data, Len(data))
buffer_from_array(data) == buffer_from(data, Len(data) - 1)

resize(b, new_size) == [i \in 1..new_size |-> IF i <= Len(b) THEN b[i] ELSE 0]

is_empty(b) == Len(b) = 0

=============================================================================

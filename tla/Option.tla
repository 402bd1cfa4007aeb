------------------------------- MODULE Option -------------------------------
CONSTANT None  \* Rust's None
=============================================================================
